----------------------------- MODULE AuditProofs -----------------------------
(***************************************************************************)
(* Theorems about AuditPages, for any number of users and transactions,    *)
(* any size of page and any bounds.                                        *)
(***************************************************************************)
EXTENDS AuditPages, FiniteSetTheorems, WellFoundedInduction, TLAPS

------------------------------------------------------------------------------
(***************************************************************************)
(* The keyset order, on entries and cursors alike.                         *)
(***************************************************************************)
Stamped(x) == x.time \in Nat /\ x.id \in Nat

LEMMA OlderIsStrict ==
  ASSUME NEW x, NEW y, NEW z, Stamped(x), Stamped(y), Stamped(z)
  PROVE  /\ ~Older(x, x)
         /\ Older(x, y) => ~Older(y, x)
         /\ Older(x, y) /\ Older(y, z) => Older(x, z)
         /\ ~Older(x, y) /\ ~Older(y, z) => ~Older(x, z)
         /\ Older(x, y) /\ ~Older(z, y) => Older(x, z)
         /\ ~Older(y, x) /\ Older(y, z) => Older(x, z)
         /\ x.id # y.id => Older(x, y) \/ Older(y, x)
  BY DEF Stamped, Older

LEMMA PositionOrder ==
  ASSUME NEW x, NEW y
  PROVE  /\ Older(x, Position(y)) <=> Older(x, y)
         /\ Older(Position(x), y) <=> Older(x, y)
         /\ Stamped(y) => Stamped(Position(y))
         /\ Position(y).time = y.time /\ Position(y).id = y.id
  BY DEF Older, Position, Stamped

(***************************************************************************)
(* A set of numbers has a least one, and a bounded one a greatest.         *)
(***************************************************************************)
LEMMA Least ==
  ASSUME NEW T \in SUBSET Nat, T # {}
  PROVE  \E n \in T : \A m \in T : n <= m
  <1>1. IsWellFoundedOn(OpToRel(<, Nat), Nat)
    BY NatLessThanWellFounded
  <1>2. PICK n \in T : \A m \in T : ~(<<m, n>> \in OpToRel(<, Nat))
    BY <1>1, WFMin
  <1>3. \A m \in T : ~(m < n)
    BY <1>2 DEF OpToRel
  <1>4. QED
    BY <1>3

LEMMA Greatest ==
  ASSUME NEW T \in SUBSET Nat, T # {}, NEW b \in Nat, \A t \in T : t <= b
  PROVE  \E n \in T : \A m \in T : m <= n
  <1> DEFINE G == {b - t : t \in T}
  <1>1. G \in SUBSET Nat /\ G # {}
    <2>1. \A t \in T : b - t \in Nat
      OBVIOUS
    <2>2. QED
      BY <2>1
  <1>2. PICK g \in G : \A h \in G : g <= h
    BY <1>1, Least
  <1>3. PICK n \in T : g = b - n
    BY <1>2
  <1>4. \A m \in T : b - m \in G
    OBVIOUS
  <1>5. ASSUME NEW m \in T PROVE m <= n
    <2>1. b - n <= b - m
      BY <1>2, <1>3, <1>4
    <2>2. QED
      BY <2>1
  <1>6. QED
    BY <1>5

(***************************************************************************)
(* A set of entries with numbers of their own, and times and numbers that  *)
(* are bounded, as those of a log are: any part of it has an oldest and a  *)
(* newest.                                                                 *)
(***************************************************************************)
Ordered(S) ==
  /\ \A e \in S : Stamped(e)
  /\ \A e, f \in S : e.id = f.id => e = f

Below(S, b) == \A e \in S : e.time <= b /\ e.id <= b

LEMMA Oldest ==
  ASSUME NEW S, Ordered(S), S # {}
  PROVE  \E e \in S : \A f \in S : f # e => Older(e, f)
  <1>1. PICK t \in {e.time : e \in S} : \A m \in {e.time : e \in S} : t <= m
    <2>1. {e.time : e \in S} \in SUBSET Nat /\ {e.time : e \in S} # {}
      BY DEF Ordered, Stamped
    <2>2. QED
      BY <2>1, Least
  <1> DEFINE I == {e.id : e \in {f \in S : f.time = t}}
  <1>2. PICK i \in I : \A m \in I : i <= m
    <2>1. I \in SUBSET Nat /\ I # {}
      BY <1>1 DEF Ordered, Stamped
    <2>2. QED
      BY <2>1, Least
  <1>3. PICK e \in S : e.time = t /\ e.id = i
    BY <1>2
  <1>4. ASSUME NEW f \in S, f # e PROVE Older(e, f)
    <2>1. t <= f.time /\ f.id # i /\ f.id \in Nat /\ f.time \in Nat /\ i \in Nat /\ t \in Nat
      BY <1>1, <1>3, <1>4 DEF Ordered, Stamped
    <2>2. f.time = t => i <= f.id
      BY <1>2
    <2>3. QED
      BY <1>3, <2>1, <2>2 DEF Older
  <1>5. QED
    BY <1>3, <1>4

LEMMA Youngest ==
  ASSUME NEW S, Ordered(S), S # {}, NEW b \in Nat, Below(S, b)
  PROVE  \E e \in S : \A f \in S : f # e => Older(f, e)
  <1>1. PICK t \in {e.time : e \in S} : \A m \in {e.time : e \in S} : m <= t
    <2>1. /\ {e.time : e \in S} \in SUBSET Nat /\ {e.time : e \in S} # {}
          /\ \A m \in {e.time : e \in S} : m <= b
      BY DEF Ordered, Stamped, Below
    <2>2. QED
      BY <2>1, Greatest
  <1> DEFINE I == {e.id : e \in {f \in S : f.time = t}}
  <1>2. PICK i \in I : \A m \in I : m <= i
    <2>1. I \in SUBSET Nat /\ I # {} /\ \A m \in I : m <= b
      BY <1>1 DEF Ordered, Stamped, Below
    <2>2. QED
      BY <2>1, Greatest
  <1>3. PICK e \in S : e.time = t /\ e.id = i
    BY <1>2
  <1>4. ASSUME NEW f \in S, f # e PROVE Older(f, e)
    <2>1. f.time <= t /\ f.id # i /\ f.id \in Nat /\ f.time \in Nat /\ i \in Nat /\ t \in Nat
      BY <1>1, <1>3, <1>4 DEF Ordered, Stamped
    <2>2. f.time = t => f.id <= i
      BY <1>2
    <2>3. QED
      BY <1>3, <2>1, <2>2 DEF Older
  <1>5. QED
    BY <1>3, <1>4

------------------------------------------------------------------------------
(***************************************************************************)
(* Newest(S, n): what ORDER BY ... DESC LIMIT n returns of the rows S.     *)
(***************************************************************************)
Newer(S, e) == {f \in S : Older(e, f)}

LEMMA NewestWhat ==
  ASSUME NEW S, NEW n
  PROVE  /\ Newest(S, n) \subseteq S
         /\ \A e \in S : e \in Newest(S, n) <=> Cardinality(Newer(S, e)) < n
  BY DEF Newest, Newer

LEMMA NewerFinite ==
  ASSUME NEW S, IsFiniteSet(S), NEW e
  PROVE  IsFiniteSet(Newer(S, e)) /\ Cardinality(Newer(S, e)) \in Nat
  <1>1. Newer(S, e) \in SUBSET S
    BY DEF Newer
  <1>2. QED
    BY <1>1, FS_Subset, FS_CardinalityType

LEMMA PartOrdered ==
  ASSUME NEW S, Ordered(S), IsFiniteSet(S), NEW T \in SUBSET S
  PROVE  Ordered(T) /\ IsFiniteSet(T)
  BY FS_Subset DEF Ordered

LEMMA NewestUpward ==
  ASSUME NEW S, Ordered(S), IsFiniteSet(S), NEW n \in Nat,
         NEW e \in Newest(S, n), NEW f \in S, Older(e, f)
  PROVE  f \in Newest(S, n)
  <1>1. e \in S
    BY NewestWhat
  <1>2. Newer(S, f) \in SUBSET Newer(S, e)
    BY <1>1, OlderIsStrict DEF Newer, Ordered
  <1>3. Cardinality(Newer(S, f)) <= Cardinality(Newer(S, e))
    BY <1>2, NewerFinite, FS_Subset
  <1>4. /\ Cardinality(Newer(S, e)) \in Nat /\ Cardinality(Newer(S, f)) \in Nat
        /\ Cardinality(Newer(S, e)) < n
    BY <1>1, NewerFinite, NewestWhat
  <1>5. Cardinality(Newer(S, f)) < n
    BY <1>3, <1>4
  <1>6. QED
    BY <1>5, NewestWhat

LEMMA NewestNonempty ==
  ASSUME NEW S, Ordered(S), IsFiniteSet(S), S # {}, NEW b \in Nat, Below(S, b),
         NEW n \in Nat \ {0}
  PROVE  Newest(S, n) # {}
  <1>1. PICK y \in S : \A f \in S : f # y => Older(f, y)
    BY Youngest
  <1>2. Newer(S, y) = {}
    BY <1>1, OlderIsStrict DEF Newer, Ordered
  <1>3. Cardinality(Newer(S, y)) < n
    BY <1>2, FS_EmptySet
  <1>4. QED
    BY <1>3, NewestWhat

LEMMA FewIsAll ==
  ASSUME NEW S, Ordered(S), IsFiniteSet(S), NEW n \in Nat, Cardinality(S) <= n
  PROVE  Newest(S, n) = S
  <1>1. ASSUME NEW e \in S PROVE e \in Newest(S, n)
    <2>1. Newer(S, e) \in SUBSET (S \ {e})
      BY OlderIsStrict DEF Newer, Ordered
    <2>2. IsFiniteSet(S \ {e}) /\ Cardinality(S \ {e}) = Cardinality(S) - 1
      BY FS_RemoveElement
    <2>3. Cardinality(Newer(S, e)) <= Cardinality(S) - 1
      BY <2>1, <2>2, FS_Subset
    <2>4. Cardinality(Newer(S, e)) \in Nat /\ Cardinality(S) \in Nat
      BY NewerFinite, FS_CardinalityType
    <2>5. Cardinality(Newer(S, e)) < n
      BY <2>3, <2>4
    <2>6. QED
      BY <2>5, NewestWhat
  <1>2. QED
    BY <1>1, NewestWhat

LEMMA ManyIsNotAll ==
  ASSUME NEW S, Ordered(S), IsFiniteSet(S), S # {}, NEW n \in Nat, Cardinality(S) > n
  PROVE  \E e \in S : e \notin Newest(S, n)
  <1>1. PICK e \in S : \A f \in S : f # e => Older(e, f)
    BY Oldest
  <1>2. Newer(S, e) = S \ {e}
    BY <1>1, OlderIsStrict DEF Newer, Ordered
  <1>3. Cardinality(Newer(S, e)) = Cardinality(S) - 1 /\ Cardinality(S) \in Nat
    BY <1>2, FS_RemoveElement, FS_CardinalityType
  <1>4. ~(Cardinality(Newer(S, e)) < n)
    BY <1>3
  <1>5. QED
    BY <1>4, NewestWhat

(* A page that is not full has everything.                                  *)
LEMMA ShortIsAll ==
  ASSUME NEW S, Ordered(S), IsFiniteSet(S), NEW b \in Nat, Below(S, b),
         NEW n \in Nat, Cardinality(Newest(S, n)) < n
  PROVE  Newest(S, n) = S
  <1> DEFINE Rest == S \ Newest(S, n)
  <1>1. SUFFICES ASSUME Rest # {} PROVE FALSE
    BY NewestWhat
  <1>2. Rest \in SUBSET S
    OBVIOUS
  <1>3. Ordered(Rest) /\ Below(Rest, b)
    BY <1>2, PartOrdered DEF Below
  <1>4. PICK y \in Rest : \A f \in Rest : f # y => Older(f, y)
    BY <1>1, <1>3, Youngest
  <1>5. Newer(S, y) \in SUBSET Newest(S, n)
    BY <1>4, OlderIsStrict DEF Newer, Ordered
  <1>6. IsFiniteSet(Newest(S, n))
    BY NewestWhat, FS_Subset
  <1>7. Cardinality(Newer(S, y)) <= Cardinality(Newest(S, n))
    BY <1>5, <1>6, FS_Subset
  <1>8. Cardinality(Newest(S, n)) \in Nat /\ Cardinality(Newer(S, y)) \in Nat
    BY <1>6, FS_CardinalityType, NewerFinite
  <1>9. Cardinality(Newer(S, y)) < n
    BY <1>7, <1>8
  <1>10. QED
    BY <1>9, NewestWhat

(***************************************************************************)
(* ReadPage: the page is the newest part of what is behind the cursor; its *)
(* cursor is its oldest entry, and only there when something is older.     *)
(***************************************************************************)
LogOK == Ordered(log) /\ IsFiniteSet(log) /\ \E b \in Nat : Below(log, b)

LEMMA PageWhat ==
  ASSUME LogOK, NEW u, NEW c
  PROVE  LET B == Behind(u, c)
             a == ReadPage(u, c)
         IN  /\ a.entries \subseteq B
             /\ B # {} => a.entries # {}
             /\ a.next = None => a.entries = B
             /\ a.next # None =>
                  \E l \in a.entries :
                    /\ a.next = Position(l)
                    /\ \A e \in B : e \in a.entries <=> ~Older(e, l)
                    /\ \E e \in B : Older(e, l)
  <1> DEFINE B == Behind(u, c)
             rows == Newest(B, LIMIT + 1)
             entries == Newest(rows, LIMIT)
             a == ReadPage(u, c)
  <1>1. a.entries = entries /\ a.next = IF Cardinality(rows) > LIMIT
                                          THEN Position(CHOOSE e \in Last(entries) : TRUE) ELSE None
    BY DEF ReadPage
  <1>2. PICK b \in Nat : Below(log, b)
    BY DEF LogOK
  <1>3. B \in SUBSET log
    BY DEF Behind
  <1>4. Ordered(B) /\ IsFiniteSet(B) /\ Below(B, b)
    BY <1>2, <1>3, PartOrdered DEF LogOK, Below
  <1>5. LIMIT \in Nat \ {0} /\ LIMIT + 1 \in Nat \ {0}
    BY AuditAssumption
  <1> HIDE DEF a, B
  <1>6. rows \in SUBSET B
    BY NewestWhat
  <1>7. Ordered(rows) /\ IsFiniteSet(rows) /\ Below(rows, b)
    BY <1>4, <1>6, PartOrdered DEF Below
  <1>8. B # {} => rows # {}
    BY <1>4, <1>5, NewestNonempty
  <1> HIDE DEF rows
  <1>9. entries \in SUBSET rows
    BY NewestWhat
  <1>10. rows # {} => entries # {}
    BY <1>5, <1>7, NewestNonempty
  <1>11. Ordered(entries)
    BY <1>7, <1>9, PartOrdered
  <1>12. CASE Cardinality(rows) > LIMIT
    <2>1. rows # {}
      BY <1>5, <1>12, FS_EmptySet
    <2>2. \E l \in entries : l \in Last(entries)
      BY <1>10, <1>11, <2>1, Oldest DEF Last
    <2>3. PICK l : l = CHOOSE e \in Last(entries) : TRUE
      OBVIOUS
    <2>4. l \in entries /\ \A f \in entries : f # l => Older(l, f)
      BY <2>2, <2>3 DEF Last
    <2>5. a.next = Position(l) /\ a.entries = entries
      BY <1>1, <1>12, <2>3
    <2>6. Position(l) # None
      BY <1>11, <2>4, AuditAssumption DEF Position, Ordered, Stamped
    <2>7. ASSUME NEW e \in B, e \notin entries PROVE Older(e, l)
      <3>1. l \in rows /\ l \in B /\ e # l
        BY <1>6, <1>9, <2>4, <2>7
      <3>2. ~Older(l, e)
        <4>1. CASE e \in rows
          BY <1>5, <1>7, <2>4, <2>7, <4>1, NewestUpward
        <4>2. CASE e \notin rows
          BY <1>4, <1>5, <3>1, <4>2, NewestUpward DEF rows
        <4>3. QED
          BY <4>1, <4>2
      <3>3. QED
        BY <1>4, <3>1, <3>2, OlderIsStrict DEF Ordered
    <2>8. ASSUME NEW e \in entries PROVE ~Older(e, l)
      BY <1>11, <2>4, OlderIsStrict DEF Ordered
    <2>9. PICK e \in rows : e \notin entries
      BY <1>5, <1>7, <1>12, <2>1, ManyIsNotAll
    <2>10. e \in B /\ Older(e, l)
      BY <1>6, <2>7, <2>9
    <2>11. entries \subseteq B
      BY <1>6, <1>9
    <2> HIDE DEF entries
    <2>12. QED
      BY <2>4, <2>5, <2>6, <2>7, <2>8, <2>10, <2>11 DEF a, B
  <1>13. CASE ~(Cardinality(rows) > LIMIT)
    <2>1. Cardinality(rows) \in Nat
      BY <1>7, FS_CardinalityType
    <2>2. Cardinality(rows) <= LIMIT /\ Cardinality(rows) < LIMIT + 1
      BY <1>5, <1>13, <2>1
    <2>3. rows = B
      BY <1>4, <1>5, <2>2, ShortIsAll DEF rows
    <2>4. entries = rows
      BY <1>5, <1>7, <2>2, FewIsAll
    <2>5. a.entries = B /\ a.next = None
      BY <1>1, <1>13, <2>3, <2>4
    <2>6. QED
      BY <2>5 DEF a, B
  <1>14. QED
    BY <1>12, <1>13

------------------------------------------------------------------------------
(***************************************************************************)
(* The inductive invariant of the writing side: numbers are given out once *)
(* and upwards, an administrator's read still has to log or has inserted   *)
(* each record it owes, and keeps them to itself.                          *)
(***************************************************************************)
WriteType ==
  /\ log \subseteq Entry /\ nextEntry \in Nat /\ clock \in Nat
  /\ tx \in [Writers -> Tx]
  /\ disclosed \subseteq [reader : Users, target : Users, record : SUBSET Entry]

Dated(S) == \A e \in S : e.id < nextEntry /\ e.time <= clock

Unique(S) == \A e, f \in S : e.id = f.id => e = f

Apart(S, T) == \A e \in S, f \in T : e.id # f.id

LogInv == IsFiniteSet(log) /\ Dated(log) /\ Unique(log)

Owed(a, t) ==
  {[Plain(a) EXCEPT !.target = t]}
    \cup (IF t # a THEN {[Plain(t) EXCEPT !.actor = a]} ELSE {})

Settles(q) ==
  q.reader # None =>
    /\ q.target \in Users
    /\ \A x \in Owed(q.reader, q.target) :
         \/ \E e \in q.draft : e.text = x
         \/ \E i \in 1..Len(q.todo) : q.todo[i] = x

TxOK(w) ==
  /\ IsFiniteSet(tx[w].draft) /\ Dated(tx[w].draft) /\ Unique(tx[w].draft)
  /\ tx[w].minted # None => tx[w].todo # <<>> /\ tx[w].minted <= clock
  /\ IF tx[w].recorded
       THEN tx[w].reader # None /\ tx[w].todo = <<>> /\ tx[w].draft \subseteq log
       ELSE Apart(tx[w].draft, log)
  /\ Settles(tx[w])

DraftsApart == \A w, v \in Writers : w # v => Apart(tx[w].draft, tx[v].draft)

Kept(d) == \A w \in Writers : tx[w].draft \cap d.record = {}

WriteInv ==
  /\ WriteType
  /\ LogInv
  /\ \A w \in Writers : TxOK(w)
  /\ DraftsApart
  /\ \A d \in disclosed : Witnessed(d) /\ Kept(d)
  /\ \A d, e \in disclosed : d # e => d.record \cap e.record = {}

LEMMA NoTxType ==
  /\ NoTx \in Tx
  /\ NoTx.todo = <<>> /\ NoTx.minted = None /\ NoTx.draft = {}
  /\ NoTx.reader = None /\ ~NoTx.recorded
  BY DEF NoTx, Tx

LEMMA PlainType ==
  ASSUME NEW u \in Users
  PROVE  /\ Plain(u) \in Text
         /\ \A a \in Users : /\ [Plain(u) EXCEPT !.target = a] \in Text
                             /\ [Plain(u) EXCEPT !.actor = a] \in Text
  BY DEF Plain, Text

LEMMA WriteInit == Init => WriteInv
  <1> SUFFICES ASSUME Init PROVE WriteInv
    OBVIOUS
  <1> USE DEF Init
  <1>1. WriteType /\ LogInv
    BY NoTxType, FS_EmptySet DEF WriteType, LogInv, Dated, Unique
  <1>2. \A w \in Writers : TxOK(w)
    BY NoTxType, FS_EmptySet DEF TxOK, Dated, Unique, Apart, Settles
  <1>3. DraftsApart
    BY NoTxType DEF DraftsApart, Apart
  <1>4. QED
    BY <1>1, <1>2, <1>3 DEF WriteInv

(***************************************************************************)
(* A step of one transaction that commits and discloses nothing.           *)
(***************************************************************************)
LEMMA OneWriter ==
  ASSUME WriteInv, NEW w \in Writers, NEW q \in Tx,
         tx' = [tx EXCEPT ![w] = q],
         UNCHANGED <<log, clock, disclosed>>,
         nextEntry' \in Nat, nextEntry <= nextEntry',
         TxOK(w)',
         \A e \in q.draft : e \in tx[w].draft \/ e.id >= nextEntry
  PROVE  WriteInv'
  <1>1. /\ tx' \in [Writers -> Tx] /\ tx'[w] = q
        /\ \A v \in Writers : v # w => tx'[v] = tx[v]
    BY DEF WriteInv, WriteType
  <1>2. WriteType'
    BY <1>1 DEF WriteInv, WriteType
  <1>3. /\ \A e \in log : e.id \in Nat
        /\ \A v \in Writers : \A e \in tx[v].draft : e.id \in Nat
        /\ \A e \in q.draft : e.id \in Nat
        /\ nextEntry \in Nat
    BY DEF WriteInv, WriteType, Entry, Tx
  <1>4. LogInv'
    BY <1>3 DEF WriteInv, LogInv, Dated, Unique
  <1>5. ASSUME NEW v \in Writers, v # w PROVE TxOK(v)'
    <2>1. TxOK(v) /\ tx'[v] = tx[v]
      BY <1>1, <1>5 DEF WriteInv
    <2>2. QED
      BY <1>3, <2>1 DEF TxOK, Dated, Unique, Apart, Settles
  <1>6. DraftsApart'
    <2>1. ASSUME NEW v \in Writers, v # w
          PROVE  Apart(q.draft, tx[v].draft) /\ Apart(tx[v].draft, q.draft)
      <3>1. Apart(tx[w].draft, tx[v].draft) /\ Dated(tx[v].draft)
        BY <2>1 DEF WriteInv, DraftsApart, TxOK
      <3>2. QED
        BY <1>3, <3>1 DEF Apart, Dated
    <2>2. QED
      BY <1>1, <2>1 DEF WriteInv, DraftsApart, Apart
  <1>7. ASSUME NEW d \in disclosed PROVE Witnessed(d)' /\ Kept(d)'
    <2>1. Witnessed(d) /\ Kept(d)
      BY <1>7 DEF WriteInv
    <2>2. \A e \in d.record : e.id < nextEntry /\ e.id \in Nat
      BY <1>3, <2>1 DEF Witnessed, WriteInv, LogInv, Dated
    <2>3. q.draft \cap d.record = {}
      BY <1>3, <2>1, <2>2 DEF Kept
    <2>4. QED
      BY <1>1, <2>1, <2>3 DEF Witnessed, Kept
  <1>8. QED
    BY <1>1, <1>2, <1>4, <1>5, <1>6, <1>7 DEF WriteInv

LEMMA ActStep ==
  ASSUME WriteInv, NEW w \in Writers, Act(w)
  PROVE  WriteInv'
  <1>1. PICK u \in Users : tx' = [tx EXCEPT ![w] = [NoTx EXCEPT !.todo = <<Plain(u)>>]]
    BY DEF Act
  <1>2. PICK q : q = [NoTx EXCEPT !.todo = <<Plain(u)>>]
    OBVIOUS
  <1>3. <<Plain(u)>> \in Seq(Text) /\ <<Plain(u)>> # <<>>
    BY PlainType
  <1>4. /\ q \in Tx /\ q.todo = <<Plain(u)>> /\ q.minted = None /\ q.draft = {}
        /\ q.reader = None /\ ~q.recorded
    BY <1>2, <1>3, NoTxType DEF Tx
  <1>5. tx' = [tx EXCEPT ![w] = q] /\ tx'[w] = q
    BY <1>1, <1>2 DEF WriteInv, WriteType
  <1>6. TxOK(w)'
    BY <1>4, <1>5, FS_EmptySet DEF TxOK, Dated, Unique, Apart, Settles
  <1>7. /\ UNCHANGED <<log, clock, disclosed>>
        /\ nextEntry' \in Nat /\ nextEntry <= nextEntry'
    BY DEF Act, history, WriteInv, WriteType
  <1>8. QED
    BY <1>4, <1>5, <1>6, <1>7, OneWriter

LEMMA CopiesWhat ==
  ASSUME NEW a \in Users, NEW t \in Users
  PROVE  /\ Copies(a, t) \in Seq(Text)
         /\ \A x \in Owed(a, t) : \E i \in 1..Len(Copies(a, t)) : Copies(a, t)[i] = x
  <1> DEFINE x == [Plain(a) EXCEPT !.target = t]
             y == [Plain(t) EXCEPT !.actor = a]
  <1>1. x \in Text /\ y \in Text
    BY PlainType
  <1>2. /\ Copies(a, t) = IF t # a THEN <<x>> \o <<y>> ELSE <<x>> \o <<>>
        /\ Owed(a, t) = IF t # a THEN {x, y} ELSE {x}
    BY DEF Copies, Owed
  <1> HIDE DEF x, y
  <1>3. CASE t # a
    <2>1. Copies(a, t) = <<x>> \o <<y>> /\ Owed(a, t) = {x, y}
      BY <1>2, <1>3
    <2>2. /\ <<x>> \o <<y>> \in Seq(Text) /\ Len(<<x>> \o <<y>>) = 2
          /\ (<<x>> \o <<y>>)[1] = x /\ (<<x>> \o <<y>>)[2] = y
      BY <1>1
    <2>3. 1 \in 1..Len(<<x>> \o <<y>>) /\ 2 \in 1..Len(<<x>> \o <<y>>)
      BY <2>2
    <2>4. QED
      BY <2>1, <2>2, <2>3
  <1>4. CASE t = a
    <2>1. Copies(a, t) = <<x>> \o <<>> /\ Owed(a, t) = {x}
      BY <1>2, <1>4
    <2>2. /\ <<x>> \o <<>> \in Seq(Text) /\ Len(<<x>> \o <<>>) = 1
          /\ (<<x>> \o <<>>)[1] = x
      BY <1>1
    <2>3. QED
      BY <2>1, <2>2
  <1>5. QED
    BY <1>3, <1>4

LEMMA AdminReadStep ==
  ASSUME WriteInv, NEW w \in Writers, AdminRead(w)
  PROVE  WriteInv'
  <1>1. PICK a \in Admins, t \in Users :
          tx' = [tx EXCEPT ![w] = [NoTx EXCEPT !.todo = Copies(a, t),
                                               !.reader = a, !.target = t]]
    BY DEF AdminRead
  <1>2. PICK q : q = [NoTx EXCEPT !.todo = Copies(a, t), !.reader = a, !.target = t]
    OBVIOUS
  <1>3. a \in Users /\ Copies(a, t) \in Seq(Text)
    BY AuditAssumption, CopiesWhat
  <1>4. /\ q \in Tx /\ q.todo = Copies(a, t) /\ q.minted = None /\ q.draft = {}
        /\ q.reader = a /\ q.target = t /\ ~q.recorded
    BY <1>2, <1>3, NoTxType DEF Tx
  <1>5. tx' = [tx EXCEPT ![w] = q] /\ tx'[w] = q
    BY <1>1, <1>2 DEF WriteInv, WriteType
  <1>6. Settles(q)
    BY <1>3, <1>4, CopiesWhat DEF Settles
  <1>7. TxOK(w)'
    <2>1. Settles(tx'[w])
      BY <1>5, <1>6
    <2>2. QED
      BY <1>4, <1>5, <2>1, FS_EmptySet DEF TxOK, Dated, Unique, Apart, Settles
  <1>8. /\ UNCHANGED <<log, clock, disclosed>>
        /\ nextEntry' \in Nat /\ nextEntry <= nextEntry'
    BY DEF AdminRead, history, WriteInv, WriteType
  <1>9. QED
    BY <1>4, <1>5, <1>7, <1>8, OneWriter

LEMMA MintStep ==
  ASSUME WriteInv, NEW w \in Writers, Mint(w)
  PROVE  WriteInv'
  <1>1. PICK q : q = [tx[w] EXCEPT !.minted = clock]
    OBVIOUS
  <1>2. tx[w] \in Tx /\ TxOK(w) /\ clock \in Nat /\ tx[w].todo # <<>>
    BY DEF WriteInv, WriteType, Mint
  <1>3. /\ q \in Tx /\ q.todo = tx[w].todo /\ q.minted = clock /\ q.draft = tx[w].draft
        /\ q.reader = tx[w].reader /\ q.target = tx[w].target /\ q.recorded = tx[w].recorded
    BY <1>1, <1>2 DEF Tx
  <1>4. tx' = [tx EXCEPT ![w] = q] /\ tx'[w] = q
    BY <1>1 DEF WriteInv, WriteType, Mint
  <1>5. /\ UNCHANGED <<log, clock, disclosed>>
        /\ nextEntry' = nextEntry /\ nextEntry' \in Nat /\ nextEntry <= nextEntry'
    BY DEF Mint, history, WriteInv, WriteType
  <1>6. TxOK(w)'
    BY <1>2, <1>3, <1>4, <1>5 DEF TxOK, Dated, Unique, Apart, Settles
  <1>7. QED
    BY <1>3, <1>4, <1>5, <1>6, OneWriter

LEMMA AbandonStep ==
  ASSUME WriteInv, NEW w \in Writers, Abandon(w)
  PROVE  WriteInv'
  <1>1. tx' = [tx EXCEPT ![w] = NoTx] /\ tx'[w] = NoTx
    BY DEF WriteInv, WriteType, Abandon
  <1>2. TxOK(w)'
    BY <1>1, NoTxType, FS_EmptySet DEF TxOK, Dated, Unique, Apart, Settles
  <1>3. /\ UNCHANGED <<log, clock, disclosed>>
        /\ nextEntry' \in Nat /\ nextEntry <= nextEntry'
    BY DEF Abandon, history, WriteInv, WriteType
  <1>4. QED
    BY <1>1, <1>2, <1>3, NoTxType, OneWriter

LEMMA InsertStep ==
  ASSUME WriteInv, NEW w \in Writers, Insert(w)
  PROVE  WriteInv'
  <1>1. PICK e : e = [id |-> nextEntry, time |-> tx[w].minted, text |-> Head(tx[w].todo)]
    OBVIOUS
  <1>2. PICK q : q = [tx[w] EXCEPT !.todo = Tail(@), !.minted = None, !.draft = @ \cup {e}]
    OBVIOUS
  <1>3. /\ tx[w] \in Tx /\ TxOK(w) /\ clock \in Nat /\ nextEntry \in Nat
        /\ tx[w].minted # None /\ tx[w].todo # <<>> /\ tx[w].todo \in Seq(Text)
        /\ tx[w].minted \in Nat /\ tx[w].minted <= clock
    BY DEF WriteInv, WriteType, Insert, Tx, TxOK
  <1>4. Head(tx[w].todo) \in Text /\ Tail(tx[w].todo) \in Seq(Text)
    BY <1>3
  <1>5. /\ e \in Entry /\ e.id = nextEntry /\ e.time = tx[w].minted
        /\ e.text = Head(tx[w].todo)
    BY <1>1, <1>3, <1>4 DEF Entry
  <1>6. /\ q \in Tx /\ q.todo = Tail(tx[w].todo) /\ q.minted = None
        /\ q.draft = tx[w].draft \cup {e}
        /\ q.reader = tx[w].reader /\ q.target = tx[w].target /\ q.recorded = tx[w].recorded
    BY <1>2, <1>3, <1>4, <1>5 DEF Tx
  <1>7. tx' = [tx EXCEPT ![w] = q] /\ tx'[w] = q
    BY <1>1, <1>2 DEF WriteInv, WriteType, Insert
  <1>8. UNCHANGED <<log, clock, disclosed>> /\ nextEntry' = nextEntry + 1
    BY DEF Insert, history
  <1>9. ~tx[w].recorded
    BY <1>3 DEF TxOK
  <1>10. /\ \A f \in tx[w].draft : f.id < nextEntry /\ f.time <= clock /\ f.id \in Nat
         /\ \A f \in log : f.id < nextEntry /\ f.id \in Nat
    BY <1>3 DEF WriteInv, WriteType, LogInv, TxOK, Dated, Tx, Entry
  <1>11. Settles(q)
    <2>1. SUFFICES ASSUME q.reader # None, NEW x \in Owed(q.reader, q.target)
                   PROVE  \/ \E f \in q.draft : f.text = x
                          \/ \E i \in 1..Len(q.todo) : q.todo[i] = x
      BY <1>3, <1>6 DEF Settles, TxOK
    <2>2. \/ \E f \in tx[w].draft : f.text = x
          \/ \E i \in 1..Len(tx[w].todo) : tx[w].todo[i] = x
      BY <1>3, <1>6, <2>1 DEF Settles, TxOK
    <2>3. ASSUME NEW i \in 1..Len(tx[w].todo), tx[w].todo[i] = x, i # 1
          PROVE  i - 1 \in 1..Len(q.todo) /\ q.todo[i - 1] = x
      BY <1>3, <1>6, <2>3
    <2>4. tx[w].todo[1] = x => e \in q.draft /\ e.text = x
      BY <1>3, <1>5, <1>6
    <2>5. tx[w].draft \subseteq q.draft
      BY <1>6
    <2>6. CASE \E f \in tx[w].draft : f.text = x
      BY <2>5, <2>6
    <2>7. CASE \E i \in 1..Len(tx[w].todo) : tx[w].todo[i] = x
      BY <2>3, <2>4, <2>7
    <2>8. QED
      BY <2>2, <2>6, <2>7
  <1>12. TxOK(w)'
    <2>1. IsFiniteSet(q.draft)
      BY <1>3, <1>6, FS_AddElement DEF TxOK
    <2>2. (Dated(tx[w].draft) /\ Unique(tx[w].draft))'
      BY <1>3, <1>5, <1>6, <1>7, <1>8, <1>10 DEF Dated, Unique, TxOK
    <2>3. Apart(tx[w].draft, log)'
      BY <1>3, <1>5, <1>6, <1>7, <1>8, <1>9, <1>10 DEF Apart, TxOK
    <2>4. Settles(tx'[w])
      BY <1>7, <1>11
    <2>5. QED
      BY <1>6, <1>7, <1>9, <2>1, <2>2, <2>3, <2>4 DEF TxOK, Settles
  <1>13. \A f \in q.draft : f \in tx[w].draft \/ f.id >= nextEntry
    BY <1>3, <1>5, <1>6
  <1>14. QED
    <2>1. nextEntry' \in Nat /\ nextEntry <= nextEntry'
      BY <1>3, <1>8
    <2>2. QED
      BY <1>6, <1>7, <1>8, <1>12, <1>13, <2>1, OneWriter

(***************************************************************************)
(* The commit: what was the transaction's own is in the log.               *)
(***************************************************************************)
LEMMA CommitStep ==
  ASSUME WriteInv, NEW w \in Writers, Commit(w)
  PROVE  WriteInv'
  <1>1. PICK q : q = IF tx[w].reader = None THEN NoTx ELSE [tx[w] EXCEPT !.recorded = TRUE]
    OBVIOUS
  <1>2. /\ tx[w] \in Tx /\ TxOK(w) /\ ~tx[w].recorded /\ tx[w].todo = <<>>
        /\ tx[w].minted = None
    BY DEF WriteInv, WriteType, Commit, TxOK
  <1>3. q \in Tx
    BY <1>1, <1>2, NoTxType DEF Tx
  <1>4. \/ q = NoTx
        \/ /\ q.todo = <<>> /\ q.minted = None /\ q.draft = tx[w].draft /\ q.recorded
           /\ q.reader = tx[w].reader /\ q.target = tx[w].target /\ q.reader # None
    BY <1>1, <1>2 DEF Tx
  <1>5. /\ tx' = [tx EXCEPT ![w] = q] /\ log' = log \cup tx[w].draft
        /\ UNCHANGED <<nextEntry, clock, disclosed>>
    BY <1>1 DEF Commit, history
  <1>6. /\ tx' \in [Writers -> Tx] /\ tx'[w] = q
        /\ \A v \in Writers : v # w => tx'[v] = tx[v]
    BY <1>3, <1>5 DEF WriteInv, WriteType
  <1>7. q.draft \subseteq tx[w].draft
    BY <1>4, NoTxType
  <1>8. tx[w].draft \subseteq Entry /\ Apart(tx[w].draft, log)
    BY <1>2 DEF Tx, TxOK
  <1>9. WriteType'
    BY <1>5, <1>6, <1>8 DEF WriteInv, WriteType
  <1>10. LogInv'
    <2>1. IsFiniteSet(log')
      BY <1>2, <1>5, FS_Union DEF WriteInv, LogInv, TxOK
    <2>2. QED
      BY <1>2, <1>5, <1>8, <2>1 DEF WriteInv, LogInv, TxOK, Dated, Unique, Apart
  <1>11. TxOK(w)'
    <2>1. CASE q = NoTx
      BY <1>6, <2>1, NoTxType, FS_EmptySet DEF TxOK, Dated, Unique, Apart, Settles
    <2>2. CASE q # NoTx
      BY <1>2, <1>4, <1>5, <1>6, <2>2 DEF TxOK, Dated, Unique, Settles
    <2>3. QED
      BY <2>1, <2>2
  <1>12. ASSUME NEW v \in Writers, v # w PROVE TxOK(v)'
    <2>1. TxOK(v) /\ tx'[v] = tx[v] /\ Apart(tx[v].draft, tx[w].draft)
      BY <1>6, <1>12 DEF WriteInv, DraftsApart
    <2>2. QED
      BY <1>5, <2>1 DEF TxOK, Dated, Unique, Apart, Settles
  <1>13. DraftsApart'
    BY <1>6, <1>7 DEF WriteInv, DraftsApart, Apart
  <1>14. ASSUME NEW d \in disclosed PROVE Witnessed(d)' /\ Kept(d)'
    <2>1. Witnessed(d) /\ Kept(d)
      BY <1>14 DEF WriteInv
    <2>2. QED
      BY <1>5, <1>6, <1>7, <2>1 DEF Witnessed, Kept
  <1>15. QED
    BY <1>5, <1>9, <1>10, <1>11, <1>12, <1>13, <1>14 DEF WriteInv

(***************************************************************************)
(* The disclosure: everything owed is in the record, and the record is of  *)
(* no other read.                                                          *)
(***************************************************************************)
LEMMA DiscloseStep ==
  ASSUME WriteInv, NEW w \in Writers, Disclose(w)
  PROVE  WriteInv'
  <1>1. PICK d : d = [reader |-> tx[w].reader, target |-> tx[w].target, record |-> tx[w].draft]
    OBVIOUS
  <1>2. /\ tx[w] \in Tx /\ TxOK(w) /\ tx[w].recorded /\ tx[w].reader # None
        /\ tx[w].todo = <<>> /\ tx[w].draft \subseteq log /\ tx[w].target \in Users
    BY DEF WriteInv, WriteType, Disclose, TxOK, Settles
  <1>3. /\ disclosed' = disclosed \cup {d} /\ tx' = [tx EXCEPT ![w] = NoTx]
        /\ UNCHANGED <<log, nextEntry, clock>>
    BY <1>1 DEF Disclose
  <1>4. /\ tx' \in [Writers -> Tx] /\ tx'[w] = NoTx
        /\ \A v \in Writers : v # w => tx'[v] = tx[v]
    BY <1>3, NoTxType DEF WriteInv, WriteType
  <1>5. d.reader = tx[w].reader /\ d.target = tx[w].target /\ d.record = tx[w].draft
    BY <1>1
  <1>6. WriteType'
    <2>1. d \in [reader : Users, target : Users, record : SUBSET Entry]
      BY <1>1, <1>2 DEF Tx
    <2>2. QED
      BY <1>3, <1>4, <2>1 DEF WriteInv, WriteType
  <1>7. LogInv'
    BY <1>3 DEF WriteInv, LogInv, Dated, Unique
  <1>8. ASSUME NEW v \in Writers PROVE TxOK(v)'
    <2>1. CASE v = w
      BY <1>4, <2>1, NoTxType, FS_EmptySet DEF TxOK, Dated, Unique, Apart, Settles
    <2>2. CASE v # w
      BY <1>3, <1>4, <2>2 DEF WriteInv, TxOK, Dated, Unique, Apart, Settles
    <2>3. QED
      BY <2>1, <2>2
  <1>9. DraftsApart'
    BY <1>4, NoTxType DEF WriteInv, DraftsApart, Apart
  <1>10. Witnessed(d)'
    <2>1. \A x \in Owed(d.reader, d.target) : \E e \in d.record : e.text = x
      BY <1>2, <1>5 DEF TxOK, Settles
    <2>2. /\ [Plain(d.reader) EXCEPT !.target = d.target] \in Owed(d.reader, d.target)
          /\ d.target # d.reader =>
               [Plain(d.target) EXCEPT !.actor = d.reader] \in Owed(d.reader, d.target)
      BY DEF Owed
    <2>3. QED
      BY <1>2, <1>3, <1>5, <2>1, <2>2 DEF Witnessed
  <1>11. Kept(d)'
    <2>1. ASSUME NEW v \in Writers, v # w PROVE tx[v].draft \cap d.record = {}
      BY <1>5, <2>1 DEF WriteInv, DraftsApart, Apart
    <2>2. QED
      BY <1>4, <2>1, NoTxType DEF Kept
  <1>12. ASSUME NEW c \in disclosed
         PROVE  Witnessed(c)' /\ Kept(c)' /\ c.record \cap d.record = {}
    <2>1. Witnessed(c) /\ Kept(c)
      BY <1>12 DEF WriteInv
    <2>2. QED
      BY <1>3, <1>4, <1>5, <2>1, NoTxType DEF Witnessed, Kept
  <1>13. \A c, e \in disclosed' : c # e => c.record \cap e.record = {}
    BY <1>3, <1>12 DEF WriteInv
  <1>14. QED
    BY <1>3, <1>6, <1>7, <1>8, <1>9, <1>10, <1>11, <1>12, <1>13 DEF WriteInv

LEMMA WriteStays ==
  ASSUME WriteInv, UNCHANGED <<log, nextEntry, tx, disclosed>>,
         clock' \in Nat, clock <= clock'
  PROVE  WriteInv'
  <1>1. WriteType'
    BY DEF WriteInv, WriteType
  <1>2. /\ \A e \in log : e.time \in Nat
        /\ \A w \in Writers : /\ \A e \in tx[w].draft : e.time \in Nat
                              /\ tx[w].minted # None => tx[w].minted \in Nat
        /\ clock \in Nat
    BY DEF WriteInv, WriteType, Entry, Tx
  <1>3. LogInv'
    BY <1>2 DEF WriteInv, LogInv, Dated, Unique
  <1>4. ASSUME NEW w \in Writers PROVE TxOK(w)'
    BY <1>2 DEF WriteInv, TxOK, Dated, Unique, Apart, Settles
  <1>5. DraftsApart' /\ \A d \in disclosed : Witnessed(d)' /\ Kept(d)'
    BY DEF WriteInv, DraftsApart, Apart, Witnessed, Kept
  <1>6. QED
    BY <1>1, <1>3, <1>4, <1>5 DEF WriteInv

LEMMA WriteNext == WriteInv /\ [Next]_vars => WriteInv' /\ log \subseteq log'
  <1> SUFFICES ASSUME WriteInv, [Next]_vars PROVE WriteInv' /\ log \subseteq log'
    OBVIOUS
  <1>1. ASSUME NEW w \in Writers,
               \/ Act(w) \/ AdminRead(w) \/ Mint(w) \/ Insert(w) \/ Commit(w)
               \/ Disclose(w) \/ Abandon(w)
        PROVE  WriteInv' /\ log \subseteq log'
    <2>1. log \subseteq log'
      BY <1>1 DEF Act, AdminRead, Mint, Insert, Commit, Disclose, Abandon
    <2>2. QED
      BY <1>1, <2>1, ActStep, AdminReadStep, MintStep, InsertStep, CommitStep,
         DiscloseStep, AbandonStep
  <1>2. ASSUME NEW u \in Viewers,
               \/ Open(u) \/ Leave(u) \/ Serve(u) \/ Show(u) \/ LoadFails(u)
               \/ HandleNext(u) \/ HandlePrevious(u)
        PROVE  WriteInv' /\ log \subseteq log'
    <2>1. UNCHANGED <<log, nextEntry, clock, tx, disclosed>>
      BY <1>2 DEF Open, Leave, Serve, Show, LoadFails, HandleNext, HandlePrevious, history
    <2>2. QED
      BY <2>1, WriteStays DEF WriteInv, WriteType
  <1>3. CASE Tick \/ UNCHANGED vars
    <2>1. /\ UNCHANGED <<log, nextEntry, tx, disclosed>>
          /\ clock' \in Nat /\ clock <= clock'
      BY <1>3 DEF Tick, vars, history, WriteInv, WriteType
    <2>2. QED
      BY <2>1, WriteStays
  <1>4. QED
    BY <1>1, <1>2, <1>3 DEF Next

LEMMA WriteInvariance == Spec => []WriteInv
  <1>1. WriteInv /\ [Next]_vars => WriteInv'
    BY WriteNext
  <1>2. QED
    BY WriteInit, <1>1, PTL DEF Spec

(***************************************************************************)
(* Administrators are told nothing that is not on record: every answer to  *)
(* GET /api/admin/audit/:userId has its committed entries, those of no     *)
(* other read.                                                             *)
(***************************************************************************)
THEOREM AdminReadsRecorded == Spec => []ReadsAreRecorded
  <1>1. WriteInv => ReadsAreRecorded
    BY DEF WriteInv, ReadsAreRecorded
  <1>2. QED
    BY <1>1, WriteInvariance, PTL

------------------------------------------------------------------------------
(***************************************************************************)
(* The inductive invariant of the reading side.  A walk has a point for    *)
(* each cursor it holds, the page it is on last.  The points go down; each *)
(* page that was left holds what was known between its point and the next  *)
(* and nothing else, and so does the one on display, or on its way.        *)
(***************************************************************************)
ReadType ==
  /\ page \in [Viewers -> Activity]
  /\ seen = [u \in Viewers |-> seen[u]]
  /\ \A u \in Viewers : /\ DOMAIN seen[u] \subseteq Cursor \cup {None}
                        /\ seen[u] \in [DOMAIN seen[u] -> SUBSET Entry]
  /\ known \in [Viewers -> SUBSET Entry]
  /\ jumped \in [Viewers -> BOOLEAN]

Points(u) == 1..(Len(page[u].stack) + 1)

Point(u, i) == IF i <= Len(page[u].stack) THEN page[u].stack[i] ELSE page[u].cursor

After(c, e) == c # None => Older(e, c)

Until(n, e) == n # None => ~Older(e, n)

Down(c, d) == d # None /\ (c # None => Older(d, c))

Own(u) == {e \in log : e.text.user = u}

Slice(u, c, S, n) ==
  /\ \A e \in S : e \in Behind(u, c) /\ Until(n, e)
  /\ \A e \in known[u] : After(c, e) /\ Until(n, e) => e \in S

Loaded(u, c, S, n) ==
  /\ Slice(u, c, S, n)
  /\ n # None => Down(c, n) /\ Behind(u, n) # {}
  /\ c # None => S # {}

Shape(u) ==
  /\ page[u].loading => page[u].open /\ ~page[u].error
  /\ page[u].answer # None => page[u].loading
  /\ \A i \in Points(u) : Point(u, i) = None <=> i = 1
  /\ known[u] \subseteq Own(u)

Descends(u) == \A i, j \in Points(u) : i < j => Down(Point(u, i), Point(u, j))

Walked(u) ==
  \A i \in 1..Len(page[u].stack) :
    /\ Point(u, i) \in DOMAIN seen[u]
    /\ Loaded(u, Point(u, i), seen[u][Point(u, i)], Point(u, i + 1))

OnDisplay(u) ==
  ~page[u].loading /\ ~page[u].error =>
    /\ page[u].cursor \in DOMAIN seen[u]
    /\ page[u].entries = seen[u][page[u].cursor]
    /\ Loaded(u, page[u].cursor, page[u].entries, page[u].next)

OnItsWay(u) ==
  page[u].answer # None =>
    Loaded(u, page[u].cursor, page[u].answer.entries, page[u].answer.next)

WalkOK(u) ==
  page[u].open /\ ~jumped[u] => Descends(u) /\ Walked(u) /\ OnDisplay(u) /\ OnItsWay(u)

PageInv(u) == Shape(u) /\ WalkOK(u)

ReadInv == ReadType /\ \A u \in Viewers : PageInv(u)

LEMMA TypeParts == TypeOK <=> WriteType /\ ReadType
  BY DEF TypeOK, WriteType, ReadType

LEMMA ActivityType ==
  ASSUME ReadType, NEW u \in Viewers
  PROVE  /\ page[u] \in Activity
         /\ page[u].open \in BOOLEAN /\ page[u].loading \in BOOLEAN /\ page[u].error \in BOOLEAN
         /\ page[u].cursor \in Cursor \cup {None} /\ page[u].next \in Cursor \cup {None}
         /\ page[u].stack \in Seq(Cursor \cup {None})
         /\ page[u].entries \in SUBSET Entry
         /\ page[u].answer \in Answer \cup {None}
         /\ Len(page[u].stack) \in Nat
         /\ \A i \in Points(u) : Point(u, i) \in Cursor \cup {None}
         /\ seen[u] \in [DOMAIN seen[u] -> SUBSET Entry]
         /\ known[u] \in SUBSET Entry /\ jumped[u] \in BOOLEAN
  <1>1. page[u] \in Activity
    BY DEF ReadType
  <1>2. page[u].stack \in Seq(Cursor \cup {None})
    BY <1>1 DEF Activity
  <1>3. \A i \in Points(u) : Point(u, i) \in Cursor \cup {None}
    BY <1>1, <1>2 DEF Activity, Points, Point
  <1>4. QED
    BY <1>1, <1>2, <1>3 DEF Activity, ReadType

LEMMA LogIsOK == WriteInv => LogOK
  <1> SUFFICES ASSUME WriteInv PROVE LogOK
    OBVIOUS
  <1>1. \A e \in log : e.id \in Nat /\ e.time \in Nat /\ e.id < nextEntry /\ e.time <= clock
    BY DEF WriteInv, WriteType, Entry, LogInv, Dated
  <1>2. nextEntry \in Nat /\ clock \in Nat
    BY DEF WriteInv, WriteType
  <1>3. nextEntry + clock \in Nat /\ Below(log, nextEntry + clock)
    BY <1>1, <1>2 DEF Below
  <1>4. Ordered(log) /\ IsFiniteSet(log)
    BY <1>1 DEF Ordered, Stamped, WriteInv, LogInv, Unique
  <1>5. QED
    BY <1>3, <1>4 DEF LogOK

LEMMA ClosedWhat ==
  /\ Closed \in Activity
  /\ ~Closed.open /\ ~Closed.loading /\ ~Closed.error /\ Closed.cursor = None
  /\ Closed.next = None /\ Closed.stack = <<>> /\ Closed.entries = {} /\ Closed.answer = None
  BY DEF Closed, Activity

LEMMA ReadInit == Init => ReadInv
  <1> SUFFICES ASSUME Init PROVE ReadInv
    OBVIOUS
  <1>1. ReadType
    BY ClosedWhat DEF Init, ReadType
  <1>2. ASSUME NEW u \in Viewers PROVE PageInv(u)
    <2>1. page[u] = Closed /\ known[u] = {}
      BY DEF Init
    <2>2. Len(page[u].stack) = 0
      BY <2>1, ClosedWhat
    <2>3. QED
      BY <2>1, <2>2, ClosedWhat DEF PageInv, Shape, WalkOK, Points, Point
  <1>3. QED
    BY <1>1, <1>2 DEF ReadInv

(***************************************************************************)
(* Nothing that is appended to the log disturbs a page.                    *)
(***************************************************************************)
LEMMA LoadedStays ==
  ASSUME NEW u, NEW c, NEW S, NEW n, Loaded(u, c, S, n),
         log \subseteq log', known'[u] = known[u]
  PROVE  Loaded(u, c, S, n)'
  BY DEF Loaded, Slice, Behind, After, Until, Down

LEMMA PageStays ==
  ASSUME NEW u \in Viewers, PageInv(u), log \subseteq log', page'[u] = page[u],
         seen'[u] = seen[u], known'[u] = known[u], jumped'[u] = jumped[u]
  PROVE  PageInv(u)'
  <1>1. Points(u)' = Points(u) /\ \A i : Point(u, i)' = Point(u, i)
    BY DEF Points, Point
  <1>2. Shape(u)'
    BY <1>1 DEF PageInv, Shape, Own
  <1>3. ASSUME page[u].open, ~jumped[u]
        PROVE  Descends(u)' /\ Walked(u)' /\ OnDisplay(u)' /\ OnItsWay(u)'
    <2>1. Descends(u) /\ Walked(u) /\ OnDisplay(u) /\ OnItsWay(u)
      BY <1>3 DEF PageInv, WalkOK
    <2>2. Descends(u)'
      BY <1>1, <2>1 DEF Descends, Down
    <2>3. Walked(u)'
      BY <1>1, <2>1, LoadedStays DEF Walked
    <2>4. OnDisplay(u)' /\ OnItsWay(u)'
      BY <2>1, LoadedStays DEF OnDisplay, OnItsWay
    <2>5. QED
      BY <2>2, <2>3, <2>4
  <1>4. QED
    BY <1>2, <1>3 DEF PageInv, WalkOK

LEMMA WriterLeavesPages ==
  ASSUME ReadInv, log \subseteq log', UNCHANGED <<page, seen, known, jumped>>
  PROVE  ReadInv'
  <1>1. ReadType'
    BY DEF ReadInv, ReadType
  <1>2. QED
    BY <1>1, PageStays DEF ReadInv

(***************************************************************************)
(* What the server answers, in the terms of a walk.                        *)
(***************************************************************************)
LEMMA ServedPage ==
  ASSUME WriteInv, NEW u, NEW c
  PROVE  LET a == ReadPage(u, c)
         IN  /\ a \in Answer
             /\ \A e \in a.entries : e \in Behind(u, c) /\ Until(a.next, e)
             /\ \A e \in Behind(u, c) : Until(a.next, e) => e \in a.entries
             /\ a.next # None => Down(c, a.next) /\ Behind(u, a.next) # {}
             /\ Behind(u, c) # {} => a.entries # {}
  <1> DEFINE a == ReadPage(u, c)
             B == Behind(u, c)
  <1>1. B \subseteq log /\ \A e \in B : e.text.user = u /\ (c # None => Older(e, c))
    BY DEF Behind
  <1>2. log \subseteq Entry
    BY DEF WriteInv, WriteType
  <1>3. /\ a.entries \subseteq B
        /\ B # {} => a.entries # {}
        /\ a.next = None => a.entries = B
        /\ a.next # None =>
             \E l \in a.entries : /\ a.next = Position(l)
                                  /\ \A e \in B : e \in a.entries <=> ~Older(e, l)
                                  /\ \E e \in B : Older(e, l)
    BY LogIsOK, PageWhat
  <1>4. a = [entries |-> a.entries, next |-> a.next]
    BY DEF ReadPage
  <1> HIDE DEF a, B
  <1>5. CASE a.next = None
    <2>1. a \in Answer
      BY <1>1, <1>2, <1>3, <1>4, <1>5 DEF Answer
    <2>2. QED
      BY <1>3, <1>5, <2>1 DEF a, B, Until
  <1>6. CASE a.next # None
    <2>1. PICK l \in a.entries : /\ a.next = Position(l)
                                 /\ \A e \in B : e \in a.entries <=> ~Older(e, l)
                                 /\ \E e \in B : Older(e, l)
      BY <1>3, <1>6
    <2>2. l \in B /\ l \in Entry
      BY <1>1, <1>2, <1>3
    <2>3. a.next \in Cursor
      BY <2>1, <2>2 DEF Position, Cursor, Entry
    <2>4. a \in Answer
      BY <1>1, <1>2, <1>3, <1>4, <2>3 DEF Answer
    <2>5. \A e : Older(e, a.next) <=> Older(e, l)
      BY <2>1, PositionOrder
    <2>6. \A e \in B : e \in a.entries <=> Until(a.next, e)
      BY <1>6, <2>1, <2>5 DEF Until
    <2>7. Down(c, a.next)
      BY <1>1, <1>6, <2>1, <2>2, PositionOrder DEF Down
    <2>8. Behind(u, a.next) # {}
      BY <1>1, <2>1, <2>5 DEF Behind
    <2>9. QED
      BY <1>3, <2>4, <2>6, <2>7, <2>8 DEF a, B
  <1>7. QED
    BY <1>5, <1>6

(***************************************************************************)
(* One page changes: what the other viewers look at is as it was.          *)
(***************************************************************************)
LEMMA OneViewer ==
  ASSUME ReadInv, NEW u \in Viewers, NEW q \in Activity,
         page' = [page EXCEPT ![u] = q],
         log' = log,
         \A v \in Viewers : v # u => /\ seen'[v] = seen[v] /\ known'[v] = known[v]
                                     /\ jumped'[v] = jumped[v],
         (/\ seen = [v \in Viewers |-> seen[v]]
          /\ \A v \in Viewers : /\ DOMAIN seen[v] \subseteq Cursor \cup {None}
                                /\ seen[v] \in [DOMAIN seen[v] -> SUBSET Entry]
          /\ known \in [Viewers -> SUBSET Entry]
          /\ jumped \in [Viewers -> BOOLEAN])',
         PageInv(u)'
  PROVE  ReadInv'
  <1>1. /\ page' \in [Viewers -> Activity]
        /\ \A v \in Viewers : v # u => page'[v] = page[v]
    BY DEF ReadInv, ReadType
  <1>2. ReadType'
    BY <1>1 DEF ReadType
  <1>3. ASSUME NEW v \in Viewers, v # u PROVE PageInv(v)'
    BY <1>1, <1>3, PageStays DEF ReadInv
  <1>4. QED
    BY <1>2, <1>3 DEF ReadInv

LEMMA OnePage ==
  ASSUME ReadInv, NEW u \in Viewers, NEW q \in Activity,
         page' = [page EXCEPT ![u] = q],
         log' = log, UNCHANGED <<seen, known, jumped>>,
         PageInv(u)'
  PROVE  ReadInv'
  <1>1. (/\ seen = [v \in Viewers |-> seen[v]]
         /\ \A v \in Viewers : /\ DOMAIN seen[v] \subseteq Cursor \cup {None}
                               /\ seen[v] \in [DOMAIN seen[v] -> SUBSET Entry]
         /\ known \in [Viewers -> SUBSET Entry]
         /\ jumped \in [Viewers -> BOOLEAN])'
    BY DEF ReadInv, ReadType
  <1>2. QED
    BY <1>1, OneViewer

LEMMA OpenStep ==
  ASSUME ReadInv, NEW u \in Viewers, Open(u) \/ Leave(u)
  PROVE  ReadInv'
  <1>1. PICK q : /\ q = Closed \/ q = [Closed EXCEPT !.open = TRUE, !.loading = TRUE]
                 /\ page' = [page EXCEPT ![u] = q]
    BY DEF Open, Leave
  <1>2. /\ q \in Activity /\ ~q.error /\ q.cursor = None /\ q.stack = <<>> /\ q.answer = None
        /\ \/ ~q.open /\ ~q.loading
           \/ q.open /\ q.loading
    BY <1>1, ClosedWhat DEF Activity
  <1>3. page'[u] = q /\ log' = log /\ UNCHANGED <<seen, known, jumped>>
    BY <1>1 DEF Open, Leave, history, ReadInv, ReadType
  <1>4. /\ Len(page'[u].stack) = 0 /\ 1..Len(page'[u].stack) = {}
        /\ Points(u)' = {1} /\ \A i \in Points(u)' : Point(u, i)' = None
    BY <1>2, <1>3 DEF Points, Point
  <1>5. Shape(u)'
    BY <1>2, <1>3, <1>4 DEF ReadInv, PageInv, Shape, Own
  <1>6. Descends(u)' /\ Walked(u)'
    BY <1>4 DEF Descends, Walked
  <1>7. WalkOK(u)'
    BY <1>2, <1>3, <1>6 DEF WalkOK, OnDisplay, OnItsWay
  <1>8. QED
    BY <1>1, <1>2, <1>3, <1>5, <1>7, OnePage DEF PageInv

(***************************************************************************)
(* A step that keeps the points of the walk and what was shown of them.    *)
(***************************************************************************)
LEMMA PointsStay ==
  ASSUME NEW u \in Viewers, page'[u].stack = page[u].stack, page'[u].cursor = page[u].cursor
  PROVE  /\ Points(u)' = Points(u) /\ \A i : Point(u, i)' = Point(u, i)
         /\ Descends(u) => Descends(u)'
  <1>1. Points(u)' = Points(u) /\ \A i : Point(u, i)' = Point(u, i)
    BY DEF Points, Point
  <1>2. QED
    BY <1>1 DEF Descends, Down

LEMMA WalkStays ==
  ASSUME NEW u \in Viewers, page'[u].stack = page[u].stack, page'[u].cursor = page[u].cursor,
         log' = log, seen'[u] = seen[u], known'[u] = known[u], Walked(u)
  PROVE  Walked(u)'
  BY PointsStay DEF Walked, Loaded, Slice, Behind, After, Until, Down

LEMMA LoadFailsStep ==
  ASSUME ReadInv, NEW u \in Viewers, LoadFails(u)
  PROVE  ReadInv'
  <1>1. PICK q : q = [page[u] EXCEPT !.loading = FALSE, !.answer = None, !.error = TRUE]
    OBVIOUS
  <1>2. page[u] \in Activity /\ page[u].loading /\ PageInv(u)
    BY ActivityType DEF ReadInv, LoadFails
  <1>3. /\ q \in Activity /\ q.open = page[u].open /\ ~q.loading /\ q.error
        /\ q.cursor = page[u].cursor /\ q.stack = page[u].stack /\ q.answer = None
    BY <1>1, <1>2 DEF Activity
  <1>4. /\ page' = [page EXCEPT ![u] = q] /\ page'[u] = q
        /\ log' = log /\ UNCHANGED <<seen, known, jumped>>
    BY <1>1 DEF LoadFails, history, ReadInv, ReadType
  <1>5. Shape(u)'
    BY <1>2, <1>3, <1>4, PointsStay DEF PageInv, Shape, Own
  <1>6. WalkOK(u)'
    BY <1>2, <1>3, <1>4, PointsStay, WalkStays DEF PageInv, WalkOK, OnDisplay, OnItsWay
  <1>7. QED
    BY <1>3, <1>4, <1>5, <1>6, OnePage DEF PageInv

LEMMA ServeStep ==
  ASSUME WriteInv, ReadInv, NEW u \in Viewers, Serve(u)
  PROVE  ReadInv'
  <1>1. PICK c, a : c = page[u].cursor /\ a = ReadPage(u, c)
    OBVIOUS
  <1>2. PICK q : q = [page[u] EXCEPT !.answer = a]
    OBVIOUS
  <1>3. /\ page[u] \in Activity /\ page[u].loading /\ PageInv(u)
        /\ page[u].open /\ ~page[u].error /\ c \in Cursor \cup {None}
        /\ Len(page[u].stack) \in Nat
    BY <1>1, ActivityType DEF ReadInv, Serve, PageInv, Shape
  <1>4. /\ a \in Answer
        /\ \A e \in a.entries : e \in Behind(u, c) /\ Until(a.next, e)
        /\ \A e \in Behind(u, c) : Until(a.next, e) => e \in a.entries
        /\ a.next # None => Down(c, a.next) /\ Behind(u, a.next) # {}
        /\ Behind(u, c) # {} => a.entries # {}
    BY <1>1, ServedPage
  <1>5. /\ q \in Activity /\ q.open /\ q.loading /\ ~q.error
        /\ q.cursor = c /\ q.stack = page[u].stack /\ q.answer = a
    BY <1>1, <1>2, <1>3, <1>4 DEF Activity
  <1>6. /\ page' = [page EXCEPT ![u] = q] /\ page'[u] = q
        /\ log' = log /\ seen' = seen
    BY <1>1, <1>2 DEF Serve, ReadInv, ReadType
  <1>7. /\ known \in [Viewers -> SUBSET Entry] /\ jumped \in [Viewers -> BOOLEAN]
        /\ Own(u) \in SUBSET Entry
    BY DEF ReadInv, ReadType, Own, WriteInv, WriteType
  <1>8. IF c = None
          THEN known' = [known EXCEPT ![u] = Own(u)] /\ jumped' = [jumped EXCEPT ![u] = FALSE]
          ELSE known' = known /\ jumped' = jumped
    BY <1>1 DEF Serve, Own
  <1>9. /\ known' \in [Viewers -> SUBSET Entry] /\ jumped' \in [Viewers -> BOOLEAN]
        /\ \A v \in Viewers : v # u => known'[v] = known[v] /\ jumped'[v] = jumped[v]
        /\ known'[u] \subseteq Own(u)
    BY <1>3, <1>7, <1>8 DEF PageInv, Shape
  <1>10. Shape(u)'
    BY <1>1, <1>3, <1>5, <1>6, <1>9, PointsStay DEF PageInv, Shape, Own
  <1>11. Slice(u, c, a.entries, a.next)'
    BY <1>4, <1>6, <1>9 DEF Slice, Behind, After, Until, Own
  <1>12. ASSUME ~jumped'[u]
         PROVE  Descends(u)' /\ Walked(u)' /\ OnDisplay(u)' /\ OnItsWay(u)'
    <2>1. OnDisplay(u)'
      BY <1>5, <1>6 DEF OnDisplay
    <2>2. CASE c = None
      <3>1. Len(page[u].stack) = 0
        <4>1. Len(page[u].stack) + 1 \in Points(u)
          BY <1>3 DEF Points
        <4>2. Point(u, Len(page[u].stack) + 1) = None
          BY <1>1, <1>3, <2>2 DEF Point
        <4>3. QED
          BY <1>3, <4>1, <4>2 DEF PageInv, Shape
      <3>2. Points(u)' = {1} /\ 1..Len(page'[u].stack) = {}
        BY <1>5, <1>6, <3>1 DEF Points
      <3>3. Descends(u)' /\ Walked(u)'
        BY <3>2 DEF Descends, Walked
      <3>4. Loaded(u, c, a.entries, a.next)'
        BY <1>4, <1>6, <1>11, <2>2 DEF Loaded, Behind, Down
      <3>5. OnItsWay(u)'
        BY <1>5, <1>6, <3>4 DEF OnItsWay, Loaded, Slice, Behind, After, Until, Down
      <3>6. QED
        BY <2>1, <3>3, <3>5
    <2>3. CASE c # None
      <3>1. ~jumped[u] /\ known'[u] = known[u] /\ Descends(u) /\ Walked(u)
        BY <1>3, <1>8, <1>12, <2>3 DEF PageInv, WalkOK
      <3>2. Descends(u)' /\ Walked(u)'
        BY <1>1, <1>5, <1>6, <3>1, PointsStay, WalkStays
      <3>3. Behind(u, c) # {}
        <4>1. Len(page[u].stack) # 0
          <5>1. ASSUME Len(page[u].stack) = 0 PROVE c = None
            BY <1>1, <1>3, <5>1 DEF PageInv, Shape, Points, Point
          <5>2. QED
            BY <2>3, <5>1
        <4>2. PICK n \in 1..Len(page[u].stack) : n = Len(page[u].stack)
          BY <1>3, <4>1
        <4>3. Point(u, n + 1) = c
          BY <1>1, <1>3, <4>2 DEF Point
        <4>4. Loaded(u, Point(u, n), seen[u][Point(u, n)], c)
          BY <3>1, <4>2, <4>3 DEF Walked
        <4>5. QED
          BY <2>3, <4>4 DEF Loaded
      <3>4. Loaded(u, c, a.entries, a.next)'
        BY <1>4, <1>6, <1>11, <3>3 DEF Loaded, Behind, Down
      <3>5. OnItsWay(u)'
        BY <1>5, <1>6, <3>4 DEF OnItsWay, Loaded, Slice, Behind, After, Until, Down
      <3>6. QED
        BY <2>1, <3>2, <3>5
    <2>4. QED
      BY <2>2, <2>3
  <1>13. (/\ seen = [v \in Viewers |-> seen[v]]
          /\ \A v \in Viewers : /\ DOMAIN seen[v] \subseteq Cursor \cup {None}
                                /\ seen[v] \in [DOMAIN seen[v] -> SUBSET Entry]
          /\ known \in [Viewers -> SUBSET Entry]
          /\ jumped \in [Viewers -> BOOLEAN])'
    BY <1>6, <1>9 DEF ReadInv, ReadType
  <1>14. PageInv(u)'
    BY <1>10, <1>12 DEF PageInv, WalkOK
  <1>15. QED
    BY <1>5, <1>6, <1>9, <1>13, <1>14, OneViewer

LEMMA DownMoves ==
  ASSUME NEW c \in Cursor \cup {None}, NEW d \in Cursor \cup {None}, Down(c, d)
  PROVE  /\ c # d
         /\ \A b \in Cursor \cup {None} : Down(b, c) => Down(b, d)
  <1>1. d # None /\ d \in Cursor /\ Stamped(d)
    BY DEF Down, Cursor, Stamped
  <1>2. c # None => Stamped(c)
    BY DEF Cursor, Stamped
  <1>3. \A b \in Cursor : Stamped(b)
    BY DEF Cursor, Stamped
  <1>4. QED
    BY <1>1, <1>2, <1>3, OlderIsStrict DEF Down

LEMMA PutWhat ==
  ASSUME NEW f, NEW c, NEW v
  PROVE  /\ DOMAIN Put(f, c, v) = DOMAIN f \cup {c}
         /\ Put(f, c, v)[c] = v
         /\ \A d \in DOMAIN f : d # c => Put(f, c, v)[d] = f[d]
  BY DEF Put

LEMMA ShowStep ==
  ASSUME WriteInv, ReadInv, NEW u \in Viewers, Show(u)
  PROVE  ReadInv'
  <1>1. PICK c, a : c = page[u].cursor /\ a = page[u].answer
    OBVIOUS
  <1>2. PICK q : q = [page[u] EXCEPT !.loading = FALSE, !.answer = None,
                                     !.entries = a.entries, !.next = a.next]
    OBVIOUS
  <1>3. /\ page[u] \in Activity /\ page[u].loading /\ PageInv(u)
        /\ page[u].open /\ ~page[u].error /\ c \in Cursor \cup {None}
        /\ a # None /\ a \in Answer
        /\ Len(page[u].stack) \in Nat
    BY <1>1, ActivityType DEF ReadInv, Show, PageInv, Shape
  <1>4. a.entries \in SUBSET Entry /\ a.next \in Cursor \cup {None}
    BY <1>3 DEF Answer
  <1>5. /\ q \in Activity /\ q.open /\ ~q.loading /\ ~q.error
        /\ q.cursor = c /\ q.stack = page[u].stack /\ q.answer = None
        /\ q.entries = a.entries /\ q.next = a.next
    BY <1>1, <1>2, <1>3, <1>4 DEF Activity
  <1>6. /\ page' = [page EXCEPT ![u] = q] /\ page'[u] = q
        /\ log' = log /\ known' = known /\ jumped' = jumped
    BY <1>1, <1>2 DEF Show, ReadInv, ReadType
  <1>7. /\ seen = [v \in Viewers |-> seen[v]]
        /\ seen' = [seen EXCEPT ![u] = Put(@, c, a.entries)]
    BY <1>1 DEF Show, ReadInv, ReadType
  <1>8. /\ seen' = [v \in Viewers |-> seen'[v]]
        /\ seen'[u] = Put(seen[u], c, a.entries)
        /\ \A v \in Viewers : v # u => seen'[v] = seen[v]
    BY <1>7
  <1>9. /\ DOMAIN seen'[u] = DOMAIN seen[u] \cup {c}
        /\ seen'[u][c] = a.entries
        /\ \A d \in DOMAIN seen[u] : d # c => seen'[u][d] = seen[u][d]
    <2>1. /\ DOMAIN Put(seen[u], c, a.entries) = DOMAIN seen[u] \cup {c}
          /\ Put(seen[u], c, a.entries)[c] = a.entries
          /\ \A d \in DOMAIN seen[u] : d # c => Put(seen[u], c, a.entries)[d] = seen[u][d]
      <3>1. PICK f, v : f = seen[u] /\ v = a.entries
        OBVIOUS
      <3>2. QED
        BY <3>1 DEF Put
    <2>2. QED
      BY <1>8, <2>1
  <1>10. /\ DOMAIN seen'[u] \subseteq Cursor \cup {None}
         /\ seen'[u] \in [DOMAIN seen'[u] -> SUBSET Entry]
    <2>1. /\ DOMAIN seen[u] \subseteq Cursor \cup {None}
          /\ seen[u] \in [DOMAIN seen[u] -> SUBSET Entry]
      BY DEF ReadInv, ReadType
    <2>2. QED
      BY <1>3, <1>4, <1>8, <2>1 DEF Put
  <1>11. (/\ seen = [v \in Viewers |-> seen[v]]
          /\ \A v \in Viewers : /\ DOMAIN seen[v] \subseteq Cursor \cup {None}
                                /\ seen[v] \in [DOMAIN seen[v] -> SUBSET Entry]
          /\ known \in [Viewers -> SUBSET Entry]
          /\ jumped \in [Viewers -> BOOLEAN])'
    <2>1. \A v \in Viewers : /\ DOMAIN seen'[v] \subseteq Cursor \cup {None}
                             /\ seen'[v] \in [DOMAIN seen'[v] -> SUBSET Entry]
      BY <1>8, <1>10 DEF ReadInv, ReadType
    <2>2. QED
      BY <1>6, <1>8, <2>1 DEF ReadInv, ReadType
  <1>12. Shape(u)'
    BY <1>1, <1>3, <1>5, <1>6, PointsStay DEF PageInv, Shape, Own
  <1>13. ASSUME ~jumped'[u]
         PROVE  Descends(u)' /\ Walked(u)' /\ OnDisplay(u)' /\ OnItsWay(u)'
    <2>1. Descends(u) /\ Walked(u) /\ Loaded(u, c, a.entries, a.next)
      BY <1>1, <1>3, <1>6, <1>13 DEF PageInv, WalkOK, OnItsWay
    <2>2. /\ Points(u)' = Points(u) /\ \A i : Point(u, i)' = Point(u, i)
          /\ Descends(u)'
      BY <1>1, <1>5, <1>6, <2>1, PointsStay
    <2>3. Loaded(u, c, a.entries, a.next)'
      BY <1>6, <2>1, LoadedStays
    <2>4. OnDisplay(u)'
      BY <1>5, <1>6, <1>9, <2>3 DEF OnDisplay
    <2>5. OnItsWay(u)'
      BY <1>5, <1>6 DEF OnItsWay
    <2>6. ASSUME NEW i \in 1..Len(page[u].stack)
          PROVE  /\ Point(u, i) \in DOMAIN seen'[u]
                 /\ Loaded(u, Point(u, i), seen'[u][Point(u, i)], Point(u, i + 1))
      <3>1. /\ Point(u, i) \in DOMAIN seen[u]
            /\ Loaded(u, Point(u, i), seen[u][Point(u, i)], Point(u, i + 1))
        BY <2>1 DEF Walked
      <3>2. PICK n : n = Len(page[u].stack) + 1
        OBVIOUS
      <3>3. i \in Points(u) /\ n \in Points(u) /\ i < n /\ Point(u, n) = c
        BY <1>1, <1>3, <3>2 DEF Points, Point
      <3>4. Down(Point(u, i), c)
        BY <2>1, <3>3 DEF Descends
      <3>5. Point(u, i) # c
        BY <1>3, <3>3, <3>4, ActivityType, DownMoves DEF ReadInv
      <3>6. QED
        BY <1>9, <3>1, <3>5
    <2>7. Walked(u)'
      <3>1. ASSUME NEW i \in 1..Len(page'[u].stack)
            PROVE  (/\ Point(u, i) \in DOMAIN seen[u]
                    /\ Loaded(u, Point(u, i), seen[u][Point(u, i)], Point(u, i + 1)))'
        <4>1. PICK d, S, n : d = Point(u, i) /\ S = seen'[u][d] /\ n = Point(u, i + 1)
          OBVIOUS
        <4>2. i \in 1..Len(page[u].stack)
          BY <1>1, <1>5, <1>6
        <4>3. d \in DOMAIN seen'[u] /\ Loaded(u, d, S, n)
          BY <2>6, <4>1, <4>2
        <4>4. Loaded(u, d, S, n)'
          BY <1>6, <4>3, LoadedStays
        <4>5. QED
          BY <2>2, <4>1, <4>3, <4>4
      <3>2. QED
        BY <3>1 DEF Walked
    <2>8. QED
      BY <2>2, <2>4, <2>5, <2>7
  <1>14. PageInv(u)'
    BY <1>12, <1>13 DEF PageInv, WalkOK
  <1>15. QED
    BY <1>5, <1>6, <1>8, <1>11, <1>14, OneViewer

(***************************************************************************)
(* Next: the walk gets a point.  Without an error it is the next cursor of *)
(* the page on display, which lies below all the others.                   *)
(***************************************************************************)
LEMMA TurnWhat ==
  ASSUME NEW p \in Activity, NEW c \in Cursor \cup {None},
         NEW stack \in Seq(Cursor \cup {None})
  PROVE  /\ Turn(p, c, stack) \in Activity
         /\ Turn(p, c, stack).cursor = c /\ Turn(p, c, stack).stack = stack
         /\ Turn(p, c, stack).open = p.open /\ Turn(p, c, stack).answer = p.answer
         /\ IF c = p.cursor
              THEN /\ Turn(p, c, stack).loading = p.loading
                   /\ Turn(p, c, stack).error = p.error
              ELSE Turn(p, c, stack).loading /\ ~Turn(p, c, stack).error
  <1>1. PICK q : q = [p EXCEPT !.cursor = c, !.stack = stack]
    OBVIOUS
  <1>2. /\ q \in Activity /\ q.cursor = c /\ q.stack = stack /\ q.open = p.open
        /\ q.answer = p.answer /\ q.loading = p.loading /\ q.error = p.error
    BY <1>1 DEF Activity
  <1>3. PICK s : s = [q EXCEPT !.loading = TRUE, !.error = FALSE]
    OBVIOUS
  <1>4. /\ s \in Activity /\ s.cursor = c /\ s.stack = stack /\ s.open = p.open
        /\ s.answer = p.answer /\ s.loading /\ ~s.error
    BY <1>2, <1>3 DEF Activity
  <1>5. Turn(p, c, stack) = IF c = p.cursor THEN q ELSE s
    BY <1>1, <1>3 DEF Turn
  <1>6. QED
    BY <1>2, <1>4, <1>5

LEMMA HandleNextStep ==
  ASSUME WriteInv, ReadInv, NEW u \in Viewers, HandleNext(u)
  PROVE  ReadInv'
  <1>1. PICK c, d, stack, n :
          /\ c = page[u].cursor /\ d = page[u].next
          /\ stack = page[u].stack /\ n = Len(stack)
    OBVIOUS
  <1>2. PICK q : q = Turn(page[u], d, Append(stack, c))
    OBVIOUS
  <1>3. /\ page[u] \in Activity /\ PageInv(u) /\ page[u].open /\ ~page[u].loading
        /\ c \in Cursor \cup {None} /\ d \in Cursor /\ d # None /\ n \in Nat
        /\ stack \in Seq(Cursor \cup {None}) /\ page[u].answer = None
        /\ page[u].error \in BOOLEAN /\ jumped[u] \in BOOLEAN
    BY <1>1, ActivityType DEF ReadInv, HandleNext, PageInv, Shape
  <1>4. /\ Append(stack, c) \in Seq(Cursor \cup {None}) /\ Len(Append(stack, c)) = n + 1
        /\ \A i \in 1..n : Append(stack, c)[i] = stack[i]
        /\ Append(stack, c)[n + 1] = c
    BY <1>1, <1>3
  <1>5. /\ q \in Activity /\ q.cursor = d /\ q.stack = Append(stack, c) /\ q.open
        /\ q.answer = None
        /\ IF d = c THEN ~q.loading /\ q.error = page[u].error ELSE q.loading /\ ~q.error
    <2>1. PICK p, t : p = page[u] /\ t = Append(stack, c)
      OBVIOUS
    <2>2. /\ p \in Activity /\ d \in Cursor \cup {None} /\ t \in Seq(Cursor \cup {None})
          /\ p.cursor = c /\ p.open /\ ~p.loading /\ p.answer = None
          /\ q = Turn(p, d, t)
      BY <1>1, <1>2, <1>3, <1>4, <2>1
    <2>3. /\ q \in Activity /\ q.cursor = d /\ q.stack = t
          /\ q.open = p.open /\ q.answer = p.answer
          /\ IF d = p.cursor THEN q.loading = p.loading /\ q.error = p.error
                            ELSE q.loading /\ ~q.error
      <3>1. d \in Cursor \cup {None}
        BY <2>2
      <3>2. /\ Turn(p, d, t) \in Activity
            /\ Turn(p, d, t).cursor = d /\ Turn(p, d, t).stack = t
            /\ Turn(p, d, t).open = p.open /\ Turn(p, d, t).answer = p.answer
            /\ IF d = p.cursor
                 THEN /\ Turn(p, d, t).loading = p.loading
                      /\ Turn(p, d, t).error = p.error
                 ELSE Turn(p, d, t).loading /\ ~Turn(p, d, t).error
        BY <2>2, <3>1, TurnWhat, Zenon
      <3>3. QED
        BY <2>2, <3>2
    <2>4. QED
      BY <2>1, <2>2, <2>3
  <1>6. /\ page' = [page EXCEPT ![u] = q] /\ page'[u] = q
        /\ log' = log /\ seen' = seen /\ known' = known
        /\ jumped' = [jumped EXCEPT ![u] = @ \/ page[u].error]
    BY <1>1, <1>2 DEF HandleNext, ReadInv, ReadType
  <1>7. /\ jumped' \in [Viewers -> BOOLEAN]
        /\ jumped'[u] = (jumped[u] \/ page[u].error)
        /\ \A v \in Viewers : v # u => jumped'[v] = jumped[v]
    BY <1>3, <1>6 DEF ReadInv, ReadType
  <1>8. (/\ seen = [v \in Viewers |-> seen[v]]
         /\ \A v \in Viewers : /\ DOMAIN seen[v] \subseteq Cursor \cup {None}
                               /\ seen[v] \in [DOMAIN seen[v] -> SUBSET Entry]
         /\ known \in [Viewers -> SUBSET Entry]
         /\ jumped \in [Viewers -> BOOLEAN])'
    BY <1>6, <1>7 DEF ReadInv, ReadType
  <1>9. /\ Points(u) = 1..(n + 1) /\ Points(u)' = 1..(n + 2)
        /\ \A i \in 1..(n + 1) : Point(u, i)' = Point(u, i)
        /\ Point(u, n + 1) = c /\ Point(u, n + 2)' = d
    <2>1. Points(u) = 1..(n + 1) /\ Points(u)' = 1..(n + 2)
      BY <1>1, <1>3, <1>4, <1>5, <1>6 DEF Points
    <2>2. \A i \in 1..n : Point(u, i) = stack[i] /\ Point(u, i)' = stack[i]
      BY <1>1, <1>3, <1>4, <1>5, <1>6 DEF Point
    <2>3. Point(u, n + 1) = c /\ Point(u, n + 1)' = c /\ Point(u, n + 2)' = d
      BY <1>1, <1>3, <1>4, <1>5, <1>6 DEF Point
    <2>4. \A i \in 1..(n + 1) : i \in 1..n \/ i = n + 1
      BY <1>3
    <2>5. QED
      BY <2>1, <2>2, <2>3, <2>4
  <1>10. Shape(u)'
    <2>1. \A i \in Points(u)' : Point(u, i)' = None <=> i = 1
      <3>1. \A i \in 1..(n + 1) : Point(u, i)' = None <=> i = 1
        BY <1>3, <1>9 DEF PageInv, Shape
      <3>2. \A i \in 1..(n + 2) : i \in 1..(n + 1) \/ i = n + 2
        BY <1>3
      <3>3. QED
        BY <1>3, <1>9, <3>1, <3>2
    <2>2. page'[u].loading => page'[u].open /\ ~page'[u].error
      BY <1>5, <1>6
    <2>3. QED
      BY <1>3, <1>5, <1>6, <2>1, <2>2 DEF PageInv, Shape, Own
  <1>11. ASSUME ~jumped'[u]
         PROVE  Descends(u)' /\ Walked(u)' /\ OnDisplay(u)' /\ OnItsWay(u)'
    <2>1. ~jumped[u] /\ ~page[u].error
      BY <1>3, <1>7, <1>11
    <2>2. /\ Descends(u) /\ Walked(u)
          /\ c \in DOMAIN seen[u]
          /\ Loaded(u, c, seen[u][c], d)
      BY <1>1, <1>3, <2>1 DEF PageInv, WalkOK, OnDisplay
    <2>3. Down(c, d) /\ c # d
      BY <1>3, <2>2, DownMoves DEF Loaded
    <2>4. OnDisplay(u)' /\ OnItsWay(u)'
      BY <1>5, <1>6, <2>3 DEF OnDisplay, OnItsWay
    <2>5. Descends(u)'
      <3>1. ASSUME NEW i \in 1..(n + 1) PROVE Down(Point(u, i), d)
        <4>1. CASE i = n + 1
          BY <1>9, <2>3, <4>1
        <4>2. CASE i # n + 1
          <5>1. i \in Points(u) /\ n + 1 \in Points(u) /\ i < n + 1
            BY <1>3, <1>9, <4>2
          <5>2. Down(Point(u, i), c)
            BY <1>9, <2>2, <5>1 DEF Descends
          <5>3. Point(u, i) \in Cursor \cup {None}
            BY <5>1, ActivityType DEF ReadInv
          <5>4. QED
            BY <1>3, <2>3, <5>2, <5>3, DownMoves
        <4>3. QED
          BY <4>1, <4>2
      <3>2. ASSUME NEW i \in 1..(n + 2), NEW j \in 1..(n + 2), i < j
            PROVE  Down(Point(u, i)', Point(u, j)')
        <4>1. i \in 1..(n + 1)
          BY <1>3, <3>2
        <4>2. CASE j = n + 2
          BY <1>9, <3>1, <4>1, <4>2
        <4>3. CASE j # n + 2
          <5>1. j \in 1..(n + 1)
            BY <1>3, <4>3
          <5>2. Down(Point(u, i), Point(u, j))
            BY <1>9, <2>2, <3>2, <4>1, <5>1 DEF Descends
          <5>3. QED
            BY <1>9, <4>1, <5>1, <5>2
        <4>4. QED
          BY <4>2, <4>3
      <3>3. QED
        BY <1>9, <3>2 DEF Descends, Down
    <2>6. Walked(u)'
      <3>1. ASSUME NEW i \in 1..(n + 1)
            PROVE  (/\ Point(u, i) \in DOMAIN seen[u]
                    /\ Loaded(u, Point(u, i), seen[u][Point(u, i)], Point(u, i + 1)))'
        <4>1. PICK b, e : b = Point(u, i)' /\ e = Point(u, i + 1)'
          OBVIOUS
        <4>2. b \in DOMAIN seen[u] /\ Loaded(u, b, seen[u][b], e)
          <5>1. CASE i = n + 1
            <6>1. b = c /\ e = d
              BY <1>3, <1>9, <4>1, <5>1
            <6>2. QED
              BY <2>2, <6>1
          <5>2. CASE i # n + 1
            <6>1. i \in 1..n /\ i \in 1..Len(page[u].stack) /\ i + 1 \in 1..(n + 1)
              BY <1>1, <1>3, <5>2
            <6>2. b = Point(u, i) /\ e = Point(u, i + 1)
              BY <1>9, <4>1, <6>1
            <6>3. QED
              BY <2>2, <6>1, <6>2 DEF Walked
          <5>3. QED
            BY <5>1, <5>2
        <4>3. Loaded(u, b, seen[u][b], e)'
          BY <1>6, <4>2 DEF Loaded, Slice, Behind, After, Until, Down
        <4>4. QED
          BY <1>6, <4>1, <4>2, <4>3
      <3>2. Len(page'[u].stack) = n + 1
        BY <1>4, <1>5, <1>6
      <3>3. QED
        BY <3>1, <3>2 DEF Walked
    <2>7. QED
      BY <2>4, <2>5, <2>6
  <1>12. PageInv(u)'
    BY <1>10, <1>11 DEF PageInv, WalkOK
  <1>13. QED
    BY <1>5, <1>6, <1>7, <1>8, <1>12, OneViewer

(***************************************************************************)
(* Previous: the walk loses its last point, and the page of the one before *)
(* it is loaded again.                                                     *)
(***************************************************************************)
LEMMA HandlePreviousStep ==
  ASSUME WriteInv, ReadInv, NEW u \in Viewers, HandlePrevious(u)
  PROVE  ReadInv'
  <1>1. PICK p, n, stack :
          /\ p = page[u] /\ stack = page[u].stack /\ n = Len(stack)
    OBVIOUS
  <1>2. PICK b, t : b = stack[n] /\ t = SubSeq(stack, 1, n - 1)
    OBVIOUS
  <1>3. PICK q : q = Turn(p, b, t)
    OBVIOUS
  <1>4. /\ p \in Activity /\ PageInv(u) /\ p.open /\ ~p.loading
        /\ n \in Nat /\ n > 0 /\ stack \in Seq(Cursor \cup {None})
        /\ p.answer = None /\ p.stack = stack
    BY <1>1, ActivityType DEF ReadInv, HandlePrevious, PageInv, Shape
  <1>5. /\ b \in Cursor \cup {None} /\ t \in Seq(Cursor \cup {None}) /\ Len(t) = n - 1
        /\ \A i \in 1..(n - 1) : t[i] = stack[i]
    BY <1>1, <1>2, <1>4
  <1>6. /\ q \in Activity /\ q.cursor = b /\ q.stack = t /\ q.open
        /\ q.answer = None
        /\ IF b = p.cursor THEN ~q.loading /\ q.error = p.error ELSE q.loading /\ ~q.error
    <2>1. /\ Turn(p, b, t) \in Activity
          /\ Turn(p, b, t).cursor = b /\ Turn(p, b, t).stack = t
          /\ Turn(p, b, t).open = p.open /\ Turn(p, b, t).answer = p.answer
          /\ IF b = p.cursor
               THEN /\ Turn(p, b, t).loading = p.loading
                    /\ Turn(p, b, t).error = p.error
               ELSE Turn(p, b, t).loading /\ ~Turn(p, b, t).error
      BY <1>4, <1>5, TurnWhat, Zenon
    <2>2. QED
      BY <1>3, <1>4, <2>1
  <1>7. /\ page' = [page EXCEPT ![u] = q] /\ page'[u] = q
        /\ log' = log /\ UNCHANGED <<seen, known, jumped>>
    BY <1>1, <1>2, <1>3 DEF HandlePrevious, history, ReadInv, ReadType
  <1>8. /\ Points(u) = 1..(n + 1) /\ Points(u)' = 1..n
        /\ \A i \in 1..n : Point(u, i)' = Point(u, i)
        /\ Point(u, n) = b /\ Point(u, n + 1) = p.cursor
    <2>1. Points(u) = 1..(n + 1) /\ Points(u)' = 1..n
      BY <1>1, <1>4, <1>5, <1>6, <1>7 DEF Points
    <2>2. \A i \in 1..(n - 1) : Point(u, i) = stack[i] /\ Point(u, i)' = stack[i]
      BY <1>1, <1>4, <1>5, <1>6, <1>7 DEF Point
    <2>3. Point(u, n) = b /\ Point(u, n)' = b /\ Point(u, n + 1) = p.cursor
      BY <1>1, <1>2, <1>4, <1>5, <1>6, <1>7 DEF Point
    <2>4. \A i \in 1..n : i \in 1..(n - 1) \/ i = n
      BY <1>4
    <2>5. QED
      BY <2>1, <2>2, <2>3, <2>4
  <1>9. 1..n \subseteq 1..(n + 1) /\ 1..(n - 1) \subseteq 1..n
    BY <1>4
  <1>10. Shape(u)'
    <2>1. \A i \in Points(u)' : Point(u, i)' = None <=> i = 1
      BY <1>4, <1>8, <1>9 DEF PageInv, Shape
    <2>2. page'[u].loading => page'[u].open /\ ~page'[u].error
      BY <1>6, <1>7
    <2>3. QED
      BY <1>4, <1>6, <1>7, <2>1, <2>2 DEF PageInv, Shape, Own
  <1>11. ASSUME ~jumped'[u]
         PROVE  Descends(u)' /\ Walked(u)' /\ OnDisplay(u)' /\ OnItsWay(u)'
    <2>1. Descends(u) /\ Walked(u)
      BY <1>1, <1>4, <1>7, <1>11 DEF PageInv, WalkOK
    <2>2. b # p.cursor
      <3>1. n \in Points(u) /\ n + 1 \in Points(u) /\ n < n + 1
        BY <1>4, <1>8
      <3>2. PICK d : d = p.cursor
        OBVIOUS
      <3>3. Down(b, d)
        BY <1>8, <2>1, <3>1, <3>2 DEF Descends
      <3>4. d \in Cursor \cup {None}
        BY <1>4, <3>2 DEF Activity
      <3>5. QED
        BY <1>5, <3>2, <3>3, <3>4, DownMoves
    <2>3. OnDisplay(u)' /\ OnItsWay(u)'
      BY <1>6, <1>7, <2>2 DEF OnDisplay, OnItsWay
    <2>4. Descends(u)'
      BY <1>8, <1>9, <2>1 DEF Descends, Down
    <2>5. Walked(u)'
      <3>1. ASSUME NEW i \in 1..(n - 1)
            PROVE  (/\ Point(u, i) \in DOMAIN seen[u]
                    /\ Loaded(u, Point(u, i), seen[u][Point(u, i)], Point(u, i + 1)))'
        <4>1. PICK d, e : d = Point(u, i)' /\ e = Point(u, i + 1)'
          OBVIOUS
        <4>2. /\ i \in 1..n /\ i + 1 \in 1..n /\ i \in 1..Len(page[u].stack)
          BY <1>1, <1>4
        <4>3. d = Point(u, i) /\ e = Point(u, i + 1)
          BY <1>8, <4>1, <4>2
        <4>4. d \in DOMAIN seen[u] /\ Loaded(u, d, seen[u][d], e)
          BY <2>1, <4>2, <4>3 DEF Walked
        <4>5. Loaded(u, d, seen[u][d], e)'
          BY <1>7, <4>4 DEF Loaded, Slice, Behind, After, Until, Down
        <4>6. QED
          BY <1>7, <4>1, <4>4, <4>5
      <3>2. Len(page'[u].stack) = n - 1
        BY <1>5, <1>6, <1>7
      <3>3. QED
        BY <3>1, <3>2 DEF Walked
    <2>6. QED
      BY <2>3, <2>4, <2>5
  <1>12. PageInv(u)'
    BY <1>10, <1>11 DEF PageInv, WalkOK
  <1>13. QED
    BY <1>6, <1>7, <1>12, OnePage

LEMMA ReadNext == WriteInv /\ ReadInv /\ [Next]_vars => ReadInv'
  <1> SUFFICES ASSUME WriteInv, ReadInv, [Next]_vars PROVE ReadInv'
    OBVIOUS
  <1>1. log \subseteq log'
    BY WriteNext
  <1>2. CASE UNCHANGED <<page, seen, known, jumped>>
    BY <1>1, <1>2, WriterLeavesPages
  <1>3. ASSUME NEW u \in Viewers,
               \/ Open(u) \/ Leave(u) \/ Serve(u) \/ Show(u) \/ LoadFails(u)
               \/ HandleNext(u) \/ HandlePrevious(u)
        PROVE  ReadInv'
    BY <1>3, OpenStep, ServeStep, ShowStep, LoadFailsStep, HandleNextStep, HandlePreviousStep
  <1>4. ASSUME NEW w \in Writers,
               \/ Act(w) \/ AdminRead(w) \/ Mint(w) \/ Insert(w) \/ Commit(w)
               \/ Disclose(w) \/ Abandon(w)
        PROVE  UNCHANGED <<page, seen, known, jumped>>
    BY <1>4 DEF Act, AdminRead, Mint, Insert, Commit, Disclose, Abandon, history
  <1>5. Tick \/ UNCHANGED vars => UNCHANGED <<page, seen, known, jumped>>
    BY DEF Tick, vars, history
  <1>6. QED
    BY <1>2, <1>3, <1>4, <1>5 DEF Next

LEMMA ReadInvariance == Spec => [](WriteInv /\ ReadInv)
  <1>1. Init => WriteInv /\ ReadInv
    BY WriteInit, ReadInit
  <1>2. WriteInv /\ ReadInv /\ [Next]_vars => (WriteInv /\ ReadInv)'
    BY WriteNext, ReadNext
  <1>3. QED
    BY <1>1, <1>2, PTL DEF Spec

(***************************************************************************)
(* The invariant gives every variable its type.                            *)
(***************************************************************************)
THEOREM AuditTypeCorrect == Spec => []TypeOK
  <1>1. WriteInv /\ ReadInv => TypeOK
    BY TypeParts DEF WriteInv, ReadInv
  <1>2. QED
    BY <1>1, ReadInvariance, PTL

(***************************************************************************)
(* What a settled page gives: each point of its walk with its page.        *)
(***************************************************************************)
LEMMA SettledWhat ==
  ASSUME WriteInv, ReadInv, NEW u \in Viewers, Settled(u),
         NEW n, n = Len(page[u].stack)
  PROVE  /\ n \in Nat /\ Points(u) = 1..(n + 1)
         /\ Trail(u) = {Point(u, i) : i \in 1..(n + 1)}
         /\ Point(u, n + 1) = page[u].cursor
         /\ Descends(u)
         /\ \A i \in 1..n : Loaded(u, Point(u, i), seen[u][Point(u, i)], Point(u, i + 1))
         /\ Loaded(u, Point(u, n + 1), seen[u][Point(u, n + 1)], page[u].next)
         /\ page[u].entries = seen[u][page[u].cursor]
         /\ \A i \in 1..(n + 1) : /\ Point(u, i) = None <=> i = 1
                                  /\ Point(u, i) \in Cursor \cup {None}
  <1>1. n \in Nat /\ Points(u) = 1..(n + 1) /\ PageInv(u)
    BY ActivityType DEF ReadInv, Points
  <1>2. Descends(u) /\ Walked(u) /\ OnDisplay(u)
    BY <1>1 DEF PageInv, WalkOK, Settled
  <1>3. Point(u, n + 1) = page[u].cursor /\ \A i \in 1..n : Point(u, i) = page[u].stack[i]
    BY <1>1 DEF Point
  <1>4. Trail(u) = {Point(u, i) : i \in 1..(n + 1)}
    <2>1. \A i \in 1..(n + 1) : i \in 1..n \/ i = n + 1
      BY <1>1
    <2>2. 1..n \subseteq 1..(n + 1) /\ n + 1 \in 1..(n + 1)
      BY <1>1
    <2>3. QED
      BY <1>3, <2>1, <2>2 DEF Trail
  <1>5. /\ Loaded(u, Point(u, n + 1), seen[u][Point(u, n + 1)], page[u].next)
        /\ page[u].entries = seen[u][page[u].cursor]
    BY <1>2, <1>3 DEF OnDisplay, Settled
  <1>6. \A i \in 1..(n + 1) : /\ Point(u, i) = None <=> i = 1
                              /\ Point(u, i) \in Cursor \cup {None}
    BY <1>1, ActivityType DEF ReadInv, PageInv, Shape
  <1>7. QED
    BY <1>1, <1>2, <1>3, <1>4, <1>5, <1>6 DEF Walked

(***************************************************************************)
(* A walk down the Activity page skips none of the entries that were there *)
(* when it began, whatever is appended meanwhile: the last point the entry *)
(* lies behind is the one whose page shows it.                             *)
(***************************************************************************)
THEOREM PagesSkipNothing == Spec => []NothingSkipped
  <1>1. ASSUME WriteInv, ReadInv PROVE NothingSkipped
    <2> SUFFICES ASSUME NEW u \in Viewers, Settled(u), NEW e \in known[u],
                        page[u].next # None => ~Older(e, page[u].next)
                 PROVE  \E c \in Trail(u) : e \in seen[u][c]
      BY DEF NothingSkipped
    <2>1. PICK n : n = Len(page[u].stack)
      OBVIOUS
    <2>2. /\ n \in Nat
          /\ Trail(u) = {Point(u, i) : i \in 1..(n + 1)}
          /\ \A i \in 1..n : Loaded(u, Point(u, i), seen[u][Point(u, i)], Point(u, i + 1))
          /\ Loaded(u, Point(u, n + 1), seen[u][Point(u, n + 1)], page[u].next)
          /\ \A i \in 1..(n + 1) : Point(u, i) = None <=> i = 1
      BY <1>1, <2>1, SettledWhat
    <2>3. PICK T : T = {i \in 1..(n + 1) : After(Point(u, i), e)}
      OBVIOUS
    <2>4. T \in SUBSET Nat /\ T # {} /\ \A i \in T : i <= n + 1
      <3>1. 1 \in 1..(n + 1) /\ n + 1 \in Nat
        BY <2>2
      <3>2. After(Point(u, 1), e)
        BY <2>2, <3>1 DEF After
      <3>3. QED
        BY <2>2, <2>3, <3>1, <3>2
    <2>5. PICK i \in T : \A j \in T : j <= i
      <3>1. PICK b \in Nat : b = n + 1
        BY <2>2
      <3>2. T \in SUBSET Nat /\ T # {} /\ \A j \in T : j <= b
        BY <2>4, <3>1
      <3>3. \E i \in T : \A j \in T : j <= i
        BY <3>2, Greatest
      <3>4. QED
        BY <3>3
    <2>6. i \in 1..(n + 1) /\ After(Point(u, i), e)
      BY <2>3
    <2>7. CASE i = n + 1
      <3>1. e \in seen[u][Point(u, i)]
        BY <2>2, <2>6, <2>7 DEF Loaded, Slice, Until
      <3>2. QED
        BY <2>2, <2>6, <3>1
    <2>8. CASE i # n + 1
      <3>1. i \in 1..n /\ i + 1 \in 1..(n + 1) /\ ~(i + 1 <= i)
        BY <2>2, <2>6, <2>8
      <3>2. ~After(Point(u, i + 1), e)
        BY <2>3, <2>5, <3>1
      <3>3. Until(Point(u, i + 1), e)
        BY <3>2 DEF After, Until
      <3>4. e \in seen[u][Point(u, i)]
        BY <2>2, <2>6, <3>1, <3>3 DEF Loaded, Slice
      <3>5. QED
        BY <2>2, <2>6, <3>4
    <2>9. QED
      BY <2>7, <2>8
  <1>2. QED
    BY <1>1, ReadInvariance, PTL

(***************************************************************************)
(* Nor does it show an entry on two of its pages, or lead to an empty one: *)
(* what one page holds is not behind the next point, and the points below  *)
(* are behind it.                                                          *)
(***************************************************************************)
THEOREM PagesRepeatNothing == Spec => []NothingRepeated
  <1>1. ASSUME WriteInv, ReadInv, NEW u \in Viewers, Settled(u),
               NEW n, n = Len(page[u].stack),
               NEW i \in 1..(n + 1), NEW j \in 1..(n + 1), i < j
        PROVE  seen[u][Point(u, i)] \cap seen[u][Point(u, j)] = {}
    <2>1. SUFFICES ASSUME NEW e, e \in seen[u][Point(u, i)], e \in seen[u][Point(u, j)]
                   PROVE  FALSE
      OBVIOUS
    <2>2. /\ n \in Nat /\ Points(u) = 1..(n + 1) /\ Descends(u)
          /\ \A k \in 1..n : Loaded(u, Point(u, k), seen[u][Point(u, k)], Point(u, k + 1))
          /\ Loaded(u, Point(u, n + 1), seen[u][Point(u, n + 1)], page[u].next)
          /\ \A k \in 1..(n + 1) : /\ Point(u, k) = None <=> k = 1
                                   /\ Point(u, k) \in Cursor \cup {None}
      BY <1>1, SettledWhat
    <2>3. i \in 1..n /\ i + 1 \in 1..(n + 1) /\ i + 1 # 1 /\ j # 1
      BY <1>1, <2>2
    <2>4. PICK a, b : a = Point(u, i + 1) /\ b = Point(u, j)
      OBVIOUS
    <2>5. a \in Cursor /\ b \in Cursor /\ a # None /\ b # None /\ Stamped(a) /\ Stamped(b)
      BY <1>1, <2>2, <2>3, <2>4 DEF Cursor, Stamped
    <2>6. ~Older(e, a) /\ e \in Behind(u, Point(u, i))
      BY <2>1, <2>2, <2>3, <2>4, <2>5 DEF Loaded, Slice, Until
    <2>7. Older(e, b)
      <3>1. \A k \in 1..(n + 1) : e \in seen[u][Point(u, k)] => e \in Behind(u, Point(u, k))
        <4>1. \A k \in 1..(n + 1) : k \in 1..n \/ k = n + 1
          BY <2>2
        <4>2. QED
          BY <2>2, <4>1 DEF Loaded, Slice
      <3>2. e \in Behind(u, b)
        BY <1>1, <2>1, <2>4, <3>1
      <3>3. QED
        BY <2>5, <3>2 DEF Behind
    <2>8. e \in log /\ Stamped(e)
      BY <1>1, <2>6 DEF Behind, WriteInv, WriteType, Entry, Stamped
    <2>9. CASE j = i + 1
      BY <2>4, <2>6, <2>7, <2>9
    <2>10. CASE j # i + 1
      <3>1. i + 1 < j
        BY <1>1, <2>2, <2>10
      <3>2. Down(a, b)
        BY <1>1, <2>2, <2>3, <2>4, <3>1 DEF Descends
      <3>3. Older(b, a)
        BY <2>5, <3>2 DEF Down
      <3>4. QED
        BY <2>5, <2>6, <2>7, <2>8, <3>3, OlderIsStrict
    <2>11. QED
      BY <2>9, <2>10
  <1>2. ASSUME WriteInv, ReadInv PROVE NothingRepeated
    <2> SUFFICES ASSUME NEW u \in Viewers, Settled(u)
                 PROVE  /\ \A c, d \in Trail(u) : c # d => seen[u][c] \cap seen[u][d] = {}
                        /\ page[u].cursor # None => page[u].entries # {}
      BY DEF NothingRepeated
    <2>1. PICK n : n = Len(page[u].stack)
      OBVIOUS
    <2>2. /\ n \in Nat /\ Trail(u) = {Point(u, i) : i \in 1..(n + 1)}
          /\ Point(u, n + 1) = page[u].cursor
          /\ Loaded(u, Point(u, n + 1), seen[u][Point(u, n + 1)], page[u].next)
          /\ page[u].entries = seen[u][page[u].cursor]
      BY <1>2, <2>1, SettledWhat
    <2>3. ASSUME NEW c \in Trail(u), NEW d \in Trail(u), c # d
          PROVE  seen[u][c] \cap seen[u][d] = {}
      <3>1. PICK i \in 1..(n + 1) : c = Point(u, i)
        BY <2>2
      <3>2. PICK j \in 1..(n + 1) : d = Point(u, j)
        BY <2>2
      <3>3. i < j \/ j < i
        BY <2>2, <2>3, <3>1, <3>2
      <3>4. CASE i < j
        BY <1>1, <1>2, <2>1, <3>1, <3>2, <3>4
      <3>5. CASE j < i
        BY <1>1, <1>2, <2>1, <3>1, <3>2, <3>5
      <3>6. QED
        BY <3>3, <3>4, <3>5
    <2>4. page[u].cursor # None => page[u].entries # {}
      BY <2>2 DEF Loaded
    <2>5. QED
      BY <2>3, <2>4
  <1>3. QED
    BY <1>2, ReadInvariance, PTL
=============================================================================
