----------------------------- MODULE PoolProofs -----------------------------
(***************************************************************************)
(* Proofs about Pool: its types, that nothing leaks, and that it does not  *)
(* lock up as long as there are fewer logins than connections.             *)
(***************************************************************************)
EXTENDS Pool, FiniteSetTheorems, TLAPS

(***************************************************************************)
(* Only who awaits a connection is in the queue; only a login borrows; and *)
(* the logins keep to their bound.                                         *)
(***************************************************************************)
Asking == {"lookup", "tx", "sighting", "clear"}

QueueInv ==
  /\ \A r \in Requests : Waiting(r) => step[r] \in Asking
  /\ \A r \in Requests : step[r] = "sighting" => kind[r] = "login"

LoginInv == Cardinality(Logins) <= MaxLogins

IInv == TypeOK /\ NothingLeaks /\ QueueInv /\ LoginInv

-----------------------------------------------------------------------------
(***************************************************************************)
(* The queue: who joins it at the end, who leaves it at the head.          *)
(***************************************************************************)
LEMMA Joins ==
  ASSUME TypeOK, NEW r \in Requests, ~Waiting(r), queue' = Append(queue, r)
  PROVE  /\ queue' \in Seq(Requests)
         /\ \A i, j \in DOMAIN queue' : queue'[i] = queue'[j] => i = j
         /\ Waiting(r)'
         /\ \A q \in Requests : q # r => (Waiting(q)' <=> Waiting(q))
<1>1. /\ queue \in Seq(Requests)
      /\ \A i, j \in DOMAIN queue : queue[i] = queue[j] => i = j
      /\ \A i \in DOMAIN queue : queue[i] # r
  BY DEF TypeOK, Waiting
<1>2. /\ Len(queue) \in Nat /\ DOMAIN queue = 1..Len(queue)
      /\ queue' \in Seq(Requests)
      /\ Len(queue') = Len(queue) + 1 /\ DOMAIN queue' = 1..(Len(queue) + 1)
      /\ \A i \in 1..Len(queue) : queue'[i] = queue[i]
      /\ queue'[Len(queue) + 1] = r
  BY <1>1
<1>3. \A i \in DOMAIN queue' : i \in DOMAIN queue \/ i = Len(queue) + 1
  BY <1>2
<1>4. Waiting(r)'
  BY <1>2 DEF Waiting
<1>5. \A q \in Requests : q # r => (Waiting(q)' <=> Waiting(q))
  BY <1>2, <1>3 DEF Waiting
<1> QED
  BY <1>1, <1>2, <1>3, <1>4, <1>5

LEMMA Leaves ==
  ASSUME TypeOK, queue # <<>>, queue' = Tail(queue)
  PROVE  /\ Head(queue) \in Requests
         /\ Waiting(Head(queue))
         /\ queue' \in Seq(Requests)
         /\ \A i, j \in DOMAIN queue' : queue'[i] = queue'[j] => i = j
         /\ \A q \in Requests : Waiting(q)' <=> Waiting(q) /\ q # Head(queue)
<1>1. /\ queue \in Seq(Requests)
      /\ \A i, j \in DOMAIN queue : queue[i] = queue[j] => i = j
  BY DEF TypeOK
<1>2. /\ Len(queue) \in Nat \ {0} /\ DOMAIN queue = 1..Len(queue)
      /\ Head(queue) = queue[1]
      /\ queue' \in Seq(Requests)
      /\ Len(queue') = Len(queue) - 1 /\ DOMAIN queue' = 1..(Len(queue) - 1)
      /\ \A i \in 1..(Len(queue) - 1) : queue'[i] = queue[i + 1]
  BY <1>1
<1>3. /\ 1 \in DOMAIN queue
      /\ \A i \in DOMAIN queue' : i + 1 \in DOMAIN queue /\ i + 1 # 1 /\ queue'[i] = queue[i + 1]
      /\ \A i \in DOMAIN queue : i = 1 \/ (i - 1 \in DOMAIN queue' /\ queue'[i - 1] = queue[i])
  BY <1>2
<1>4. Head(queue) \in Requests /\ Waiting(Head(queue))
  BY <1>1, <1>2, <1>3 DEF Waiting
<1>5. ASSUME NEW i \in DOMAIN queue', NEW j \in DOMAIN queue', queue'[i] = queue'[j]
      PROVE  i = j
  <2>1. i + 1 = j + 1
    BY <1>1, <1>3, <1>5
  <2> QED
    BY <1>2, <2>1
<1>6. ASSUME NEW q \in Requests
      PROVE  Waiting(q)' <=> Waiting(q) /\ q # Head(queue)
  <2>1. ASSUME Waiting(q)' PROVE Waiting(q) /\ q # Head(queue)
    <3>1. PICK i \in DOMAIN queue' : queue'[i] = q
      BY <2>1 DEF Waiting
    <3>2. i + 1 \in DOMAIN queue /\ i + 1 # 1 /\ queue[i + 1] = q
      BY <1>3, <3>1
    <3> QED
      BY <1>1, <1>2, <1>3, <3>2 DEF Waiting
  <2>2. ASSUME Waiting(q), q # Head(queue) PROVE Waiting(q)'
    <3>1. PICK i \in DOMAIN queue : queue[i] = q
      BY <2>2 DEF Waiting
    <3> QED
      BY <1>2, <1>3, <2>2, <3>1 DEF Waiting
  <2> QED
    BY <2>1, <2>2
<1> QED
  BY <1>2, <1>4, <1>5, <1>6

-----------------------------------------------------------------------------
(***************************************************************************)
(* What a request holds is finite, and changes by one connection.          *)
(***************************************************************************)
LEMMA HeldIsFinite ==
  ASSUME NEW r \in Requests
  PROVE  IsFiniteSet(Held(r)) /\ Cardinality(Held(r)) \in Nat
BY PoolAssumption, FS_Subset, FS_CardinalityType DEF Held

LEMMA Takes ==
  ASSUME TypeOK, NEW r \in Requests, NEW c \in Conns, owner[c] # r,
         owner' = [owner EXCEPT ![c] = r]
  PROVE  Cardinality(Held(r)') = Cardinality(Held(r)) + 1
<1>1. Held(r)' = Held(r) \cup {c} /\ c \notin Held(r)
  BY DEF TypeOK, Held
<1> QED
  BY <1>1, HeldIsFinite, FS_AddElement

LEMMA Loses ==
  ASSUME TypeOK, NEW r \in Requests, NEW c \in Held(r), NEW q, q # r,
         owner' = [owner EXCEPT ![c] = q]
  PROVE  Cardinality(Held(r)') = Cardinality(Held(r)) - 1
<1>1. Held(r)' = Held(r) \ {c}
  BY DEF TypeOK, Held
<1> QED
  BY <1>1, HeldIsFinite, FS_RemoveElement

(***************************************************************************)
(* What asking for a connection does to the one who asks and to others.    *)
(***************************************************************************)
LEMMA Asked ==
  ASSUME TypeOK, NothingLeaks, NEW r \in Requests, ~Waiting(r), Ask(r)
  PROVE  /\ owner' \in [Conns -> Requests \cup {None}]
         /\ queue' \in Seq(Requests)
         /\ \A i, j \in DOMAIN queue' : queue'[i] = queue'[j] => i = j
         /\ queue' # <<>> => Free' = {}
         /\ \/ Waiting(r)' /\ Cardinality(Held(r)') = Cardinality(Held(r))
            \/ ~Waiting(r)' /\ Cardinality(Held(r)') = Cardinality(Held(r)) + 1
         /\ \A q \in Requests : q # r => Held(q)' = Held(q) /\ (Waiting(q)' <=> Waiting(q))
<1>1. CASE \E c \in Free : owner' = [owner EXCEPT ![c] = r] /\ UNCHANGED queue
  <2>1. PICK c \in Conns : /\ owner[c] = None
                           /\ owner' = [owner EXCEPT ![c] = r]
                           /\ UNCHANGED queue
    BY <1>1 DEF Free
  <2>2. owner[c] # r
    BY <2>1, PoolAssumption
  <2>3. Cardinality(Held(r)') = Cardinality(Held(r)) + 1
    BY <2>1, <2>2, Takes
  <2>4. \A q \in Requests : q # r => Held(q)' = Held(q)
    BY <2>1, PoolAssumption DEF TypeOK, Held
  <2>5. \A q \in Requests : Waiting(q)' <=> Waiting(q)
    BY <2>1 DEF Waiting
  <2>6. queue = <<>>
    BY <2>1 DEF NothingLeaks, Free
  <2> QED
    BY <2>1, <2>3, <2>4, <2>5, <2>6 DEF TypeOK
<1>2. CASE Free = {} /\ queue' = Append(queue, r) /\ UNCHANGED owner
  <2>1. Free' = {} /\ \A q \in Requests : Held(q)' = Held(q)
    BY <1>2 DEF Free, Held
  <2> QED
    BY <1>2, <2>1, Joins DEF TypeOK
<1> QED
  BY <1>1, <1>2 DEF Ask

(***************************************************************************)
(* What giving one back does: the head of the queue, if any, gets it.      *)
(***************************************************************************)
LEMMA GivenBack ==
  ASSUME TypeOK, NothingLeaks, NEW r \in Requests, ~Waiting(r), GiveBack(r)
  PROVE  /\ owner' \in [Conns -> Requests \cup {None}]
         /\ queue' \in Seq(Requests)
         /\ \A i, j \in DOMAIN queue' : queue'[i] = queue'[j] => i = j
         /\ queue' # <<>> => Free' = {}
         /\ ~Waiting(r)' /\ Cardinality(Held(r)') = Cardinality(Held(r)) - 1
         /\ \A q \in Requests : q # r =>
              \/ Held(q)' = Held(q) /\ (Waiting(q)' <=> Waiting(q))
              \/ /\ Waiting(q) /\ ~Waiting(q)'
                 /\ Cardinality(Held(q)') = Cardinality(Held(q)) + 1
<1>1. PICK c \in Held(r) : Release(c)
  BY DEF GiveBack
<1>2. c \in Conns /\ owner[c] = r
  BY DEF Held
<1>3. CASE queue = <<>> /\ owner' = [owner EXCEPT ![c] = None] /\ UNCHANGED queue
  <2>1. Cardinality(Held(r)') = Cardinality(Held(r)) - 1
    BY <1>3, Loses, PoolAssumption
  <2>2. \A q \in Requests : q # r => Held(q)' = Held(q)
    BY <1>2, <1>3, PoolAssumption DEF TypeOK, Held
  <2>3. \A q \in Requests : Waiting(q)' <=> Waiting(q)
    BY <1>3 DEF Waiting
  <2> QED
    BY <1>3, <2>1, <2>2, <2>3 DEF TypeOK
<1>4. CASE queue # <<>> /\ owner' = [owner EXCEPT ![c] = Head(queue)] /\ queue' = Tail(queue)
  <2>1. PICK h : h = Head(queue)
    OBVIOUS
  <2>2. /\ h \in Requests /\ Waiting(h) /\ h # r
        /\ queue' \in Seq(Requests)
        /\ \A i, j \in DOMAIN queue' : queue'[i] = queue'[j] => i = j
        /\ \A q \in Requests : Waiting(q)' <=> Waiting(q) /\ q # h
    BY <1>4, <2>1, Leaves
  <2>3. Cardinality(Held(r)') = Cardinality(Held(r)) - 1
    BY <1>4, <2>1, <2>2, Loses
  <2>4. Cardinality(Held(h)') = Cardinality(Held(h)) + 1
    BY <1>2, <1>4, <2>1, <2>2, Takes
  <2>5. \A q \in Requests : q # r /\ q # h => Held(q)' = Held(q)
    BY <1>2, <1>4, <2>1 DEF TypeOK, Held
  <2>6. Free = {}
    BY <1>4 DEF NothingLeaks
  <2>7. Free' = {}
    BY <1>2, <1>4, <2>1, <2>2, <2>6, PoolAssumption DEF TypeOK, Free
  <2>8. owner' \in [Conns -> Requests \cup {None}]
    BY <1>2, <1>4, <2>1, <2>2 DEF TypeOK
  <2> QED
    BY <2>2, <2>3, <2>4, <2>5, <2>7, <2>8
<1> QED
  BY <1>1, <1>3, <1>4 DEF Release

-----------------------------------------------------------------------------
(***************************************************************************)
(* How many connections a request uses, before and after a step.           *)
(***************************************************************************)
LEMMA Usage ==
  ASSUME TypeOK, NEW r \in Requests
  PROVE  /\ Uses(r) = IF Waiting(r) THEN Needed(step[r]) - 1 ELSE Needed(step[r])
         /\ Needed(step[r]) \in 0..2
BY DEF Uses, Needed

LEMMA UsageNext ==
  ASSUME NEW r \in Requests
  PROVE  Uses(r)' = IF Waiting(r)' THEN Needed(step'[r]) - 1 ELSE Needed(step'[r])
BY DEF Uses, Needed

(***************************************************************************)
(* The kinds: a request that goes on keeps its kind, one that ends has     *)
(* none, so the logins can only become fewer.                              *)
(***************************************************************************)
LEMMA Going ==
  ASSUME IInv, NEW r \in Requests, NEW s \in Steps, Goto(r, s),
         s = "sighting" => kind[r] = "login"
  PROVE  /\ step' \in [Requests -> Steps] /\ kind' \in [Requests -> Kinds \cup {None}]
         /\ step' = [step EXCEPT ![r] = s]
         /\ \A q \in Requests : step'[q] = "sighting" => kind'[q] = "login"
         /\ LoginInv'
<1>1. /\ step' = [step EXCEPT ![r] = s]
      /\ kind' = [kind EXCEPT ![r] = IF s = "idle" THEN None ELSE @]
  BY DEF Goto
<1>2. /\ step \in [Requests -> Steps] /\ kind \in [Requests -> Kinds \cup {None}]
      /\ \A q \in Requests : step[q] = "sighting" => kind[q] = "login"
  BY DEF IInv, TypeOK, QueueInv
<1>3. /\ step' \in [Requests -> Steps]
      /\ kind' \in [Requests -> Kinds \cup {None}]
  BY <1>1, <1>2
<1>4. \A q \in Requests : step'[q] = "sighting" => kind'[q] = "login"
  BY <1>1, <1>2
<1>5. Logins' \subseteq Logins
  <2>1. None # "login"
    BY PoolAssumption
  <2>2. \A q \in Requests : kind'[q] = "login" => kind[q] = "login"
    BY <1>1, <1>2, <2>1
  <2> QED
    BY <2>2 DEF Logins
<1>6. LoginInv'
  <2>1. IsFiniteSet(Logins)
    BY PoolAssumption, FS_Subset DEF Logins
  <2>2. Cardinality(Logins) \in Nat /\ Cardinality(Logins') \in Nat
        /\ Cardinality(Logins') <= Cardinality(Logins)
    BY <1>5, <2>1, FS_Subset, FS_CardinalityType
  <2>3. Cardinality(Logins) <= MaxLogins
    BY DEF IInv, LoginInv
  <2> QED
    BY <2>2, <2>3, PoolAssumption DEF LoginInv
<1> QED
  BY <1>1, <1>3, <1>4, <1>6

(***************************************************************************)
(* The three things a step does to the pool, each with the step of the     *)
(* request that does it.                                                   *)
(***************************************************************************)
LEMMA AskKeeps ==
  ASSUME IInv, NEW r \in Requests, NEW s \in Asking, ~Waiting(r), Ask(r),
         step' = [step EXCEPT ![r] = s], Needed(s) = Needed(step[r]) + 1
  PROVE  /\ owner' \in [Conns -> Requests \cup {None}] /\ queue' \in Seq(Requests)
         /\ \A i, j \in DOMAIN queue' : queue'[i] = queue'[j] => i = j
         /\ NothingLeaks'
         /\ \A q \in Requests : Waiting(q)' => step'[q] \in Asking
<1>1. TypeOK /\ NothingLeaks /\ QueueInv
  BY DEF IInv
<1>2. /\ owner' \in [Conns -> Requests \cup {None}]
      /\ queue' \in Seq(Requests)
      /\ \A i, j \in DOMAIN queue' : queue'[i] = queue'[j] => i = j
      /\ queue' # <<>> => Free' = {}
      /\ \/ Waiting(r)' /\ Cardinality(Held(r)') = Cardinality(Held(r))
         \/ ~Waiting(r)' /\ Cardinality(Held(r)') = Cardinality(Held(r)) + 1
      /\ \A q \in Requests : q # r => Held(q)' = Held(q) /\ (Waiting(q)' <=> Waiting(q))
  BY <1>1, Asked
<1>3. /\ step'[r] = s
      /\ \A q \in Requests : q # r => step'[q] = step[q]
      /\ \A q \in Requests : step'[q] \in Steps
  BY <1>1 DEF TypeOK, Asking, Steps
<1>4. \A q \in Requests : Waiting(q)' => step'[q] \in Asking
  BY <1>1, <1>2, <1>3 DEF QueueInv
<1>5. ASSUME NEW q \in Requests PROVE Cardinality(Held(q)') = Uses(q)'
  <2>1. /\ Cardinality(Held(q)) = Uses(q)
        /\ Uses(q) = IF Waiting(q) THEN Needed(step[q]) - 1 ELSE Needed(step[q])
        /\ Needed(step[q]) \in 0..2
    BY <1>1, Usage DEF NothingLeaks
  <2>2. Uses(q)' = IF Waiting(q)' THEN Needed(step'[q]) - 1 ELSE Needed(step'[q])
    BY UsageNext
  <2>3. CASE q = r
    BY <1>2, <1>3, <2>1, <2>2, <2>3
  <2>4. CASE q # r
    BY <1>2, <1>3, <2>1, <2>2, <2>4
  <2> QED
    BY <2>3, <2>4
<1>6. NothingLeaks'
  BY <1>2, <1>5 DEF NothingLeaks
<1> QED
  BY <1>2, <1>4, <1>6

LEMMA GiveKeeps ==
  ASSUME IInv, NEW r \in Requests, NEW s \in Steps, ~Waiting(r), GiveBack(r),
         step' = [step EXCEPT ![r] = s], Needed(s) = Needed(step[r]) - 1
  PROVE  /\ owner' \in [Conns -> Requests \cup {None}] /\ queue' \in Seq(Requests)
         /\ \A i, j \in DOMAIN queue' : queue'[i] = queue'[j] => i = j
         /\ NothingLeaks'
         /\ \A q \in Requests : Waiting(q)' => step'[q] \in Asking
<1>1. TypeOK /\ NothingLeaks /\ QueueInv
  BY DEF IInv
<1>2. /\ owner' \in [Conns -> Requests \cup {None}]
      /\ queue' \in Seq(Requests)
      /\ \A i, j \in DOMAIN queue' : queue'[i] = queue'[j] => i = j
      /\ queue' # <<>> => Free' = {}
      /\ ~Waiting(r)' /\ Cardinality(Held(r)') = Cardinality(Held(r)) - 1
      /\ \A q \in Requests : q # r =>
           \/ Held(q)' = Held(q) /\ (Waiting(q)' <=> Waiting(q))
           \/ /\ Waiting(q) /\ ~Waiting(q)'
              /\ Cardinality(Held(q)') = Cardinality(Held(q)) + 1
  BY <1>1, GivenBack
<1>3. /\ step'[r] = s
      /\ \A q \in Requests : q # r => step'[q] = step[q]
      /\ \A q \in Requests : step'[q] \in Steps
  BY <1>1 DEF TypeOK
<1>4. \A q \in Requests : Waiting(q)' => step'[q] \in Asking
  BY <1>1, <1>2, <1>3 DEF QueueInv
<1>5. ASSUME NEW q \in Requests PROVE Cardinality(Held(q)') = Uses(q)'
  <2>1. /\ Cardinality(Held(q)) = Uses(q)
        /\ Uses(q) = IF Waiting(q) THEN Needed(step[q]) - 1 ELSE Needed(step[q])
        /\ Needed(step[q]) \in 0..2
    BY <1>1, Usage DEF NothingLeaks
  <2>2. Uses(q)' = IF Waiting(q)' THEN Needed(step'[q]) - 1 ELSE Needed(step'[q])
    BY UsageNext
  <2>3. CASE q = r
    BY <1>2, <1>3, <2>1, <2>2, <2>3
  <2>4. CASE q # r
    BY <1>2, <1>3, <2>1, <2>2, <2>4
  <2> QED
    BY <2>3, <2>4
<1>6. NothingLeaks'
  BY <1>2, <1>5 DEF NothingLeaks
<1> QED
  BY <1>2, <1>4, <1>6

LEMMA StayKeeps ==
  ASSUME IInv, NEW r \in Requests, NEW s \in Steps, ~Waiting(r), UNCHANGED <<owner, queue>>,
         step' = [step EXCEPT ![r] = s], Needed(s) = Needed(step[r])
  PROVE  /\ owner' \in [Conns -> Requests \cup {None}] /\ queue' \in Seq(Requests)
         /\ \A i, j \in DOMAIN queue' : queue'[i] = queue'[j] => i = j
         /\ NothingLeaks'
         /\ \A q \in Requests : Waiting(q)' => step'[q] \in Asking
<1>1. TypeOK /\ NothingLeaks /\ QueueInv
  BY DEF IInv
<1>2. /\ \A q \in Requests : Held(q)' = Held(q) /\ (Waiting(q)' <=> Waiting(q))
      /\ Free' = Free
  BY DEF Held, Waiting, Free
<1>3. /\ step'[r] = s
      /\ \A q \in Requests : q # r => step'[q] = step[q]
      /\ \A q \in Requests : step'[q] \in Steps
  BY <1>1 DEF TypeOK
<1>4. \A q \in Requests : Waiting(q)' => step'[q] \in Asking
  BY <1>1, <1>2, <1>3 DEF QueueInv
<1>5. ASSUME NEW q \in Requests PROVE Cardinality(Held(q)') = Uses(q)'
  <2>1. /\ Cardinality(Held(q)) = Uses(q)
        /\ Uses(q) = IF Waiting(q) THEN Needed(step[q]) - 1 ELSE Needed(step[q])
    BY <1>1, Usage DEF NothingLeaks
  <2>2. Uses(q)' = IF Waiting(q)' THEN Needed(step'[q]) - 1 ELSE Needed(step'[q])
    BY UsageNext
  <2> QED
    BY <1>2, <1>3, <2>1, <2>2
<1>6. NothingLeaks'
  BY <1>1, <1>2, <1>5 DEF NothingLeaks
<1> QED
  BY <1>1, <1>4, <1>6 DEF TypeOK

-----------------------------------------------------------------------------
(***************************************************************************)
(* The inductive step.                                                     *)
(***************************************************************************)
LEMMA Combined ==
  ASSUME /\ owner' \in [Conns -> Requests \cup {None}] /\ queue' \in Seq(Requests)
         /\ \A i, j \in DOMAIN queue' : queue'[i] = queue'[j] => i = j
         /\ NothingLeaks'
         /\ \A q \in Requests : Waiting(q)' => step'[q] \in Asking,
         /\ step' \in [Requests -> Steps] /\ kind' \in [Requests -> Kinds \cup {None}]
         /\ \A q \in Requests : step'[q] = "sighting" => kind'[q] = "login"
         /\ LoginInv'
  PROVE  IInv'
BY DEF IInv, TypeOK, QueueInv

LEMMA Initially == Init => IInv
<1> SUFFICES ASSUME Init PROVE IInv
  OBVIOUS
<1>1. TypeOK /\ Free = Conns /\ \A r \in Requests : ~Waiting(r) /\ Held(r) = {}
  BY PoolAssumption DEF Init, TypeOK, Steps, Free, Waiting, Held
<1>2. NothingLeaks
  BY <1>1, FS_EmptySet DEF Init, NothingLeaks, Uses, Needed
<1>3. QueueInv
  BY <1>1 DEF Init, QueueInv
<1>4. Logins = {}
  BY PoolAssumption DEF Init, Logins
<1>5. LoginInv
  BY <1>4, FS_EmptySet, PoolAssumption DEF LoginInv
<1> QED
  BY <1>1, <1>2, <1>3, <1>5 DEF IInv

LEMMA OneMore ==
  ASSUME NEW S, IsFiniteSet(S), NEW x
  PROVE  Cardinality(S \cup {x}) \in Nat /\ Cardinality(S \cup {x}) <= Cardinality(S) + 1
<1>1. /\ IsFiniteSet(S \cup {x})
      /\ Cardinality(S \cup {x}) = IF x \in S THEN Cardinality(S) ELSE Cardinality(S) + 1
  BY FS_AddElement
<1>2. Cardinality(S) \in Nat
  BY FS_CardinalityType
<1> QED
  BY <1>1, <1>2

LEMMA Arriving ==
  ASSUME IInv, NEW r \in Requests, Arrive(r)
  PROVE  IInv'
<1>1. TypeOK /\ QueueInv /\ step[r] = "idle" /\ LoginInv
  BY DEF IInv, Arrive
<1>2. ~Waiting(r)
  BY <1>1 DEF QueueInv, Asking
<1>3. PICK k \in Kinds : /\ k = "login" => Cardinality(Logins) < MaxLogins
                         /\ kind' = [kind EXCEPT ![r] = k]
  BY DEF Arrive
<1>4. step' = [step EXCEPT ![r] = "lookup"] /\ Ask(r)
  BY DEF Arrive
<1>5. "lookup" \in Asking /\ Needed("lookup") = Needed(step[r]) + 1
  BY <1>1 DEF Asking, Needed
<1>6. /\ owner' \in [Conns -> Requests \cup {None}] /\ queue' \in Seq(Requests)
      /\ \A i, j \in DOMAIN queue' : queue'[i] = queue'[j] => i = j
      /\ NothingLeaks'
      /\ \A q \in Requests : Waiting(q)' => step'[q] \in Asking
  BY <1>2, <1>4, <1>5, AskKeeps
<1>7. /\ step' \in [Requests -> Steps] /\ kind' \in [Requests -> Kinds \cup {None}]
      /\ \A q \in Requests : step'[q] = "sighting" => kind'[q] = "login"
  BY <1>1, <1>3, <1>4 DEF TypeOK, QueueInv, Steps
<1>8. LoginInv'
  <2>1. IsFiniteSet(Logins) /\ Logins \subseteq Requests
    BY PoolAssumption, FS_Subset DEF Logins
  <2>2. Cardinality(Logins) \in Nat
    BY <2>1, FS_CardinalityType
  <2>3. CASE k = "login"
    <3>1. Logins' = Logins \cup {r}
      BY <1>1, <1>3, <2>3 DEF Logins, TypeOK
    <3>2. Cardinality(Logins') \in Nat /\ Cardinality(Logins') <= Cardinality(Logins) + 1
      BY <2>1, <3>1, OneMore
    <3> QED
      BY <1>3, <2>2, <2>3, <3>2, PoolAssumption DEF LoginInv
  <2>4. CASE k # "login"
    <3>1. Logins' \subseteq Logins
      BY <1>1, <1>3, <2>4 DEF Logins, TypeOK
    <3>2. Cardinality(Logins') \in Nat /\ Cardinality(Logins') <= Cardinality(Logins)
      BY <2>1, <3>1, FS_Subset, FS_CardinalityType
    <3> QED
      BY <1>1, <2>2, <3>2, PoolAssumption DEF LoginInv
  <2> QED
    BY <2>3, <2>4
<1> QED
  BY <1>6, <1>7, <1>8, Combined

(***************************************************************************)
(* The steps that follow: each asks, gives back, or does neither.          *)
(***************************************************************************)
LEMMA GoAsking ==
  ASSUME IInv, NEW r \in Requests, NEW s \in Asking, ~Waiting(r), Ask(r), Goto(r, s),
         Needed(s) = Needed(step[r]) + 1, s = "sighting" => kind[r] = "login"
  PROVE  IInv'
<1>1. s \in Steps
  BY DEF Asking, Steps
<1>2. /\ step' \in [Requests -> Steps] /\ kind' \in [Requests -> Kinds \cup {None}]
      /\ step' = [step EXCEPT ![r] = s]
      /\ \A q \in Requests : step'[q] = "sighting" => kind'[q] = "login"
      /\ LoginInv'
  BY <1>1, Going
<1> QED
  BY <1>2, AskKeeps, Combined

LEMMA GoGiving ==
  ASSUME IInv, NEW r \in Requests, NEW s \in Steps \ {"sighting"}, ~Waiting(r),
         GiveBack(r), Goto(r, s), Needed(s) = Needed(step[r]) - 1
  PROVE  IInv'
<1>1. /\ step' \in [Requests -> Steps] /\ kind' \in [Requests -> Kinds \cup {None}]
      /\ step' = [step EXCEPT ![r] = s]
      /\ \A q \in Requests : step'[q] = "sighting" => kind'[q] = "login"
      /\ LoginInv'
  BY Going
<1> QED
  BY <1>1, GiveKeeps, Combined

LEMMA GoStaying ==
  ASSUME IInv, NEW r \in Requests, NEW s \in Steps \ {"sighting"}, ~Waiting(r),
         UNCHANGED <<owner, queue>>, Goto(r, s), Needed(s) = Needed(step[r])
  PROVE  IInv'
<1>1. /\ step' \in [Requests -> Steps] /\ kind' \in [Requests -> Kinds \cup {None}]
      /\ step' = [step EXCEPT ![r] = s]
      /\ \A q \in Requests : step'[q] = "sighting" => kind'[q] = "login"
      /\ LoginInv'
  BY Going
<1> QED
  BY <1>1, StayKeeps, Combined

LEMMA Proceeding ==
  ASSUME IInv, NEW r \in Requests, Proceed(r)
  PROVE  IInv'
<1>1. step[r] \notin Asking => ~Waiting(r)
  BY DEF IInv, QueueInv
<1>2. CASE LookUp(r)
  <2>1. step[r] = "lookup" /\ ~Waiting(r) /\ GiveBack(r)
    BY <1>2 DEF LookUp
  <2>2. PICK s \in {"idle", "ready"} : Goto(r, s)
    BY <1>2 DEF LookUp
  <2>3. s \in Steps \ {"sighting"} /\ Needed(s) = Needed(step[r]) - 1
    BY <2>1 DEF Steps, Needed
  <2> QED
    BY <2>1, <2>2, <2>3, GoGiving
<1>3. CASE GetConnection(r)
  <2>1. step[r] = "ready" /\ ~Waiting(r)
    BY <1>1, <1>3 DEF GetConnection, Asking
  <2>2. CASE Ask(r) /\ Goto(r, "tx")
    <3>1. "tx" \in Asking /\ Needed("tx") = Needed(step[r]) + 1
      BY <2>1 DEF Asking, Needed
    <3> QED
      BY <2>1, <2>2, <3>1, GoAsking
  <2>3. CASE Goto(r, "idle") /\ UNCHANGED <<owner, queue>>
    <3>1. "idle" \in Steps \ {"sighting"} /\ Needed("idle") = Needed(step[r])
      BY <2>1 DEF Steps, Needed
    <3> QED
      BY <2>1, <2>3, <3>1, GoStaying
  <2> QED
    BY <1>3, <2>2, <2>3 DEF GetConnection
<1>4. CASE SeeDevice(r)
  <2>1. step[r] = "tx" /\ ~Waiting(r) /\ kind[r] = "login"
    BY <1>4 DEF SeeDevice, Borrows
  <2>2. CASE Ask(r) /\ Goto(r, "sighting")
    <3>1. "sighting" \in Asking /\ Needed("sighting") = Needed(step[r]) + 1
      BY <2>1 DEF Asking, Needed
    <3> QED
      BY <2>1, <2>2, <3>1, GoAsking
  <2>3. CASE Goto(r, "rollback") /\ UNCHANGED <<owner, queue>>
    <3>1. "rollback" \in Steps \ {"sighting"} /\ Needed("rollback") = Needed(step[r])
      BY <2>1 DEF Steps, Needed
    <3> QED
      BY <2>1, <2>3, <3>1, GoStaying
  <2> QED
    BY <1>4, <2>2, <2>3 DEF SeeDevice
<1>5. CASE Sighted(r)
  <2>1. step[r] = "sighting" /\ ~Waiting(r) /\ GiveBack(r)
    BY <1>5 DEF Sighted
  <2>2. PICK s \in {"entry", "rollback"} : Goto(r, s)
    BY <1>5 DEF Sighted
  <2>3. s \in Steps \ {"sighting"} /\ Needed(s) = Needed(step[r]) - 1
    BY <2>1 DEF Steps, Needed
  <2> QED
    BY <2>1, <2>2, <2>3, GoGiving
<1>6. CASE Commit(r)
  <2>1. step[r] \in {"tx", "entry"} /\ ~Waiting(r) /\ GiveBack(r)
    BY <1>1, <1>6 DEF Commit, Asking
  <2>2. PICK s \in {"committed", "idle"} : Goto(r, s)
    BY <1>6 DEF Commit
  <2>3. s \in Steps \ {"sighting"} /\ Needed(s) = Needed(step[r]) - 1
    BY <2>1 DEF Steps, Needed
  <2> QED
    BY <2>1, <2>2, <2>3, GoGiving
<1>7. CASE Throw(r)
  <2>1. step[r] \in {"tx", "entry"} /\ ~Waiting(r)
    BY <1>1, <1>7 DEF Throw, Asking
  <2>2. "rollback" \in Steps \ {"sighting"} /\ Needed("rollback") = Needed(step[r])
    BY <2>1 DEF Steps, Needed
  <2> QED
    BY <1>7, <2>1, <2>2, GoStaying DEF Throw
<1>8. CASE Rollback(r)
  <2>1. step[r] = "rollback" /\ ~Waiting(r) /\ GiveBack(r)
    BY <1>1, <1>8 DEF Rollback, EndRollback, Asking
  <2>2. "idle" \in Steps \ {"sighting"} /\ Needed("idle") = Needed(step[r]) - 1
    BY <2>1 DEF Steps, Needed
  <2> QED
    BY <1>8, <2>1, <2>2, GoGiving DEF Rollback
<1>9. CASE ClearFailures(r)
  <2>1. step[r] = "committed" /\ ~Waiting(r)
    BY <1>1, <1>9 DEF ClearFailures, Asking
  <2>2. CASE Ask(r) /\ Goto(r, "clear")
    <3>1. "clear" \in Asking /\ Needed("clear") = Needed(step[r]) + 1
      BY <2>1 DEF Asking, Needed
    <3> QED
      BY <2>1, <2>2, <3>1, GoAsking
  <2>3. CASE Goto(r, "idle") /\ UNCHANGED <<owner, queue>>
    <3>1. "idle" \in Steps \ {"sighting"} /\ Needed("idle") = Needed(step[r])
      BY <2>1 DEF Steps, Needed
    <3> QED
      BY <2>1, <2>3, <3>1, GoStaying
  <2> QED
    BY <1>9, <2>2, <2>3 DEF ClearFailures, Clearing
<1>10. CASE Cleared(r)
  <2>1. step[r] = "clear" /\ ~Waiting(r) /\ GiveBack(r) /\ Goto(r, "idle")
    BY <1>10 DEF Cleared
  <2>2. "idle" \in Steps \ {"sighting"} /\ Needed("idle") = Needed(step[r]) - 1
    BY <2>1 DEF Steps, Needed
  <2> QED
    BY <2>1, <2>2, GoGiving
<1> QED
  BY <1>2, <1>3, <1>4, <1>5, <1>6, <1>7, <1>8, <1>9, <1>10 DEF Proceed

LEMMA Stuttering == IInv /\ UNCHANGED vars => IInv'
<1> SUFFICES ASSUME IInv, UNCHANGED vars PROVE IInv'
  OBVIOUS
<1>1. /\ owner' = owner /\ queue' = queue /\ kind' = kind /\ step' = step
  BY DEF vars
<1>2. /\ \A r \in Requests : Held(r)' = Held(r) /\ (Waiting(r)' <=> Waiting(r))
      /\ Free' = Free /\ Logins' = Logins
  BY <1>1 DEF Held, Waiting, Free, Logins
<1>3. \A r \in Requests : Uses(r)' = Uses(r)
  BY <1>1, <1>2 DEF Uses
<1> QED
  BY <1>1, <1>2, <1>3 DEF IInv, TypeOK, NothingLeaks, QueueInv, LoginInv

(* Every reachable state of Pool satisfies the inductive invariant.        *)
THEOREM Invariance == Spec => []IInv
<1>1. IInv /\ [Next]_vars => IInv'
  <2> SUFFICES ASSUME IInv, [Next]_vars PROVE IInv'
    OBVIOUS
  <2>1. CASE UNCHANGED vars
    BY <2>1, Stuttering
  <2>2. ASSUME NEW r \in Requests, Arrive(r) \/ Proceed(r) PROVE IInv'
    BY <2>2, Arriving, Proceeding
  <2> QED
    BY <2>1, <2>2 DEF Next
<1> QED
  BY <1>1, Initially, PTL DEF Spec

(* The pool and its requests are well typed, and nobody is queued twice.    *)
THEOREM TypeCorrect == Spec => []TypeOK
<1>1. IInv => TypeOK
  BY DEF IInv
<1> QED
  BY <1>1, Invariance, PTL

(* Connections are given back whatever rejects (db/pool.js, finally).       *)
THEOREM NoConnectionLeaks == Spec => []NothingLeaks
<1>1. IInv => NothingLeaks
  BY DEF IInv
<1> QED
  BY <1>1, Invariance, PTL

-----------------------------------------------------------------------------
(***************************************************************************)
(* Who holds a connection and waits is a login in its sighting, with just  *)
(* that one; so if every holder waited, there would be as many logins as   *)
(* connections.                                                            *)
(***************************************************************************)
LEMMA HolderWaits ==
  ASSUME IInv, NEW c \in Conns, owner[c] \in Requests, Waiting(owner[c])
  PROVE  owner[c] \in Logins /\ Held(owner[c]) = {c}
<1>1. PICK r \in Requests : r = owner[c]
  OBVIOUS
<1>2. TypeOK /\ QueueInv /\ Cardinality(Held(r)) = Uses(r) /\ Waiting(r)
  BY <1>1 DEF IInv, NothingLeaks
<1>3. c \in Held(r) /\ IsFiniteSet(Held(r))
  BY <1>1, HeldIsFinite DEF Held
<1>4. Cardinality(Held(r)) # 0
  BY <1>3, FS_EmptySet
<1>5. step[r] = "sighting" /\ Uses(r) = 1
  BY <1>2, <1>4 DEF QueueInv, Asking, Uses, Needed
<1>6. r \in Logins
  BY <1>2, <1>5 DEF QueueInv, Logins
<1>7. Held(r) = {c}
  BY <1>2, <1>3, <1>5, FS_Singleton
<1> QED
  BY <1>1, <1>6, <1>7

LEMMA SomeoneRuns ==
  ASSUME IInv, MaxLogins < Cardinality(Conns)
  PROVE  NeverStuck
<1> SUFFICES ASSUME queue # <<>>, \A c \in Conns : owner[c] # None => Waiting(owner[c])
             PROVE  FALSE
  BY DEF NeverStuck
<1>1. Free = {} /\ owner \in [Conns -> Requests \cup {None}]
  BY DEF IInv, NothingLeaks, TypeOK
<1>2. \A c \in Conns : owner[c] \in Requests /\ Waiting(owner[c])
  BY <1>1 DEF Free
<1>3. \A c \in Conns : owner[c] \in Logins /\ Held(owner[c]) = {c}
  BY <1>2, HolderWaits
<1>4. owner \in [Conns -> Logins]
  BY <1>1, <1>3
<1>5. IsFiniteSet(Logins) /\ IsFiniteSet(Conns)
  BY PoolAssumption, FS_Subset DEF Logins
<1>6. Cardinality(Logins) < Cardinality(Conns)
  BY <1>5, FS_CardinalityType, PoolAssumption DEF IInv, LoginInv
<1>7. PICK c \in Conns, d \in Conns : c # d /\ owner[c] = owner[d]
  BY <1>4, <1>5, <1>6, FS_PigeonHole
<1> QED
  BY <1>3, <1>7

(* With fewer logins than connections the pool of db/pool.js never locks    *)
(* up, whatever else is under way.                                          *)
THEOREM PoolNeverStuck ==
  ASSUME MaxLogins < Cardinality(Conns)
  PROVE  Spec => []NeverStuck
<1>1. IInv => NeverStuck
  BY SomeoneRuns
<1> QED
  BY <1>1, Invariance, PTL
=============================================================================
