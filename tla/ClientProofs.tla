---------------------------- MODULE ClientProofs ----------------------------
(***************************************************************************)
(* Proofs about the parts of the client that keep no more than a page or a *)
(* worker does: Extension, for any number of tabs, questions and domains,  *)
(* and VaultScreen, for any number of items, passwords and handlers.       *)
(***************************************************************************)
EXTENDS Extension, VaultScreen, FiniteSetTheorems, SequenceTheorems, TLAPS

-----------------------------------------------------------------------------
(***************************************************************************)
(* Extension.  What is to be shown of a question is not inductive: a       *)
(* request sets off a chain in the place of the one its question had       *)
(* before, so that one has to be over by then.                             *)
(***************************************************************************)
SentIsFresh == \A a \in Asks : ask[a].step = "sent" => chain[a].step = "idle"

Carried(d) == \E a \in Asks : chain[a].step # "idle" /\ chain[a].domain = d

Remembered(d) == Awaited(d) => d \in dropped \/ Carried(d)

IInv == TypeOK /\ SentIsFresh /\ \A d \in Domains : Remembered(d)

LEMMA Unforgotten == NobodyIsForgotten <=> \A d \in Domains : Remembered(d)
  BY DEF NobodyIsForgotten, Remembered, Carried

(***************************************************************************)
(* The parts of the types the steps below need.                            *)
(***************************************************************************)
LEMMA Types ==
  ASSUME TypeOK
  PROVE  /\ NoAsk \in Ask /\ NoAsk.step = "idle"
         /\ NoChain \in Chain /\ NoChain.step = "idle"
         /\ \A a \in Asks :
              /\ ask[a] \in Ask
              /\ ask[a].step \in {"idle", "sent", "waiting"} /\ ask[a].domain \in Domains \cup {None}
              /\ chain[a] \in Chain
              /\ chain[a].tab \in Tabs \cup {None} /\ chain[a].domain \in Domains \cup {None}
  BY DEF TypeOK, Ask, NoAsk, Chain, NoChain

LEMMA InitInv == Init => IInv
  <1> SUFFICES ASSUME Init PROVE IInv
    OBVIOUS
  <1>1. TypeOK
    BY DEF Init, TypeOK, Ask, NoAsk, Chain, NoChain, Tab
  <1>2. \A a \in Asks : ask[a].step = "idle" /\ chain[a].step = "idle"
    BY DEF Init, NoAsk, NoChain
  <1>3. QED
    BY <1>1, <1>2 DEF IInv, SentIsFresh, Remembered, Awaited, Waiting

(***************************************************************************)
(* The questions.                                                          *)
(***************************************************************************)
LEMMA QuestionStep ==
  ASSUME IInv, NEW a \in Asks, Question(a)
  PROVE  IInv'
  <1>1. TypeOK /\ SentIsFresh
    BY DEF IInv
  <1>2. PICK d \in Domains : ask' = [ask EXCEPT ![a] = [step |-> "sent", domain |-> d]]
    BY DEF Question
  <1>3. /\ ask' \in [Asks -> Ask] /\ ask'[a].step = "sent" /\ ask'[a].domain # None
        /\ \A b \in Asks : b # a => ask'[b] = ask[b]
        /\ UNCHANGED <<vaultTabId, chain, tab, ready, removed, dropped>>
    BY <1>1, <1>2, ExtensionAssumption DEF Question, page, TypeOK, Ask
  <1>4. TypeOK'
    BY <1>1, <1>3 DEF TypeOK
  <1>5. SentIsFresh'
    BY <1>1, <1>3 DEF SentIsFresh, Question
  <1>6. ASSUME NEW e \in Domains PROVE Remembered(e)'
    BY <1>3 DEF IInv, Remembered, Awaited, Waiting, Carried
  <1>7. QED
    BY <1>4, <1>5, <1>6 DEF IInv

LEMMA RequestStep ==
  ASSUME IInv, NEW a \in Asks, Request(a)
  PROVE  IInv'
  <1>1. TypeOK /\ SentIsFresh /\ chain[a].step = "idle"
    BY DEF IInv, Request, SentIsFresh
  <1>2. UNCHANGED <<vaultTabId, tab, ready, removed, dropped>>
    BY DEF Request, page
  <1>3. CASE vaultTabId = None
    <2>1. /\ ask' \in [Asks -> Ask] /\ ask'[a] = NoAsk /\ UNCHANGED chain
          /\ \A b \in Asks : b # a => ask'[b] = ask[b]
      BY <1>1, <1>3, Types DEF Request, TypeOK
    <2>2. TypeOK'
      BY <1>1, <1>2, <2>1, Types DEF TypeOK
    <2>3. SentIsFresh'
      BY <1>1, <2>1, Types DEF SentIsFresh
    <2>4. ASSUME NEW e \in Domains PROVE Remembered(e)'
      BY <1>1, <1>2, <2>1, Types DEF IInv, Remembered, Awaited, Waiting, Carried
    <2>5. QED
      BY <2>2, <2>3, <2>4 DEF IInv
  <1>4. CASE vaultTabId # None
    <2>1. PICK d : d = ask[a].domain
      OBVIOUS
    <2>2. d \in Domains
      BY <1>1, <2>1 DEF Request, TypeOK, NoAsk, Ask
    <2>3. PICK q, k : /\ q = [ask[a] EXCEPT !.step = "waiting"]
                      /\ k = [step |-> "get", tab |-> vaultTabId, domain |-> d]
      OBVIOUS
    <2>4. /\ q \in Ask /\ q.step = "waiting" /\ q.domain = d
          /\ k \in Chain /\ k.step = "get" /\ k.domain = d /\ k.tab \in Tabs
          /\ d # None /\ k.tab # None
      BY <1>1, <1>4, <2>1, <2>2, <2>3, Types, ExtensionAssumption DEF Ask, Chain, TypeOK
    <2>5. /\ ask' \in [Asks -> Ask] /\ chain' \in [Asks -> Chain]
          /\ ask'[a] = q /\ chain'[a] = k
          /\ \A b \in Asks : b # a => ask'[b] = ask[b] /\ chain'[b] = chain[b]
      BY <1>1, <1>4, <2>1, <2>3, <2>4 DEF Request, TypeOK
    <2>6. TypeOK'
      BY <1>1, <1>2, <2>4, <2>5 DEF TypeOK
    <2>7. SentIsFresh'
      BY <1>1, <2>4, <2>5 DEF SentIsFresh
    <2>8. ASSUME NEW e \in Domains PROVE Remembered(e)'
      <3>1. CASE e = d
        BY <2>4, <2>5, <3>1 DEF Remembered, Carried
      <3>2. CASE e # d
        BY <1>1, <1>2, <2>4, <2>5, <3>2 DEF IInv, Remembered, Awaited, Waiting, Carried
      <3>3. QED
        BY <3>1, <3>2
    <2>9. QED
      BY <2>6, <2>7, <2>8 DEF IInv
  <1>5. QED
    BY <1>3, <1>4

LEMMA GiveUpStep ==
  ASSUME IInv, NEW a \in Asks, GiveUp(a)
  PROVE  IInv'
  <1>1. TypeOK /\ SentIsFresh
    BY DEF IInv
  <1>2. /\ ask' \in [Asks -> Ask] /\ ask'[a] = NoAsk
        /\ \A b \in Asks : b # a => ask'[b] = ask[b]
        /\ UNCHANGED <<vaultTabId, chain, tab, ready, removed, dropped>>
    BY <1>1, Types DEF GiveUp, page, TypeOK
  <1>3. TypeOK'
    BY <1>1, <1>2, Types DEF TypeOK
  <1>4. SentIsFresh'
    BY <1>1, <1>2, Types DEF SentIsFresh
  <1>5. ASSUME NEW e \in Domains PROVE Remembered(e)'
    BY <1>1, <1>2, Types DEF IInv, Remembered, Awaited, Waiting, Carried
  <1>6. QED
    BY <1>3, <1>4, <1>5 DEF IInv

(***************************************************************************)
(* An answer for a domain: nobody waits for it any more, and the chain     *)
(* that brought it is over.                                                *)
(***************************************************************************)
LEMMA FulfilStep ==
  ASSUME IInv, NEW a \in Asks, chain[a].step # "idle", Fulfil(chain[a].domain),
         chain' = [chain EXCEPT ![a] = NoChain],
         vaultTabId' \in Tabs \cup {None}, UNCHANGED <<tab, ready, removed>>
  PROVE  IInv'
  <1>1. TypeOK /\ SentIsFresh
    BY DEF IInv
  <1>2. PICK d \in Domains : d = chain[a].domain
    BY <1>1, Types DEF TypeOK
  <1>3. /\ ask' \in [Asks -> Ask]
        /\ \A b \in Asks : ask'[b] = IF Waiting(b, d) THEN NoAsk ELSE ask[b]
        /\ dropped' = dropped \ {d}
    BY <1>1, <1>2, Types DEF Fulfil
  <1>4. /\ chain' \in [Asks -> Chain] /\ chain'[a] = NoChain
        /\ \A b \in Asks : b # a => chain'[b] = chain[b]
    BY <1>1, Types DEF TypeOK
  <1>5. TypeOK'
    BY <1>1, <1>3, <1>4, Types DEF TypeOK
  <1>6. SentIsFresh'
    BY <1>1, <1>3, <1>4, Types DEF SentIsFresh
  <1>7. ASSUME NEW e \in Domains PROVE Remembered(e)'
    <2>1. CASE e = d
      BY <1>1, <1>3, <2>1, Types DEF Remembered, Awaited, Waiting
    <2>2. CASE e # d
      <3>1. Awaited(e)' => Awaited(e)
        BY <1>1, <1>3, Types DEF Awaited, Waiting
      <3>2. Carried(e) => Carried(e)'
        BY <1>2, <1>4, <2>2 DEF Carried
      <3>3. QED
        BY <1>3, <2>2, <3>1, <3>2 DEF IInv, Remembered
    <2>3. QED
      BY <2>1, <2>2
  <1>8. QED
    BY <1>5, <1>6, <1>7 DEF IInv

LEMMA RestartStep ==
  ASSUME IInv, Restart
  PROVE  IInv'
  <1>1. TypeOK /\ SentIsFresh
    BY DEF IInv
  <1>2. /\ ask' \in [Asks -> Ask] /\ vaultTabId' = None /\ dropped' = {}
        /\ \A b \in Asks : ask'[b] = IF ask[b].step = "waiting" THEN NoAsk ELSE ask[b]
        /\ UNCHANGED <<chain, tab, ready, removed>>
    BY <1>1, Types DEF Restart, page, TypeOK
  <1>3. TypeOK'
    BY <1>1, <1>2, Types DEF TypeOK
  <1>4. SentIsFresh'
    BY <1>1, <1>2, Types DEF SentIsFresh
  <1>5. ASSUME NEW e \in Domains PROVE Remembered(e)'
    BY <1>1, <1>2, Types DEF Remembered, Awaited, Waiting
  <1>6. QED
    BY <1>3, <1>4, <1>5 DEF IInv

(***************************************************************************)
(* A chain goes on: it stays one of its domain.                            *)
(***************************************************************************)
LEMMA MoveOnStep ==
  ASSUME IInv, NEW a \in Asks, chain[a].step # "idle",
         NEW s \in {"get", "posted", "list", "forward"},
         chain' = [chain EXCEPT ![a].step = s],
         UNCHANGED <<vaultTabId, ask, tab, ready, removed, dropped>>
  PROVE  IInv'
  <1>1. TypeOK /\ SentIsFresh
    BY DEF IInv
  <1>2. PICK k : k = [chain[a] EXCEPT !.step = s]
    OBVIOUS
  <1>3. /\ k \in Chain /\ k.step # "idle" /\ k.domain = chain[a].domain /\ k.tab = chain[a].tab
    BY <1>1, <1>2, Types DEF Chain
  <1>4. /\ chain' \in [Asks -> Chain] /\ chain'[a] = k
        /\ \A b \in Asks : b # a => chain'[b] = chain[b]
    BY <1>1, <1>2, <1>3 DEF TypeOK
  <1>5. TypeOK'
    BY <1>1, <1>3, <1>4 DEF TypeOK
  <1>6. SentIsFresh'
    BY <1>1, <1>4 DEF SentIsFresh
  <1>7. ASSUME NEW e \in Domains PROVE Remembered(e)'
    <2>1. Carried(e) => Carried(e)'
      BY <1>3, <1>4 DEF Carried
    <2>2. Awaited(e)' => Awaited(e)
      BY DEF Awaited, Waiting
    <2>3. QED
      BY <2>1, <2>2 DEF IInv, Remembered
  <1>8. QED
    BY <1>5, <1>6, <1>7 DEF IInv

(***************************************************************************)
(* Chains are lost: what somebody waits for is written down as dropped.    *)
(***************************************************************************)
LEMMA KillsStep ==
  ASSUME IInv, NEW L \in SUBSET Asks, Kill(L), Lost(L),
         \A a \in L : chain[a].step # "idle",
         UNCHANGED <<vaultTabId, ask>>,
         tab' \in [Tabs -> Tab], ready' \subseteq Tabs, removed' \subseteq Tabs
  PROVE  IInv'
  <1>1. TypeOK /\ SentIsFresh
    BY DEF IInv
  <1>2. /\ chain' \in [Asks -> Chain]
        /\ \A b \in Asks : chain'[b] = IF b \in L THEN NoChain ELSE chain[b]
    BY <1>1, Types DEF Kill
  <1>3. dropped' = dropped \cup {d \in {chain[a].domain : a \in L} : Awaited(d)}
    BY DEF Lost
  <1>4. dropped' \subseteq Domains
    BY <1>1, <1>3, Types DEF TypeOK
  <1>5. TypeOK'
    BY <1>1, <1>2, <1>4, Types DEF TypeOK
  <1>6. SentIsFresh'
    BY <1>1, <1>2, Types DEF SentIsFresh
  <1>7. ASSUME NEW e \in Domains, Awaited(e)' PROVE e \in dropped' \/ Carried(e)'
    <2>1. Awaited(e)
      BY <1>7 DEF Awaited, Waiting
    <2>2. e \in dropped \/ Carried(e)
      BY <2>1 DEF IInv, Remembered
    <2>3. CASE e \in dropped
      BY <1>3, <2>3
    <2>4. ASSUME NEW a \in Asks, chain[a].step # "idle", chain[a].domain = e
          PROVE  e \in dropped' \/ Carried(e)'
      <3>1. CASE a \in L
        BY <1>3, <2>1, <2>4, <3>1
      <3>2. CASE a \notin L
        BY <1>2, <2>4, <3>2 DEF Carried
      <3>3. QED
        BY <3>1, <3>2
    <2>5. QED
      BY <2>2, <2>3, <2>4 DEF Carried
  <1>8. QED
    BY <1>5, <1>6, <1>7 DEF IInv, Remembered

LEMMA HandleMessageStep ==
  ASSUME IInv, NEW a \in Asks, HandleMessage(a)
  PROVE  IInv'
  <1>1. UNCHANGED <<vaultTabId, ask, tab, ready, removed>> /\ chain[a].step = "posted"
    BY DEF HandleMessage, worker, page
  <1>2. CASE tab[chain[a].tab].bridge
    <2>1. PICK s \in {"get", "posted", "list", "forward"} :
            chain' = [chain EXCEPT ![a].step = s] /\ UNCHANGED dropped
      <3>1. PICK s : s = IF tab[chain[a].tab].session THEN "list" ELSE "forward"
        OBVIOUS
      <3>2. s \in {"get", "posted", "list", "forward"}
        BY <3>1
      <3>3. QED
        BY <1>2, <3>1, <3>2 DEF HandleMessage
    <2>2. QED
      BY <1>1, <2>1, MoveOnStep
  <1>3. CASE ~tab[chain[a].tab].bridge
    <2>1. PICK L \in SUBSET Asks : L = {a}
      OBVIOUS
    <2>2. Kill(L) /\ Lost(L) /\ \A b \in L : chain[b].step # "idle"
      BY <1>1, <1>3, <2>1 DEF HandleMessage
    <2>3. tab' \in [Tabs -> Tab] /\ ready' \subseteq Tabs /\ removed' \subseteq Tabs
      BY <1>1 DEF IInv, TypeOK
    <2>4. QED
      BY <1>1, <2>2, <2>3, KillsStep
  <1>4. QED
    BY <1>2, <1>3

(***************************************************************************)
(* Steps of the tabs that touch neither questions nor chains.              *)
(***************************************************************************)
LEMMA ElsewhereStep ==
  ASSUME IInv, UNCHANGED <<ask, chain, dropped>>,
         vaultTabId' \in Tabs \cup {None},
         tab' \in [Tabs -> Tab], ready' \subseteq Tabs, removed' \subseteq Tabs
  PROVE  IInv'
  <1>1. TypeOK'
    BY DEF IInv, TypeOK
  <1>2. SentIsFresh'
    BY DEF IInv, SentIsFresh
  <1>3. ASSUME NEW e \in Domains PROVE Remembered(e)'
    BY DEF IInv, Remembered, Awaited, Waiting, Carried
  <1>4. QED
    BY <1>1, <1>2, <1>3 DEF IInv

LEMMA TabStep ==
  ASSUME IInv, NEW t \in Tabs,
         Register(t) \/ OnRemoved(t) \/ LogIn(t) \/ EndSession(t) \/ Unmount(t)
  PROVE  IInv'
  <1>1. TypeOK /\ tab[t] \in Tab
    BY DEF IInv, TypeOK
  <1>2. /\ UNCHANGED <<ask, chain, dropped>>
        /\ vaultTabId' \in Tabs \cup {None}
        /\ ready' \subseteq Tabs /\ removed' \subseteq Tabs
    BY <1>1 DEF TypeOK, Register, OnRemoved, LogIn, EndSession, Unmount, worker
  <1>3. tab' \in [Tabs -> Tab]
    <2>1. /\ [tab[t] EXCEPT !.session = TRUE, !.bridge = TRUE] \in Tab
          /\ [tab[t] EXCEPT !.session = FALSE] \in Tab
          /\ [tab[t] EXCEPT !.bridge = FALSE] \in Tab
      BY <1>1 DEF Tab
    <2>2. CASE Register(t) \/ OnRemoved(t)
      BY <1>1, <2>2 DEF TypeOK, Register, OnRemoved
    <2>3. CASE LogIn(t)
      BY <1>1, <2>1, <2>3 DEF TypeOK, LogIn
    <2>4. CASE EndSession(t)
      BY <1>1, <2>1, <2>4 DEF TypeOK, EndSession
    <2>5. CASE Unmount(t)
      BY <1>1, <2>1, <2>5 DEF TypeOK, Unmount
    <2>6. QED
      BY <2>2, <2>3, <2>4, <2>5
  <1>4. QED
    BY <1>2, <1>3, ElsewhereStep

LEMMA UnloadStep ==
  ASSUME IInv, NEW t \in Tabs, Unload(t)
  PROVE  IInv'
  <1>1. TypeOK
    BY DEF IInv
  <1>2. PICK open \in BOOLEAN :
          /\ tab' = [tab EXCEPT ![t] = [open |-> open, session |-> FALSE, bridge |-> FALSE]]
          /\ removed' = IF open THEN removed ELSE removed \cup {t}
    BY DEF Unload
  <1>3. /\ UNCHANGED <<vaultTabId, ask>> /\ tab' \in [Tabs -> Tab]
        /\ ready' \subseteq Tabs /\ removed' \subseteq Tabs
    BY <1>1, <1>2 DEF Unload, worker, TypeOK, Tab
  <1>4. PICK L \in SUBSET Asks : L = Inside(t)
    BY DEF Inside
  <1>5. Kill(L) /\ Lost(L) /\ \A a \in L : chain[a].step # "idle"
    BY <1>4 DEF Unload, Inside
  <1>6. QED
    BY <1>3, <1>5, KillsStep

LEMMA NextInv == IInv /\ [Next]_vars => IInv'
  <1> SUFFICES ASSUME IInv, [Next]_vars PROVE IInv'
    OBVIOUS
  <1>1. ASSUME NEW a \in Asks, Question(a) \/ GiveUp(a) \/ Request(a) PROVE IInv'
    BY <1>1, QuestionStep, GiveUpStep, RequestStep
  <1>2. ASSUME NEW a \in Asks, Unresponsive(a) \/ Forward(a) PROVE IInv'
    <2>1. /\ chain[a].step # "idle" /\ Fulfil(chain[a].domain)
          /\ chain' = [chain EXCEPT ![a] = NoChain]
          /\ vaultTabId' \in Tabs \cup {None} /\ UNCHANGED <<tab, ready, removed>>
      BY <1>2 DEF Unresponsive, Forward, page, IInv, TypeOK
    <2>2. QED
      BY <2>1, FulfilStep
  <1>3. ASSUME NEW a \in Asks, Acknowledge(a) \/ Respond(a) PROVE IInv'
    <2>1. PICK s \in {"posted", "forward"} : chain' = [chain EXCEPT ![a].step = s]
      BY <1>3 DEF Acknowledge, Respond
    <2>2. /\ chain[a].step # "idle" /\ s \in {"get", "posted", "list", "forward"}
          /\ UNCHANGED <<vaultTabId, ask, tab, ready, removed, dropped>>
      BY <1>3 DEF Acknowledge, Respond, worker, page
    <2>3. QED
      BY <2>1, <2>2, MoveOnStep
  <1>4. ASSUME NEW a \in Asks, HandleMessage(a) PROVE IInv'
    BY <1>4, HandleMessageStep
  <1>5. ASSUME NEW t \in Tabs,
               \/ Register(t) \/ OnRemoved(t) \/ LogIn(t) \/ EndSession(t) \/ Unmount(t)
               \/ Unload(t)
        PROVE  IInv'
    BY <1>5, TabStep, UnloadStep
  <1>6. CASE UNCHANGED vars
    BY <1>6, ElsewhereStep DEF vars, IInv, TypeOK
  <1>7. QED
    BY <1>1, <1>2, <1>3, <1>4, <1>5, <1>6, RestartStep DEF Next

LEMMA Invariance == Spec => []IInv
  BY InitInv, NextInv, PTL DEF Spec

(***************************************************************************)
(* The invariant gives every variable its type.                            *)
(***************************************************************************)
THEOREM ExtensionTypeCorrect == Spec => []TypeOK
  <1>1. IInv => TypeOK
    BY DEF IInv
  <1>2. QED
    BY <1>1, Invariance, PTL

(***************************************************************************)
(* Of however many questions of however many domains, none waits for an    *)
(* answer that is not under way, unless the vault tab was left with it.    *)
(***************************************************************************)
THEOREM NobodyForgotten == Spec => []NobodyIsForgotten
  <1>1. IInv => NobodyIsForgotten
    BY Unforgotten DEF IInv
  <1>2. QED
    BY <1>1, Invariance, PTL

-----------------------------------------------------------------------------
(***************************************************************************)
(* VaultScreen.  What is claimed of the list is claimed once the handlers  *)
(* are done; while they wait, the list, the vault and each handler have to *)
(* be consistent with each other.                                          *)
(*                                                                         *)
(* Lists of rows.  What a handler does to the list is what the API did to  *)
(* the vault, if the list was the vault's: the same rows, each id once.    *)
(***************************************************************************)
Ids(rows) == {r.id : r \in rows}
Others(rows, id) == {r \in rows : r.id # id}
Distinct(list) == \A m, n \in DOMAIN list : list[m].id = list[n].id => m = n
UniqueIds(rows) == \A r, s \in rows : r.id = s.id => r = s
Same(list, rows) == ToSet(list) = rows /\ Distinct(list)

Replaced(list, row) == [i \in DOMAIN list |-> IF list[i].id = row.id THEN row ELSE list[i]]

LEMMA Lists ==
  ASSUME NEW R, NEW list \in Seq(R)
  PROVE  /\ Len(list) \in Nat /\ DOMAIN list = 1 .. Len(list)
         /\ list \in [1 .. Len(list) -> R]
         /\ ToSet(list) = {list[n] : n \in 1 .. Len(list)}
         /\ ToSet(list) \subseteq R
  BY LenProperties DEF ToSet

LEMMA IsList ==
  ASSUME NEW R, NEW n \in Nat, NEW f \in [1 .. n -> R]
  PROVE  f \in Seq(R) /\ Len(f) = n /\ DOMAIN f = 1 .. n
  <1>1. f \in Seq(R)
    BY SeqDef
  <1>2. QED
    BY <1>1, LenProperties

LEMMA FiniteList ==
  ASSUME NEW S, IsFiniteSet(S)
  PROVE  /\ SetToSeq(S) \in Seq(S) /\ ToSet(SetToSeq(S)) = S
         /\ IsInjective(SetToSeq(S))
         /\ Len(SetToSeq(S)) = Cardinality(S)
  <1> DEFINE n == Cardinality(S)
             f == SetToSeq(S)
  <1>1. n \in Nat /\ ExistsBijection(1 .. n, S)
    BY FS_CardinalityType
  <1>2. \E g \in [1 .. n -> S] : IsInjective(g)
    BY <1>1 DEF ExistsBijection, Bijection, Injection
  <1>3. f \in [1 .. n -> S] /\ IsInjective(f)
    BY <1>2 DEF SetToSeq
  <1>4. f \in Injection(1 .. n, S)
    BY <1>3 DEF Injection
  <1>5. IsFiniteSet(1 .. n) /\ Cardinality(1 .. n) = n
    BY <1>1, FS_Interval
  <1>6. f \in Surjection(1 .. n, S)
    BY <1>4, <1>5, FS_Injection
  <1>7. f \in Seq(S) /\ Len(f) = n /\ DOMAIN f = 1 .. n
    BY <1>1, <1>3, IsList
  <1>8. ToSet(f) = S
    BY <1>3, <1>6, <1>7 DEF ToSet, Surjection
  <1>9. QED
    BY <1>3, <1>7, <1>8

LEMMA SameLen ==
  ASSUME NEW R, NEW list \in Seq(R), NEW S, Same(list, S)
  PROVE  Len(list) = Cardinality(S)
  <1>1. Len(list) \in Nat /\ list \in [1 .. Len(list) -> S] /\ DOMAIN list = 1 .. Len(list)
    BY Lists DEF Same
  <1>2. list \in Bijection(1 .. Len(list), S)
    BY <1>1, Lists DEF Same, Distinct, Bijection, Injection, Surjection, IsInjective
  <1>3. QED
    BY <1>1, <1>2, FS_CountingElements DEF ExistsBijection

LEMMA SameOfSet ==
  ASSUME NEW S, IsFiniteSet(S), UniqueIds(S)
  PROVE  Same(SetToSeq(S), S)
  BY FiniteList, Lists DEF Same, Distinct, UniqueIds, IsInjective

LEMMA Added ==
  ASSUME NEW R, NEW list \in Seq(R), NEW row \in R
  PROVE  /\ <<row>> \o list \in Seq(R)
         /\ ToSet(<<row>> \o list) = ToSet(list) \cup {row}
         /\ Distinct(list) /\ row.id \notin Ids(ToSet(list)) => Distinct(<<row>> \o list)
  <1> DEFINE new == <<row>> \o list
  <1>1. <<row>> \in Seq(R) /\ Len(<<row>>) = 1 /\ <<row>>[1] = row
    OBVIOUS
  <1>2. /\ new \in Seq(R) /\ Len(new) = 1 + Len(list)
        /\ \A i \in 1 .. 1 + Len(list) :
             new[i] = IF i <= 1 THEN <<row>>[i] ELSE list[i - 1]
    BY <1>1, ConcatProperties
  <1> HIDE DEF new
  <1>3. /\ Len(list) \in Nat /\ DOMAIN list = 1 .. Len(list) /\ DOMAIN new = 1 .. 1 + Len(list)
        /\ ToSet(list) = {list[n] : n \in 1 .. Len(list)}
        /\ ToSet(new) = {new[n] : n \in 1 .. 1 + Len(list)}
    BY <1>2, Lists
  <1>4. new[1] = row /\ \A i \in 1 .. Len(list) : new[i + 1] = list[i]
    BY <1>1, <1>2, <1>3
  <1>5. \A i \in 1 .. 1 + Len(list) : i = 1 \/ (i - 1 \in 1 .. Len(list) /\ new[i] = list[i - 1])
    BY <1>2, <1>3
  <1>6. \A i \in 1 .. Len(list) : i + 1 \in 1 .. 1 + Len(list)
    BY <1>3
  <1>7. ToSet(new) = ToSet(list) \cup {row}
    <2>1. ASSUME NEW r \in ToSet(new) PROVE r \in ToSet(list) \cup {row}
      BY <1>3, <1>4, <1>5
    <2>2. row \in ToSet(new)
      BY <1>3, <1>4
    <2>3. ASSUME NEW r \in ToSet(list) PROVE r \in ToSet(new)
      BY <1>3, <1>4, <1>6
    <2>4. QED
      BY <2>1, <2>2, <2>3
  <1>8. ASSUME Distinct(list), row.id \notin Ids(ToSet(list)) PROVE Distinct(new)
    <2> SUFFICES ASSUME NEW m \in 1 .. 1 + Len(list), NEW n \in 1 .. 1 + Len(list),
                        new[m].id = new[n].id
                 PROVE  m = n
      BY <1>3 DEF Distinct
    <2>1. \A i \in 1 .. Len(list) : list[i].id # row.id
      BY <1>3, <1>8 DEF Ids
    <2>2. m # 1 /\ n # 1 => m - 1 = n - 1
      BY <1>3, <1>5, <1>8 DEF Distinct
    <2>3. QED
      BY <1>3, <1>4, <1>5, <2>1, <2>2
  <1>9. QED
    BY <1>2, <1>7, <1>8 DEF new

LEMMA Edited ==
  ASSUME NEW R, NEW list \in Seq(R), NEW row \in R
  PROVE  /\ Replaced(list, row) \in Seq(R)
         /\ Distinct(list) => Distinct(Replaced(list, row))
         /\ row.id \in Ids(ToSet(list)) =>
              ToSet(Replaced(list, row)) = Others(ToSet(list), row.id) \cup {row}
         /\ (\A r \in ToSet(list) : r.id = row.id => r = row) => Replaced(list, row) = list
  <1> DEFINE new == Replaced(list, row)
  <1>1. /\ Len(list) \in Nat /\ DOMAIN list = 1 .. Len(list) /\ list \in [1 .. Len(list) -> R]
        /\ ToSet(list) = {list[n] : n \in 1 .. Len(list)}
    BY Lists
  <1>2. new = [i \in 1 .. Len(list) |-> IF list[i].id = row.id THEN row ELSE list[i]]
    BY <1>1 DEF Replaced
  <1> HIDE DEF new
  <1>3. new \in Seq(R) /\ DOMAIN new = 1 .. Len(list)
    BY <1>1, <1>2, IsList
  <1>4. ToSet(new) = {new[n] : n \in 1 .. Len(list)}
    BY <1>3 DEF ToSet
  <1>5. \A i \in 1 .. Len(list) : new[i] = IF list[i].id = row.id THEN row ELSE list[i]
    BY <1>2
  <1>6. Distinct(list) => Distinct(new)
    BY <1>1, <1>3, <1>5 DEF Distinct
  <1>7. row.id \in Ids(ToSet(list)) =>
          ToSet(new) = Others(ToSet(list), row.id) \cup {row}
    BY <1>1, <1>4, <1>5 DEF Ids, Others
  <1>8. (\A r \in ToSet(list) : r.id = row.id => r = row) => new = list
    BY <1>1, <1>2
  <1>9. QED
    BY <1>3, <1>6, <1>7, <1>8 DEF new

LEMMA Deleted ==
  ASSUME NEW R, NEW list \in Seq(R), NEW id
  PROVE  /\ Without(list, id) \in Seq(R)
         /\ Distinct(list) => Distinct(Without(list, id))
         /\ ToSet(Without(list, id)) = Others(ToSet(list), id)
  <1> DEFINE K == {i \in DOMAIN list : list[i].id # id}
             kept == SetToSeq(K)
             new == Without(list, id)
  <1>1. /\ Len(list) \in Nat /\ DOMAIN list = 1 .. Len(list) /\ list \in [1 .. Len(list) -> R]
        /\ ToSet(list) = {list[n] : n \in 1 .. Len(list)}
    BY Lists
  <1>2. IsFiniteSet(K)
    <2>1. IsFiniteSet(1 .. Len(list))
      BY <1>1, FS_Interval
    <2>2. K \in SUBSET (1 .. Len(list))
      BY <1>1
    <2>3. QED
      BY <2>1, <2>2, FS_Subset
  <1>3. /\ kept \in Seq(K) /\ ToSet(kept) = K /\ IsInjective(kept)
        /\ Len(kept) \in Nat /\ DOMAIN kept = 1 .. Len(kept) /\ kept \in [1 .. Len(kept) -> K]
    BY <1>2, FiniteList, Lists
  <1>4. new = [n \in 1 .. Len(kept) |-> list[kept[n]]]
    BY <1>3 DEF Without
  <1> HIDE DEF new, kept
  <1>5. new \in [1 .. Len(kept) -> R]
    BY <1>1, <1>3, <1>4
  <1>6. new \in Seq(R) /\ DOMAIN new = 1 .. Len(kept)
    BY <1>3, <1>5, IsList
  <1>7. ToSet(new) = {list[i] : i \in K}
    BY <1>3, <1>4, <1>6 DEF ToSet
  <1>8. Distinct(list) => Distinct(new)
    <2> SUFFICES ASSUME Distinct(list), NEW m \in 1 .. Len(kept), NEW n \in 1 .. Len(kept),
                        new[m].id = new[n].id
                 PROVE  m = n
      BY <1>6 DEF Distinct
    <2>1. kept[m] \in DOMAIN list /\ kept[n] \in DOMAIN list
      BY <1>3
    <2>2. list[kept[m]].id = list[kept[n]].id
      BY <1>4
    <2>3. kept[m] = kept[n]
      BY <2>1, <2>2 DEF Distinct
    <2>4. QED
      BY <1>3, <2>3 DEF IsInjective
  <1>9. QED
    BY <1>1, <1>6, <1>7, <1>8 DEF new, Others

-----------------------------------------------------------------------------
(***************************************************************************)
(* The inductive invariant of VaultScreen.                                 *)
(***************************************************************************)
KnownRows(ids) == {r \in Row : r.id \in ids}

Aside == Decryptions \cup {"idle", "get"}
Writers == Mutations \cup {"load"}
Kinds == Requests \cup Decryptions \cup {"idle", "analysis"}
Draft == [id : Items \cup {Null}, password : Passwords \cup {Null}]
Job == [kind : Kinds, step : {"idle", "sent", "answered"}, live : BOOLEAN,
        row : Draft, list : Seq(Row)]

JobOK(w, ids) ==
  /\ w \in Job /\ w.list \in Seq(KnownRows(ids))
  /\ w.kind = "idle" \/ w.step = "idle" => w = NoJob
  /\ w.live \/ w = NoJob \/ (w.kind \in Mutations /\ w.step = "sent")
  /\ w.kind \in {"edit", "retitle", "delete", "get"} \cup Decryptions => w.row \in KnownRows(ids)
  /\ w.kind = "add" /\ w.step = "answered" => w.row \in KnownRows(ids)

VaultOK ==
  /\ screen \in {"credentials", "documents"} /\ used \subseteq Items
  /\ server \subseteq KnownRows(used) /\ IsFiniteSet(server) /\ UniqueIds(server)

PageOK ==
  /\ mounted \in BOOLEAN /\ items \in Seq(KnownRows(used))
  /\ DOMAIN badges \subseteq Items
  /\ \A id \in DOMAIN badges : badges[id] \in {"REUSED", "WEAK", "OK"}
  /\ crossed \subseteq {"list", "badges", "secret"}

DialogOK ==
  /\ dialog \in Dialog /\ dialog.item \in KnownRows(used) \cup {NoRow}
  /\ dialog.kind \in {"edit", "delete"} => dialog.item # NoRow
  /\ screen = "documents" => dialog.kind \in {"none", "delete"}

JobsOK ==
  /\ job \in [Jobs -> Job]
  /\ \A j \in Jobs : JobOK(job[j], used)
  /\ screen = "documents" => \A j \in Jobs : job[j].kind \in {"idle", "load", "add", "delete"}

Gone == ~mounted => items = <<>> /\ dialog = NoDialog /\ \A j \in Jobs : ~job[j].live

TypeInv == VaultOK /\ PageOK /\ DialogOK /\ JobsOK /\ Gone

Clean == mounted /\ "list" \notin crossed

Writing(w) == w.live /\ w.kind \in Writers

LiveInv == Clean => \A j \in Jobs : job[j].live \/ job[j] = NoJob

LoadInv ==
  Clean => \A i, j \in Jobs : job[i].kind = "load" /\ Writing(job[j]) => i = j

(* What the page shows once the handler w has landed on the list.           *)
Outcome(w, list) ==
  CASE w.kind = "load" -> w.list
    [] w.kind = "add" -> <<w.row>> \o list
    [] w.kind \in {"edit", "retitle"} -> Replaced(list, w.row)
    [] w.kind = "delete" -> Without(list, w.row.id)

Consistent(w, list, rows) ==
  /\ w.step = "answered" => Same(Outcome(w, list), rows)
  /\ w.kind \in Mutations => w.list = list /\ (w.step = "sent" => Same(list, rows))
  /\ w.kind = "retitle" /\ w.step = "answered" => Outcome(w, list) = list

CredentialsInv ==
  Clean /\ screen = "credentials" =>
    /\ \A i, j \in Jobs : Writing(job[i]) /\ Writing(job[j]) => i = j
    /\ (\A j \in Jobs : ~Writing(job[j])) => Same(items, server)
    /\ \A j \in Jobs : Writing(job[j]) => Consistent(job[j], items, server)

Done(kind) == {j \in Jobs : job[j].kind = kind /\ job[j].step = "answered"}
AddedRows == {job[j].row : j \in Done("add")}
RemovedIds == {job[j].row.id : j \in Done("delete")}

Settled ==
  /\ {r \in ToSet(items) : r.id \notin RemovedIds} \cup AddedRows = server
  /\ Distinct(items)
  /\ \A j \in Done("add") : job[j].row.id \notin Ids(ToSet(items))
  /\ \A i, j \in Done("add") : job[i].row.id = job[j].row.id => i = j
  /\ Ids(server) \cap RemovedIds = {}
  /\ \A j \in Done("add") : /\ dialog.item.id # job[j].row.id
                            /\ \A i \in Jobs : job[i].kind = "delete" =>
                                 job[i].row.id # job[j].row.id

DocumentsInv ==
  Clean /\ screen = "documents" =>
    \/ \E j \in Jobs : job[j].kind = "load" /\ (job[j].step = "answered" => Same(job[j].list, server))
    \/ Settled /\ \A j \in Jobs : job[j].kind # "load"

BadgesInv ==
  Clean /\ screen = "credentials" /\ "badges" \notin crossed /\ (\A j \in Jobs : job[j].kind # "load") =>
    /\ \A j \in Jobs : job[j].kind = "analysis" => job[j].list = items
    /\ (\A j \in Jobs : job[j].kind # "analysis") => badges = Analyze(items)

SecretInv ==
  "secret" \notin crossed =>
    /\ dialog.secret # Null => dialog.secret = dialog.item.password
    /\ dialog.kind = "edit" =>
         \A j \in Jobs : job[j].kind = "existing" => job[j].row = dialog.item
    /\ dialog.kind = "view" =>
         /\ \A j \in Jobs : job[j].kind = "reveal" => job[j].row = dialog.item
         /\ \A i, j \in Jobs : job[i].kind = "get" /\ job[j].kind = "get" => i = j
         /\ \A j \in Jobs : job[j].kind = "get" => dialog.item = NoRow /\ dialog.secret = Null
    /\ dialog.kind \notin {"view", "edit"} => dialog.secret = Null

ListInv == LiveInv /\ LoadInv /\ CredentialsInv /\ DocumentsInv /\ BadgesInv

-----------------------------------------------------------------------------
(***************************************************************************)
(* Types.                                                                  *)
(***************************************************************************)
LEMMA ScreenTypes ==
  /\ NoRow \in Draft /\ NoRow \notin Row /\ Row \subseteq Draft
  /\ NoRow.id = Null /\ \A r \in Row : r.id # Null
  /\ NoJob \in Job /\ NoJob.kind = "idle" /\ NoJob.step = "idle" /\ ~NoJob.live
  /\ \A kind \in {"none", "add", "view", "edit", "delete"}, r \in Row \cup {NoRow} :
       /\ Opened(kind, r) \in Dialog /\ Opened(kind, r).kind = kind
       /\ Opened(kind, r).item = r /\ Opened(kind, r).secret = Null
  <1>1. /\ NoRow \in Draft /\ NoRow \notin Row /\ Row \subseteq Draft
        /\ NoRow.id = Null /\ \A r \in Row : r.id # Null
    BY ScreenAssumption DEF NoRow, Row, Draft
  <1>2. <<>> \in Seq(Row)
    BY EmptySeq
  <1>3. NoJob \in Job /\ NoJob.kind = "idle" /\ NoJob.step = "idle" /\ ~NoJob.live
    BY <1>1, <1>2 DEF NoJob, Job, Kinds
  <1>4. QED
    BY <1>1, <1>3 DEF Opened, Dialog

LEMMA Idle == \A ids : JobOK(NoJob, ids)
  BY ScreenTypes, EmptySeq DEF JobOK, NoJob, Decryptions

LEMMA KnownGrows ==
  ASSUME NEW ids, NEW more, ids \subseteq more
  PROVE  /\ KnownRows(ids) \subseteq KnownRows(more)
         /\ \A s \in Seq(KnownRows(ids)) : s \in Seq(KnownRows(more))
         /\ \A w : JobOK(w, ids) => JobOK(w, more)
  <1>1. KnownRows(ids) \subseteq KnownRows(more)
    BY DEF KnownRows
  <1>2. \A s \in Seq(KnownRows(ids)) : s \in Seq(KnownRows(more))
    BY <1>1, SeqMonotonic
  <1>3. QED
    BY <1>1, <1>2 DEF JobOK

LEMMA KnownLists ==
  ASSUME NEW ids, NEW list \in Seq(KnownRows(ids))
  PROVE  list \in Seq(Row) /\ ToSet(list) \subseteq KnownRows(ids)
  BY SeqMonotonic, Lists DEF KnownRows

LEMMA Waits ==
  ASSUME TypeInv, NEW j \in Jobs
  PROVE  /\ job[j] \in Job /\ JobOK(job[j], used)
         /\ job[j].kind \in Kinds /\ job[j].step \in {"idle", "sent", "answered"}
         /\ job[j].live \in BOOLEAN /\ job[j].row \in Draft /\ job[j].list \in Seq(KnownRows(used))
  BY DEF TypeInv, JobsOK, JobOK, Job

LEMMA WaitsForARow ==
  ASSUME TypeInv, NEW j \in Jobs,
         job[j].kind \in {"edit", "retitle", "delete", "get", "reveal", "existing"}
  PROVE  job[j].row \in KnownRows(used) /\ job[j].row # NoRow
  <1>1. job[j].row \in KnownRows(used)
    BY Waits DEF JobOK, Decryptions
  <1>2. QED
    BY <1>1, ScreenTypes DEF KnownRows

LEMMA OneJob ==
  ASSUME NEW j \in Jobs, NEW w, job \in [Jobs -> Job], job' = [job EXCEPT ![j] = w]
  PROVE  job'[j] = w /\ \A i \in Jobs : i # j => job'[i] = job[i]
  OBVIOUS

LEMMA JobsStep ==
  ASSUME JobsOK, NEW j \in Jobs, NEW w, job' = [job EXCEPT ![j] = w],
         UNCHANGED screen, used \subseteq used', JobOK(w, used'),
         screen = "documents" => w.kind \in {"idle", "load", "add", "delete"}
  PROVE  JobsOK'
  <1>1. job' \in [Jobs -> Job]
    BY DEF JobsOK, JobOK
  <1>2. job'[j] = w /\ \A i \in Jobs : i # j => job'[i] = job[i]
    BY OneJob DEF JobsOK
  <1>3. \A i \in Jobs : JobOK(job[i], used')
    BY KnownGrows DEF JobsOK
  <1>4. QED
    BY <1>1, <1>2, <1>3 DEF JobsOK

LEMMA JobsKept ==
  ASSUME JobsOK, UNCHANGED <<job, screen>>, used \subseteq used'
  PROVE  JobsOK'
  BY KnownGrows DEF JobsOK

LEMMA NewJob ==
  ASSUME NEW kind \in Requests \cup Decryptions, NEW row \in Draft, NEW ids,
         NEW list \in Seq(KnownRows(ids)), kind \in {"load", "add"} \/ row \in KnownRows(ids)
  PROVE  JobOK([kind |-> kind, step |-> "sent", live |-> TRUE, row |-> row, list |-> list], ids)
  BY KnownLists DEF JobOK, Job, Kinds, Requests, Mutations, Decryptions

LEMMA NothingListed ==
  DOMAIN <<>> = {} /\ ToSet(<<>>) = {} /\ Distinct(<<>>) /\ \A R : <<>> \in Seq(R)
  <1>1. \A R : <<>> \in Seq(R)
    BY EmptySeq
  <1>2. DOMAIN <<>> = 1 .. 0
    BY <1>1, EmptySeq, LenProperties
  <1>3. QED
    BY <1>1, <1>2 DEF ToSet, Distinct

LEMMA ScreenInitInv == ScreenInit => TypeInv
  <1> SUFFICES ASSUME ScreenInit PROVE TypeInv
    OBVIOUS
  <1>1. VaultOK
    BY FS_EmptySet DEF ScreenInit, VaultOK, UniqueIds
  <1>2. PageOK
    BY NothingListed DEF ScreenInit, PageOK
  <1>3. DialogOK
    BY ScreenTypes DEF ScreenInit, DialogOK, NoDialog
  <1>4. JobsOK /\ \A j \in Jobs : ~job[j].live
    BY ScreenTypes, Idle DEF ScreenInit, JobsOK
  <1>5. QED
    BY <1>1, <1>2, <1>3, <1>4 DEF TypeInv, Gone, ScreenInit

(***************************************************************************)
(* What keeps the types when nothing but a dialog changes.                 *)
(***************************************************************************)
LEMMA DialogStep ==
  ASSUME TypeInv, UNCHANGED <<screen, server, used, mounted, items, badges>>,
         crossed' \subseteq {"list", "badges", "secret"},
         DialogOK', mounted \/ dialog' = NoDialog
  PROVE  VaultOK' /\ PageOK' /\ (JobsOK' /\ (mounted \/ UNCHANGED job) => TypeInv')
  <1>1. VaultOK'
    BY DEF TypeInv, VaultOK
  <1>2. PageOK'
    BY DEF TypeInv, PageOK
  <1>3. JobsOK' /\ (mounted \/ UNCHANGED job) => TypeInv'
    BY <1>1, <1>2 DEF TypeInv, Gone
  <1>4. QED
    BY <1>1, <1>2, <1>3

LEMMA CrossedStep ==
  ASSUME TypeInv
  PROVE  /\ crossed \subseteq {"list", "badges", "secret"}
         /\ \A flag \in {"list", "badges", "secret"}, spoilt \in BOOLEAN :
              Flagged(flag, spoilt) => crossed' \subseteq {"list", "badges", "secret"}
  BY DEF TypeInv, PageOK, Flagged

LEMMA Shown ==
  ASSUME TypeInv
  PROVE  /\ ToSet(items) \subseteq KnownRows(used)
         /\ KnownRows(used) \subseteq Row
         /\ dialog \in Dialog /\ dialog.item \in KnownRows(used) \cup {NoRow}
         /\ dialog.secret \in Passwords \cup {Null} /\ dialog.error \in BOOLEAN
         /\ dialog.kind \in {"none", "add", "view", "edit", "delete"}
         /\ mounted \/ dialog = NoDialog
         /\ NoDialog.kind = "none" /\ NoDialog.item = NoRow /\ NoDialog.secret = Null
  <1>1. KnownRows(used) \subseteq Row /\ ToSet(items) \subseteq KnownRows(used)
    BY KnownLists DEF TypeInv, PageOK, KnownRows
  <1>2. NoDialog.kind = "none" /\ NoDialog.item = NoRow /\ NoDialog.secret = Null
    BY ScreenTypes DEF NoDialog
  <1>3. QED
    BY <1>1, <1>2 DEF TypeInv, DialogOK, Dialog, Gone

LEMMA NoDialogOK == dialog' = NoDialog => DialogOK'
  BY ScreenTypes DEF DialogOK, NoDialog

LEMMA OpenTypes ==
  ASSUME TypeInv, NEW kind \in {"add", "edit", "delete"}, Open(kind) \/ OpenFromView(kind)
  PROVE  TypeInv'
  <1>1. /\ UNCHANGED <<screen, server, used, mounted, items, badges>> /\ UNCHANGED job
        /\ mounted /\ (kind = "delete" \/ screen = "credentials")
    BY Shown DEF Open, OpenFromView, Untouched, TypeInv, DialogOK, VaultOK
  <1>2. crossed' \subseteq {"list", "badges", "secret"}
    BY CrossedStep DEF Open, OpenFromView, Busy
  <1>3. PICK r \in KnownRows(used) \cup {NoRow} :
          dialog' = Opened(kind, r) /\ (kind \in {"edit", "delete"} => r # NoRow)
    <2>1. CASE Open(kind) /\ kind = "add"
      BY <2>1, Shown DEF Open
    <2>2. CASE Open(kind) /\ kind # "add"
      BY <2>2, Shown, ScreenTypes DEF Open
    <2>3. CASE OpenFromView(kind)
      BY <2>3, Shown DEF OpenFromView
    <2>4. QED
      BY <2>1, <2>2, <2>3
  <1>4. DialogOK'
    BY <1>1, <1>3, Shown, ScreenTypes DEF DialogOK
  <1>5. JobsOK'
    BY <1>1, JobsKept DEF TypeInv
  <1>6. mounted
    BY Shown DEF Open, OpenFromView
  <1>7. QED
    BY <1>1, <1>2, <1>4, <1>5, <1>6, DialogStep

LEMMA DismissTypes ==
  ASSUME TypeInv, Dismiss
  PROVE  TypeInv'
  <1>1. /\ UNCHANGED <<screen, server, used, mounted, items, badges>> /\ UNCHANGED <<job, crossed>>
        /\ dialog' = NoDialog
    BY DEF Dismiss, Untouched
  <1>2. JobsOK' /\ DialogOK' /\ crossed' \subseteq {"list", "badges", "secret"}
    BY <1>1, JobsKept, NoDialogOK, CrossedStep DEF TypeInv
  <1>3. QED
    BY <1>1, <1>2, DialogStep

LEMMA OpenViewTypes ==
  ASSUME TypeInv, NEW j \in Jobs, OpenView(j)
  PROVE  TypeInv'
  <1>1. /\ UNCHANGED <<screen, server, used, mounted, items, badges>>
        /\ mounted /\ screen = "credentials" /\ dialog' = Opened("view", NoRow)
    BY DEF OpenView, Untouched
  <1>2. PICK r \in ToSet(items) : Start(j, "get", r, <<>>)
    BY DEF OpenView
  <1>3. PICK w : w = [kind |-> "get", step |-> "sent", live |-> TRUE, row |-> r, list |-> <<>>]
    OBVIOUS
  <1>4. JobOK(w, used') /\ job' = [job EXCEPT ![j] = w]
    BY <1>1, <1>2, <1>3, Shown, NothingListed, ScreenTypes, NewJob DEF Start, Requests
  <1>5. JobsOK'
    BY <1>1, <1>4, JobsStep DEF TypeInv
  <1>6. DialogOK'
    BY <1>1, ScreenTypes, Shown DEF DialogOK
  <1>7. crossed' \subseteq {"list", "badges", "secret"}
    BY CrossedStep DEF OpenView, Busy
  <1>8. QED
    BY <1>1, <1>5, <1>6, <1>7, DialogStep

LEMMA RevealTypes ==
  ASSUME TypeInv, NEW j \in Jobs, Reveal(j) \/ RevealExisting(j)
  PROVE  TypeInv'
  <1>1. /\ UNCHANGED <<screen, server, used, mounted, items, badges>>
        /\ UNCHANGED <<dialog, crossed>>
        /\ dialog.kind \in {"view", "edit"} /\ dialog.item # NoRow
    BY DEF Reveal, RevealExisting, Untouched, TypeInv, DialogOK
  <1>2. mounted /\ screen = "credentials" /\ dialog.item \in KnownRows(used)
    BY <1>1, Shown DEF TypeInv, DialogOK, VaultOK
  <1>3. PICK kind \in Decryptions : Start(j, kind, dialog.item, <<>>)
    BY DEF Reveal, RevealExisting, Decryptions
  <1>4. PICK w : w = [kind |-> kind, step |-> "sent", live |-> TRUE, row |-> dialog.item,
                      list |-> <<>>]
    OBVIOUS
  <1>5. JobOK(w, used') /\ job' = [job EXCEPT ![j] = w]
    BY <1>1, <1>2, <1>3, <1>4, Shown, NothingListed, ScreenTypes, NewJob DEF Start
  <1>6. JobsOK'
    BY <1>1, <1>2, <1>5, JobsStep DEF TypeInv
  <1>7. DialogOK' /\ crossed' \subseteq {"list", "badges", "secret"}
    BY <1>1, CrossedStep DEF DialogOK, TypeInv
  <1>8. QED
    BY <1>1, <1>2, <1>6, <1>7, DialogStep

(* What the four submits have in common.                                    *)
Submitted(j, kind, row) ==
  /\ Submit(j, kind, row)
  /\ kind \in Mutations /\ row \in Draft /\ mounted
  /\ kind # "add" => row \in KnownRows(used)
  /\ kind = "delete" => row = dialog.item
  /\ screen = "documents" => kind \in {"add", "delete"}

Submission(j) == \E kind \in Mutations, row \in Draft : Submitted(j, kind, row)

LEMMA Submissions ==
  ASSUME TypeInv, NEW j \in Jobs, Add(j) \/ Upload(j) \/ Edit(j) \/ ConfirmDelete(j)
  PROVE  Submission(j)
  <1>1. CASE Add(j)
    <2>1. PICK p \in Passwords : Submit(j, "add", [id |-> Null, password |-> p])
      BY <1>1 DEF Add
    <2>2. [id |-> Null, password |-> p] \in Draft /\ mounted /\ screen # "documents"
      BY <1>1, Shown DEF Add, Draft
    <2>3. QED
      BY <2>1, <2>2 DEF Submission, Submitted, Mutations
  <1>2. CASE Upload(j)
    BY <1>2, ScreenTypes DEF Upload, Submission, Submitted, Mutations
  <1>3. CASE Edit(j)
    <2>1. dialog.item \in KnownRows(used) /\ mounted /\ screen # "documents"
      BY <1>3, Shown DEF Edit, TypeInv, DialogOK
    <2>2. \A p \in Passwords : [dialog.item EXCEPT !.password = p] \in KnownRows(used)
      BY <2>1 DEF KnownRows, Row
    <2>3. KnownRows(used) \subseteq Draft
      BY Shown, ScreenTypes
    <2>4. PICK kind \in {"edit", "retitle"}, row \in KnownRows(used) : Submit(j, kind, row)
      BY <1>3, <2>1, <2>2 DEF Edit
    <2>5. QED
      BY <2>1, <2>3, <2>4 DEF Submission, Submitted, Mutations
  <1>4. CASE ConfirmDelete(j)
    <2>1. dialog.item \in KnownRows(used) /\ mounted
      BY <1>4, Shown DEF ConfirmDelete, TypeInv, DialogOK
    <2>2. KnownRows(used) \subseteq Draft
      BY Shown, ScreenTypes
    <2>3. QED
      BY <1>4, <2>1, <2>2 DEF ConfirmDelete, Submission, Submitted, Mutations
  <1>5. QED
    BY <1>1, <1>2, <1>3, <1>4

LEMMA SubmitTypes ==
  ASSUME TypeInv, NEW j \in Jobs, NEW kind \in Mutations, NEW row \in Draft,
         Submitted(j, kind, row)
  PROVE  TypeInv'
  <1>1. /\ UNCHANGED <<screen, server, used, mounted, items, badges>> /\ UNCHANGED dialog
        /\ mounted /\ crossed' \subseteq {"list", "badges", "secret"}
    BY CrossedStep DEF Submitted, Submit, Untouched
  <1>2. PICK w : w = [kind |-> kind, step |-> "sent", live |-> TRUE, row |-> row,
                      list |-> IF screen = "credentials" THEN items ELSE <<>>]
    OBVIOUS
  <1>3. job' = [job EXCEPT ![j] = w]
    BY <1>2 DEF Submitted, Submit, Start
  <1>4. PICK list \in Seq(KnownRows(used)) :
          list = IF screen = "credentials" THEN items ELSE <<>>
    BY NothingListed DEF TypeInv, PageOK
  <1>5. JobOK(w, used')
    BY <1>1, <1>2, <1>4, NewJob DEF Submitted, Requests
  <1>6. JobsOK'
    BY <1>1, <1>2, <1>3, <1>5, JobsStep DEF TypeInv, Submitted
  <1>7. DialogOK'
    BY <1>1 DEF DialogOK, TypeInv
  <1>8. QED
    BY <1>1, <1>6, <1>7, DialogStep

(* A handler that ends.                                                     *)
LEMMA Finished ==
  ASSUME TypeInv, NEW j \in Jobs, Finish(j)
  PROVE  job'[j] = NoJob /\ \A i \in Jobs : i # j => job'[i] = job[i]
  BY DEF Finish, TypeInv, JobsOK

LEMMA FinishTypes ==
  ASSUME TypeInv, NEW j \in Jobs, Finish(j), UNCHANGED <<screen, used>>
  PROVE  JobsOK'
  <1>1. PICK w : w = NoJob
    OBVIOUS
  <1>2. JobOK(w, used') /\ w.kind = "idle"
    BY <1>1, Idle, ScreenTypes
  <1>3. QED
    BY <1>1, <1>2, JobsStep DEF Finish, TypeInv

LEMMA LiveIsHere ==
  ASSUME TypeInv, NEW j \in Jobs, job[j] # NoJob,
         job[j].kind \notin Mutations \/ job[j].step # "sent"
  PROVE  mounted /\ job[j].live
  BY Waits DEF TypeInv, Gone, JobOK

LEMMA ViewedTypes ==
  ASSUME TypeInv, NEW j \in Jobs, Viewed(j) \/ Decrypted(j)
  PROVE  TypeInv'
  <1>1. /\ UNCHANGED <<screen, server, used, mounted, items, badges>> /\ UNCHANGED crossed
        /\ job[j].kind \in {"get"} \cup Decryptions /\ Finish(j)
    BY DEF Viewed, Decrypted, Untouched
  <1>2. mounted
    BY <1>1, ScreenTypes, LiveIsHere DEF Decryptions, Mutations
  <1>3. job[j].row \in KnownRows(used) /\ job[j].row.password \in Passwords \cup {Null}
    BY <1>1, Waits DEF JobOK, KnownRows, Row
  <1>4. \/ UNCHANGED dialog
        \/ dialog.kind = "view" /\ dialog' = [dialog EXCEPT !.item = job[j].row]
        \/ dialog' = [dialog EXCEPT !.secret = job[j].row.password]
    BY DEF Viewed, Decrypted
  <1>5. /\ dialog' \in Dialog /\ dialog'.kind = dialog.kind
        /\ dialog'.item \in KnownRows(used) \cup {NoRow}
        /\ dialog.kind # "view" => dialog'.item = dialog.item
    BY <1>3, <1>4, Shown DEF Dialog
  <1>6. DialogOK'
    <2>1. used' = used /\ screen' = screen
      BY <1>1
    <2>2. /\ dialog.kind \in {"edit", "delete"} => dialog.item # NoRow
          /\ screen = "documents" => dialog.kind \in {"none", "delete"}
      BY DEF TypeInv, DialogOK
    <2>3. dialog.kind \in {"edit", "delete"} => dialog'.item = dialog.item
      BY <1>5
    <2>4. QED
      BY <1>5, <2>1, <2>2, <2>3 DEF DialogOK
  <1>7. JobsOK' /\ crossed' \subseteq {"list", "badges", "secret"}
    BY <1>1, FinishTypes, CrossedStep
  <1>8. QED
    BY <1>1, <1>2, <1>6, <1>7, DialogStep

LEMMA FailedTypes ==
  ASSUME TypeInv, NEW j \in Jobs, Failed(j)
  PROVE  TypeInv'
  <1>1. /\ UNCHANGED <<screen, server, used, mounted, items, badges>> /\ Finish(j)
        /\ dialog' = dialog \/ (mounted /\ dialog' = [dialog EXCEPT !.error = TRUE])
    BY Shown DEF Failed, Untouched
  <1>2. crossed' \subseteq {"list", "badges", "secret"}
    BY CrossedStep DEF Failed
  <1>3. DialogOK' /\ (mounted \/ dialog' = NoDialog)
    BY <1>1, Shown DEF DialogOK, TypeInv, Dialog
  <1>4. JobsOK'
    BY <1>1, FinishTypes
  <1>5. VaultOK' /\ PageOK' /\ (mounted => TypeInv')
    BY <1>1, <1>2, <1>3, <1>4, DialogStep
  <1>6. \A i \in Jobs : job'[i] = NoJob \/ job'[i] = job[i]
    BY <1>1, Finished
  <1>7. Gone'
    BY <1>1, <1>3, <1>6, ScreenTypes DEF TypeInv, Gone
  <1>8. QED
    BY <1>3, <1>4, <1>5, <1>7 DEF TypeInv

LEMMA Badges ==
  ASSUME NEW list \in Seq(Row)
  PROVE  /\ DOMAIN Analyze(list) \subseteq Items
         /\ \A id \in DOMAIN Analyze(list) : Analyze(list)[id] \in {"REUSED", "WEAK", "OK"}
  <1>1. ToSet(list) \subseteq Row
    BY Lists
  <1>2. DOMAIN Analyze(list) \subseteq Items
    BY <1>1 DEF Analyze, Row
  <1>3. QED
    BY <1>2 DEF Analyze

LEMMA NothingAnalyzed == Analyze(<<>>) = <<>>
  <1>1. \A e : e \notin {r.id : r \in ToSet(<<>>)}
    BY NothingListed
  <1>2. DOMAIN Analyze(<<>>) = {}
    BY <1>1 DEF Analyze
  <1>3. Analyze(<<>>) = [e \in {} |-> e]
    BY <1>1 DEF Analyze
  <1>4. <<>> = [e \in {} |-> e]
    BY NothingListed
  <1>5. QED
    BY <1>3, <1>4

LEMMA AnalyzedTypes ==
  ASSUME TypeInv, NEW j \in Jobs, Analyzed(j)
  PROVE  TypeInv'
  <1>1. /\ UNCHANGED <<screen, server, used, mounted, items>> /\ UNCHANGED <<dialog, crossed>>
        /\ badges' = Analyze(job[j].list) /\ Finish(j) /\ job[j].kind = "analysis"
    BY DEF Analyzed
  <1>2. mounted
    BY <1>1, ScreenTypes, LiveIsHere DEF Mutations
  <1>3. VaultOK' /\ DialogOK'
    BY <1>1 DEF VaultOK, DialogOK, TypeInv
  <1>4. JobsOK'
    BY <1>1, FinishTypes
  <1>5. job[j].list \in Seq(Row)
    BY Waits, KnownLists
  <1>6. PageOK'
    BY <1>1, <1>5, Badges DEF PageOK, TypeInv
  <1>7. QED
    BY <1>1, <1>2, <1>3, <1>4, <1>6 DEF TypeInv, Gone

LEMMA MountTypes ==
  ASSUME TypeInv, NEW j \in Jobs, Mount(j)
  PROVE  TypeInv'
  <1>1. /\ UNCHANGED <<screen, server, used, items, badges>> /\ UNCHANGED dialog
        /\ mounted' = TRUE /\ crossed' \subseteq {"list", "badges", "secret"}
    BY DEF Mount
  <1>2. PICK w : w = [kind |-> "load", step |-> "sent", live |-> TRUE, row |-> NoRow, list |-> <<>>]
    OBVIOUS
  <1>3. JobOK(w, used') /\ job' = [job EXCEPT ![j] = w]
    BY <1>2, NothingListed, ScreenTypes, NewJob DEF Mount, Start, Requests
  <1>4. JobsOK'
    BY <1>1, <1>2, <1>3, JobsStep DEF TypeInv
  <1>5. VaultOK' /\ DialogOK' /\ PageOK'
    BY <1>1 DEF VaultOK, DialogOK, PageOK, TypeInv
  <1>6. QED
    BY <1>1, <1>4, <1>5 DEF TypeInv, Gone

LEMMA LeaveTypes ==
  ASSUME TypeInv, Leave
  PROVE  TypeInv'
  <1>1. /\ UNCHANGED <<screen, server, used, crossed>>
        /\ mounted' = FALSE /\ items' = <<>> /\ badges' = <<>> /\ dialog' = NoDialog
    BY DEF Leave
  <1>2. VaultOK' /\ DialogOK' /\ PageOK'
    BY <1>1, NothingListed, NoDialogOK DEF VaultOK, PageOK, TypeInv
  <1> DEFINE left(w) == IF w.kind \in Mutations /\ w.step = "sent"
                          THEN [w EXCEPT !.live = FALSE, !.list = <<>>] ELSE NoJob
  <1>3. job' = [j \in Jobs |-> left(job[j])]
    BY DEF Leave
  <1>4. ASSUME NEW w, JobOK(w, used)
        PROVE  /\ JobOK(left(w), used) /\ ~left(w).live
               /\ left(w).kind \in {w.kind, "idle"}
    <2>1. CASE w.kind \in Mutations /\ w.step = "sent"
      <3>1. left(w) = [w EXCEPT !.live = FALSE, !.list = <<>>]
        BY <2>1
      <3>2. /\ left(w) \in Job /\ left(w).list = <<>> /\ ~left(w).live
            /\ left(w).kind = w.kind /\ left(w).step = w.step /\ left(w).row = w.row
        BY <1>4, <3>1, NothingListed DEF JobOK, Job
      <3>3. QED
        BY <1>4, <2>1, <3>2, NothingListed DEF JobOK, Mutations
    <2>2. CASE ~(w.kind \in Mutations /\ w.step = "sent")
      BY <2>2, Idle, ScreenTypes
    <2>3. QED
      BY <2>1, <2>2
  <1> HIDE DEF left
  <1>5. \A j \in Jobs : job'[j] = left(job[j]) /\ JobOK(job[j], used)
    BY <1>3 DEF TypeInv, JobsOK
  <1>6. \A j \in Jobs : JobOK(job'[j], used) /\ ~job'[j].live /\ job'[j].kind \in {job[j].kind, "idle"}
    BY <1>4, <1>5
  <1>7. job' \in [Jobs -> Job]
    BY <1>3, <1>5, <1>6 DEF JobOK
  <1>8. JobsOK'
    BY <1>1, <1>6, <1>7 DEF JobsOK, TypeInv
  <1>9. QED
    BY <1>1, <1>2, <1>6, <1>8 DEF TypeInv, Gone

LEMMA Outcomes ==
  ASSUME NEW ids, NEW w, JobOK(w, ids), w.kind \in Writers, w.step = "answered",
         NEW list \in Seq(KnownRows(ids))
  PROVE  Outcome(w, list) \in Seq(KnownRows(ids))
  <1>1. CASE w.kind = "load"
    BY <1>1 DEF Outcome, JobOK
  <1>2. CASE w.kind = "add"
    BY <1>2, Added DEF Outcome, JobOK
  <1>3. CASE w.kind \in {"edit", "retitle"}
    BY <1>3, Edited DEF Outcome, JobOK
  <1>4. CASE w.kind = "delete"
    BY <1>4, Deleted DEF Outcome, JobOK
  <1>5. QED
    BY <1>1, <1>2, <1>3, <1>4 DEF Writers, Mutations

(* What a handler that lands does to the page and to itself.                *)
LEMMA Landing ==
  ASSUME TypeInv, NEW j \in Jobs, Landed(j)
  PROVE  /\ mounted /\ job[j].live /\ job[j].kind \in Writers /\ job[j].step = "answered"
         /\ items' = Outcome(job[j], Base(j)) /\ items' \in Seq(KnownRows(used))
         /\ dialog' \in {dialog, NoDialog}
         /\ UNCHANGED <<screen, server, used, mounted>>
         /\ \A i \in Jobs : i # j => job'[i] = job[i]
         /\ \/ job'[j] = NoJob
            \/ /\ screen = "credentials" /\ job'[j].kind = "analysis"
               /\ job'[j].live /\ job'[j].list = items'
         /\ JobOK(job'[j], used) /\ job' \in [Jobs -> Job]
  <1>1. job[j].kind \in Writers /\ job[j].step = "answered" /\ UNCHANGED <<screen, server, used, mounted>>
    BY DEF Landed, Writers
  <1>2. mounted /\ job[j].live
    BY <1>1, ScreenTypes, LiveIsHere
  <1>3. items' = Outcome(job[j], Base(j))
    BY DEF Landed, NextItems, Outcome, Replaced
  <1>4. Base(j) \in Seq(KnownRows(used))
    BY Waits DEF Base, TypeInv, PageOK
  <1>5. items' \in Seq(KnownRows(used))
    BY <1>1, <1>3, <1>4, Waits, Outcomes
  <1>6. dialog' \in {dialog, NoDialog}
    BY DEF Landed
  <1>7. PICK w : w = [NoJob EXCEPT !.kind = "analysis", !.step = "answered",
                                   !.live = TRUE, !.list = items']
    OBVIOUS
  <1>8. items' = NextItems(j)
    BY DEF Landed
  <1>9. job' = [job EXCEPT ![j] = NoJob]
          \/ (screen = "credentials" /\ job' = [job EXCEPT ![j] = w])
    BY <1>1, <1>7, <1>8 DEF Landed, RunHealthAnalysis, Finish, TypeInv, VaultOK
  <1>10. job \in [Jobs -> Job]
    BY DEF TypeInv, JobsOK
  <1>11. /\ \A i \in Jobs : i # j => job'[i] = job[i]
         /\ job'[j] = NoJob \/ (screen = "credentials" /\ job'[j] = w)
    BY <1>9, <1>10
  <1>12. items' \in Seq(Row)
    BY <1>5, KnownLists
  <1>13. /\ w \in Job /\ w.kind = "analysis" /\ w.step = "answered" /\ w.live
         /\ w.list = items'
    BY <1>7, <1>12, ScreenTypes DEF Job, Kinds
  <1>14. JobOK(w, used)
    BY <1>5, <1>13 DEF JobOK, Decryptions
  <1>15. JobOK(job'[j], used)
    BY <1>11, <1>14, Idle
  <1>16. job' \in [Jobs -> Job]
    BY <1>9, <1>10, <1>13, ScreenTypes
  <1>17. QED
    BY <1>1, <1>2, <1>3, <1>5, <1>6, <1>11, <1>13, <1>15, <1>16

LEMMA LandedTypes ==
  ASSUME TypeInv, NEW j \in Jobs, Landed(j)
  PROVE  TypeInv'
  <1>1. /\ UNCHANGED <<screen, server, used>> /\ UNCHANGED mounted /\ mounted
        /\ items' \in Seq(KnownRows(used)) /\ dialog' \in {dialog, NoDialog}
        /\ \A i \in Jobs : i # j => job'[i] = job[i]
        /\ JobOK(job'[j], used) /\ job' \in [Jobs -> Job]
        /\ screen = "documents" => job'[j] = NoJob
    BY Landing
  <1>2. VaultOK' /\ Gone'
    BY <1>1 DEF VaultOK, Gone, TypeInv
  <1>3. DialogOK'
    BY <1>1, NoDialogOK DEF DialogOK, TypeInv
  <1>4. JobsOK'
    BY <1>1, ScreenTypes DEF JobsOK, TypeInv
  <1>5. UNCHANGED badges \/ badges' = <<>>
    BY DEF Landed, RunHealthAnalysis
  <1>6. crossed' \subseteq {"list", "badges", "secret"}
    BY CrossedStep DEF Landed, RunHealthAnalysis, Busy
  <1>7. PageOK'
    BY <1>1, <1>5, <1>6, NothingListed DEF PageOK, TypeInv
  <1>8. QED
    BY <1>2, <1>3, <1>4, <1>7 DEF TypeInv

(***************************************************************************)
(* The API: what one call does to the vault and to the handler that waits. *)
(***************************************************************************)
Answered(w, row) == [w EXCEPT !.step = "answered", !.row = row]

(* The vault's rows and the answer, by the kind of the call.                *)
Served(w, answer, ids, rows, more, next) ==
  \/ /\ w.kind = "load" /\ more = ids /\ next = rows
     /\ answer = [w EXCEPT !.step = "answered", !.list = SetToSeq(rows)]
  \/ \E id \in Items \ ids :
       /\ w.kind = "add" /\ more = ids \cup {id}
       /\ next = rows \cup {[w.row EXCEPT !.id = id]}
       /\ answer = Answered(w, [w.row EXCEPT !.id = id])
  \/ /\ w.kind = "edit" /\ w.row.id \in Ids(rows)
     /\ next = Others(rows, w.row.id) \cup {w.row}
     /\ more = ids /\ answer = Answered(w, w.row)
  \/ /\ w.kind = "delete" /\ w.row.id \in Ids(rows)
     /\ next = Others(rows, w.row.id)
     /\ more = ids /\ answer = Answered(w, w.row)
  \/ \E r \in rows :
       /\ w.kind \in {"get", "retitle"} /\ r.id = w.row.id
       /\ more = ids /\ next = rows /\ answer = Answered(w, r)

LEMMA Serving ==
  ASSUME NEW j \in Jobs, Serve(j)
  PROVE  /\ job[j].step = "sent" /\ UNCHANGED <<screen, mounted, items, badges, dialog, crossed>>
         /\ \E answer : /\ Answer(j, answer)
                        /\ Served(job[j], answer, used, server, used', server')
  <1>1. \A id : Stored(id) = {r \in server : r.id = id}
    BY DEF Stored
  <1>2. \A id : /\ Stored(id) # {} <=> id \in Ids(server)
                /\ server \ Stored(id) = Others(server, id)
    BY <1>1 DEF Ids, Others
  <1>3. job[j].step = "sent" /\ UNCHANGED <<screen, mounted, items, badges, dialog, crossed>>
    BY DEF Serve
  <1> DEFINE w == job[j]
  <1>4. CASE w.kind = "load"
    <2>1. /\ Answer(j, [w EXCEPT !.step = "answered", !.list = SetToSeq(server)])
          /\ UNCHANGED <<server, used>>
      BY <1>4 DEF Serve
    <2>2. QED
      BY <1>3, <1>4, <2>1 DEF Served
  <1>5. CASE w.kind = "add"
    <2>1. PICK id \in Items \ used :
            /\ used' = used \cup {id}
            /\ server' = server \cup {[w.row EXCEPT !.id = id]}
            /\ Answer(j, Answered(w, [w.row EXCEPT !.id = id]))
      BY <1>5 DEF Serve, Answered
    <2>2. QED
      BY <1>3, <1>5, <2>1 DEF Served
  <1>6. CASE w.kind = "edit"
    <2>1. /\ w.row.id \in Ids(server) /\ Answer(j, Answered(w, w.row)) /\ UNCHANGED used
          /\ server' = Others(server, w.row.id) \cup {w.row}
      BY <1>2, <1>6 DEF Serve, Answered
    <2>2. QED
      BY <1>3, <1>6, <2>1 DEF Served
  <1>7. CASE w.kind = "delete"
    <2>1. /\ w.row.id \in Ids(server) /\ Answer(j, Answered(w, w.row)) /\ UNCHANGED used
          /\ server' = Others(server, w.row.id)
      BY <1>2, <1>7 DEF Serve, Answered
    <2>2. QED
      BY <1>3, <1>7, <2>1 DEF Served
  <1>8. CASE w.kind \in {"get", "retitle"}
    <2>1. PICK r \in server : r.id = w.row.id /\ Answer(j, Answered(w, r)) /\ UNCHANGED <<server, used>>
      BY <1>1, <1>8 DEF Serve, Answered
    <2>2. QED
      BY <1>3, <1>8, <2>1 DEF Served
  <1>9. QED
    BY <1>4, <1>5, <1>6, <1>7, <1>8 DEF Serve

LEMMA KnownRow ==
  ASSUME NEW ids, NEW rows \in SUBSET KnownRows(ids), ids \subseteq Items,
         NEW id \in Items \ ids, NEW row \in Draft
  PROVE  /\ [row EXCEPT !.id = id] \in KnownRows(ids \cup {id})
         /\ [row EXCEPT !.id = id].id = id /\ id \notin Ids(rows)
  BY DEF KnownRows, Row, Draft, Ids

(* A call keeps the vault's ids apart, and its answer is of the right type. *)
LEMMA ServedTypes ==
  ASSUME NEW ids, NEW more, NEW rows, NEW next, NEW w, NEW answer, ids \subseteq Items,
         rows \subseteq KnownRows(ids), IsFiniteSet(rows), UniqueIds(rows),
         JobOK(w, ids), w.step = "sent", Served(w, answer, ids, rows, more, next)
  PROVE  /\ ids \subseteq more /\ more \subseteq Items
         /\ next \subseteq KnownRows(more) /\ IsFiniteSet(next) /\ UniqueIds(next)
         /\ answer.kind = w.kind /\ (w.live => JobOK(answer, more))
  <1>1. /\ w \in Job /\ w.row \in Draft /\ w.list \in Seq(KnownRows(ids))
        /\ w.kind # "idle" /\ KnownRows(ids) \subseteq Draft
    BY ScreenTypes DEF JobOK, Job, NoJob, KnownRows
  <1>2. ASSUME NEW r \in Draft
        PROVE  /\ Answered(w, r) \in Job /\ Answered(w, r).kind = w.kind /\ Answered(w, r).row = r
               /\ Answered(w, r).step = "answered" /\ Answered(w, r).list = w.list
               /\ Answered(w, r).live = w.live
    BY <1>1 DEF Answered, Job
  <1>3. ASSUME NEW r \in KnownRows(more), ids \subseteq more, w.live
        PROVE  JobOK(Answered(w, r), more)
    <2>1. w.list \in Seq(KnownRows(more)) /\ r \in Draft
      BY <1>1, <1>3, KnownGrows, ScreenTypes DEF KnownRows
    <2>2. QED
      BY <1>1, <1>2, <1>3, <2>1 DEF JobOK
  <1>4. CASE w.kind = "load"
    <2>1. /\ more = ids /\ next = rows
          /\ answer = [w EXCEPT !.step = "answered", !.list = SetToSeq(rows)]
      BY <1>4 DEF Served
    <2>2. SetToSeq(rows) \in Seq(KnownRows(ids)) /\ SetToSeq(rows) \in Seq(Row)
      BY FiniteList, SeqMonotonic, KnownLists
    <2>3. /\ answer \in Job /\ answer.kind = w.kind /\ answer.list = SetToSeq(rows)
          /\ answer.step = "answered" /\ answer.live = w.live
      BY <1>1, <2>1, <2>2 DEF Job
    <2>4. w.live => JobOK(answer, more)
      BY <1>4, <2>1, <2>2, <2>3 DEF JobOK, Decryptions
    <2>5. QED
      BY <2>1, <2>3, <2>4
  <1>5. CASE w.kind = "add"
    <2>1. PICK id \in Items \ ids :
            /\ more = ids \cup {id} /\ next = rows \cup {[w.row EXCEPT !.id = id]}
            /\ answer = Answered(w, [w.row EXCEPT !.id = id])
      BY <1>5 DEF Served
    <2>2. PICK row : row = [w.row EXCEPT !.id = id]
      OBVIOUS
    <2>3. row \in KnownRows(more) /\ row.id = id /\ id \notin Ids(rows)
      BY <1>1, <2>1, <2>2, KnownRow
    <2>4. rows \subseteq KnownRows(more)
      BY <2>1, KnownGrows
    <2>5. IsFiniteSet(next)
      BY <2>1, FS_AddElement
    <2>6. UniqueIds(next)
      BY <2>1, <2>2, <2>3 DEF UniqueIds, Ids
    <2>7. row \in Draft /\ ids \subseteq more /\ answer = Answered(w, row)
      BY <2>1, <2>2, <2>3, ScreenTypes DEF KnownRows
    <2>8. answer.kind = w.kind /\ (w.live => JobOK(answer, more))
      BY <1>2, <1>3, <2>3, <2>7
    <2>9. QED
      BY <2>1, <2>2, <2>3, <2>4, <2>5, <2>6, <2>8
  <1>6. CASE w.kind \in {"edit", "delete"}
    <2>1. w.row \in KnownRows(ids) /\ more = ids /\ answer = Answered(w, w.row)
      BY <1>6 DEF JobOK, Served
    <2>2. PICK kept : kept = Others(rows, w.row.id)
      OBVIOUS
    <2>3. next = kept \/ next = kept \cup {w.row}
      BY <1>6, <2>2 DEF Served
    <2>4. IsFiniteSet(kept) /\ UniqueIds(kept)
      BY <2>2, FS_Subset DEF UniqueIds, Others
    <2>5. IsFiniteSet(next)
      BY <2>3, <2>4, FS_AddElement
    <2>6. UniqueIds(next)
      BY <2>2, <2>3, <2>4 DEF UniqueIds, Others
    <2>7. next \subseteq KnownRows(more)
      BY <2>1, <2>2, <2>3 DEF Others
    <2>8. answer.kind = w.kind /\ (w.live => JobOK(answer, more))
      BY <1>1, <1>2, <1>3, <2>1
    <2>9. QED
      BY <2>1, <2>5, <2>6, <2>7, <2>8
  <1>7. CASE w.kind \in {"get", "retitle"}
    <2>1. PICK r \in rows : more = ids /\ next = rows /\ answer = Answered(w, r)
      BY <1>7 DEF Served
    <2>2. answer.kind = w.kind /\ (w.live => JobOK(answer, more))
      BY <1>1, <1>2, <1>3, <2>1
    <2>3. QED
      BY <2>1, <2>2
  <1>8. QED
    BY <1>4, <1>5, <1>6, <1>7 DEF Served

(* The API does not see whether anybody still waits.                        *)
LEMMA Answering ==
  ASSUME TypeInv, NEW j \in Jobs, Serve(j)
  PROVE  \E answer :
           /\ Served(job[j], answer, used, server, used', server')
           /\ job[j].live => job'[j] = answer /\ JobOK(answer, used')
           /\ ~job[j].live => job'[j] = NoJob
           /\ answer.kind = job[j].kind
           /\ \A i \in Jobs : i # j => job'[i] = job[i]
           /\ job' \in [Jobs -> Job] /\ VaultOK' /\ used \subseteq used'
           /\ job[j].step = "sent"
  <1>1. /\ job[j].step = "sent" /\ UNCHANGED <<screen, mounted, items, badges, dialog, crossed>>
    BY Serving
  <1>2. PICK answer :
          Answer(j, answer) /\ Served(job[j], answer, used, server, used', server')
    BY Serving
  <1>3. /\ used \subseteq Items /\ server \subseteq KnownRows(used)
        /\ IsFiniteSet(server) /\ UniqueIds(server) /\ JobOK(job[j], used)
        /\ screen \in {"credentials", "documents"}
    BY Waits DEF TypeInv, VaultOK
  <1>4. /\ used \subseteq used' /\ used' \subseteq Items
        /\ server' \subseteq KnownRows(used') /\ IsFiniteSet(server') /\ UniqueIds(server')
        /\ answer.kind = job[j].kind /\ (job[j].live => JobOK(answer, used'))
    BY <1>1, <1>2, <1>3, ServedTypes
  <1>5. VaultOK'
    BY <1>1, <1>3, <1>4 DEF VaultOK, UniqueIds
  <1>6. job' = [job EXCEPT ![j] = IF job[j].live THEN answer ELSE NoJob] /\ job \in [Jobs -> Job]
    BY <1>2 DEF Answer, TypeInv, JobsOK
  <1>7. /\ job'[j] = IF job[j].live THEN answer ELSE NoJob
        /\ \A i \in Jobs : i # j => job'[i] = job[i]
    BY <1>6
  <1>8. job' \in [Jobs -> Job]
    BY <1>4, <1>6, ScreenTypes DEF JobOK
  <1>9. QED
    BY <1>1, <1>2, <1>4, <1>5, <1>7, <1>8

LEMMA ServeTypes ==
  ASSUME TypeInv, NEW j \in Jobs, Serve(j)
  PROVE  TypeInv'
  <1>1. UNCHANGED <<screen, mounted, items, badges, dialog, crossed>>
    BY Serving
  <1>2. PICK answer :
           /\ job[j].live => job'[j] = answer /\ JobOK(answer, used')
           /\ ~job[j].live => job'[j] = NoJob
           /\ answer.kind = job[j].kind
           /\ \A i \in Jobs : i # j => job'[i] = job[i]
           /\ job' \in [Jobs -> Job] /\ VaultOK' /\ used \subseteq used'
    BY Answering
  <1>3. PageOK' /\ DialogOK'
    BY <1>1, <1>2, KnownGrows DEF TypeInv, PageOK, DialogOK
  <1>4. \A i \in Jobs : JobOK(job[i], used')
    BY <1>2, KnownGrows DEF TypeInv, JobsOK
  <1>5. job[j].live \in BOOLEAN
    BY Waits
  <1>6. JobsOK'
    BY <1>1, <1>2, <1>4, <1>5, Idle, ScreenTypes DEF TypeInv, JobsOK
  <1>7. Gone'
    BY <1>1, <1>2, <1>5, ScreenTypes DEF TypeInv, Gone
  <1>8. QED
    BY <1>2, <1>3, <1>6, <1>7 DEF TypeInv

LEMMA TypesStep == TypeInv /\ [ScreenNext]_screenVars => TypeInv'
  <1> SUFFICES ASSUME TypeInv, [ScreenNext]_screenVars PROVE TypeInv'
    OBVIOUS
  <1>1. ASSUME NEW j \in Jobs, Serve(j) PROVE TypeInv'
    BY <1>1, ServeTypes
  <1>2. ASSUME NEW j \in Jobs, Mount(j) PROVE TypeInv'
    BY <1>2, MountTypes
  <1>3. ASSUME NEW j \in Jobs, OpenView(j) PROVE TypeInv'
    BY <1>3, OpenViewTypes
  <1>4. ASSUME NEW j \in Jobs, Add(j) \/ Upload(j) \/ Edit(j) \/ ConfirmDelete(j) PROVE TypeInv'
    <2>1. PICK kind \in Mutations, row \in Draft : Submitted(j, kind, row)
      BY <1>4, Submissions DEF Submission
    <2>2. QED
      BY <2>1, SubmitTypes
  <1>5. ASSUME NEW j \in Jobs, Reveal(j) \/ RevealExisting(j) PROVE TypeInv'
    BY <1>5, RevealTypes
  <1>6. ASSUME NEW j \in Jobs, Landed(j) PROVE TypeInv'
    BY <1>6, LandedTypes
  <1>7. ASSUME NEW j \in Jobs, Viewed(j) \/ Decrypted(j) PROVE TypeInv'
    BY <1>7, ViewedTypes
  <1>8. ASSUME NEW j \in Jobs, Failed(j) PROVE TypeInv'
    BY <1>8, FailedTypes
  <1>9. ASSUME NEW j \in Jobs, Analyzed(j) PROVE TypeInv'
    BY <1>9, AnalyzedTypes
  <1>10. ASSUME NEW kind \in {"add", "edit", "delete"}, Open(kind) \/ OpenFromView(kind)
         PROVE  TypeInv'
    BY <1>10, OpenTypes
  <1>11. CASE Dismiss
    BY <1>11, DismissTypes
  <1>12. CASE Leave
    BY <1>12, LeaveTypes
  <1>13. CASE UNCHANGED screenVars
    <2>1. /\ UNCHANGED <<screen, server, used, mounted, items, badges>>
          /\ UNCHANGED <<dialog, job, crossed>>
      BY <1>13 DEF screenVars
    <2>2. VaultOK' /\ PageOK' /\ DialogOK' /\ JobsOK' /\ Gone'
      BY <2>1, JobsKept DEF TypeInv, VaultOK, PageOK, DialogOK, Gone
    <2>3. QED
      BY <2>2 DEF TypeInv
  <1>14. QED
    BY <1>1, <1>2, <1>3, <1>4, <1>5, <1>6, <1>7, <1>8, <1>9, <1>10, <1>11, <1>12, <1>13
    DEF ScreenNext

LEMMA TypeInvIsEnough == TypeInv => ScreenTypeOK
  <1> SUFFICES ASSUME TypeInv PROVE ScreenTypeOK
    OBVIOUS
  <1>1. /\ ToSet(items) \subseteq Row /\ dialog \in Dialog /\ server \subseteq Row
    BY Shown DEF TypeInv, VaultOK, KnownRows
  <1>2. ASSUME NEW j \in Jobs
        PROVE  /\ job[j].kind \in Requests \cup Decryptions \cup {"idle", "analysis"}
               /\ job[j].row.id \in Items \cup {Null}
               /\ ToSet(job[j].list) \subseteq Row
    <2>1. job[j].kind \in Kinds /\ job[j].row \in Draft /\ job[j].list \in Seq(KnownRows(used))
      BY Waits
    <2>2. job[j].list \in Seq(Row)
      BY <2>1, KnownLists
    <2>3. ToSet(job[j].list) \subseteq Row
      BY <2>2, Lists
    <2>4. QED
      BY <2>1, <2>3 DEF Kinds, Draft
  <1>3. QED
    BY <1>1, <1>2 DEF TypeInv, VaultOK, PageOK, Gone, ScreenTypeOK

(* Credentials.jsx, Documents.jsx: the page, its dialogs and the handlers   *)
(* that wait are well typed, and a page that is gone shows nothing.         *)
THEOREM ScreenTypeCorrect == ScreenSpec => []ScreenTypeOK
  BY ScreenInitInv, TypesStep, TypeInvIsEnough, PTL DEF ScreenSpec

-----------------------------------------------------------------------------
(***************************************************************************)
(* The plaintext a dialog holds.                                           *)
(***************************************************************************)
LEMMA SecretClosed == dialog' = NoDialog => SecretInv'
  BY ScreenTypes DEF SecretInv, NoDialog

LEMMA SecretFrame ==
  ASSUME TypeInv, SecretInv, "secret" \in crossed => "secret" \in crossed',
         \/ dialog' = NoDialog
         \/ /\ dialog'.kind = dialog.kind /\ dialog'.item = dialog.item
            /\ dialog'.secret = dialog.secret,
         \A j \in Jobs : /\ job'[j].kind \in Decryptions => job'[j] = job[j]
                         /\ job'[j].kind = "get" => job[j].kind = "get"
  PROVE  SecretInv'
  BY SecretClosed DEF SecretInv, Decryptions

LEMMA SecretServe ==
  ASSUME TypeInv, SecretInv, NEW j \in Jobs, Serve(j)
  PROVE  SecretInv'
  <1>1. PICK answer :
           /\ Served(job[j], answer, used, server, used', server')
           /\ job[j].live => job'[j] = answer
           /\ ~job[j].live => job'[j] = NoJob
           /\ answer.kind = job[j].kind
           /\ \A i \in Jobs : i # j => job'[i] = job[i]
    BY Answering
  <1>2. UNCHANGED <<screen, mounted, items, badges, dialog, crossed>> /\ job[j].live \in BOOLEAN
    BY Serving, Waits
  <1>3. job[j].kind \notin Decryptions
    BY <1>1 DEF Served, Decryptions
  <1>4. job'[j].kind \in {job[j].kind, "idle"}
    BY <1>1, <1>2, ScreenTypes
  <1>5. QED
    BY <1>1, <1>2, <1>3, <1>4, SecretFrame DEF Decryptions

LEMMA SecretSubmit ==
  ASSUME TypeInv, SecretInv, NEW j \in Jobs, NEW kind \in Mutations, NEW row, Submit(j, kind, row)
  PROVE  SecretInv'
  <1>1. PICK w : w = [kind |-> kind, step |-> "sent", live |-> TRUE, row |-> row,
                      list |-> IF screen = "credentials" THEN items ELSE <<>>]
    OBVIOUS
  <1>2. job' = [job EXCEPT ![j] = w] /\ w.kind \notin Decryptions \cup {"get"}
    BY <1>1 DEF Submit, Start, Mutations, Decryptions
  <1>3. job'[j] = w /\ \A i \in Jobs : i # j => job'[i] = job[i]
    BY <1>2, OneJob DEF TypeInv, JobsOK
  <1>4. UNCHANGED dialog /\ crossed \subseteq crossed'
    BY DEF Submit
  <1>5. QED
    BY <1>2, <1>3, <1>4, SecretFrame

LEMMA SecretLanded ==
  ASSUME TypeInv, SecretInv, NEW j \in Jobs, Landed(j)
  PROVE  SecretInv'
  <1>1. /\ dialog' \in {dialog, NoDialog}
        /\ \A i \in Jobs : i # j => job'[i] = job[i]
        /\ job'[j].kind \notin Decryptions \cup {"get"}
    BY Landing, ScreenTypes DEF Decryptions
  <1>2. "secret" \in crossed => "secret" \in crossed'
    BY DEF Landed, RunHealthAnalysis, Flagged
  <1>3. QED
    BY <1>1, <1>2, SecretFrame

LEMMA SecretFinish ==
  ASSUME TypeInv, SecretInv, NEW j \in Jobs, Failed(j) \/ Analyzed(j)
  PROVE  SecretInv'
  <1>1. job'[j] = NoJob /\ \A i \in Jobs : i # j => job'[i] = job[i]
    BY Finished DEF Failed, Analyzed
  <1>2. crossed \subseteq crossed'
    BY DEF Failed, Analyzed
  <1>3. /\ dialog'.kind = dialog.kind /\ dialog'.item = dialog.item
        /\ dialog'.secret = dialog.secret
    BY Shown DEF Failed, Analyzed, Dialog
  <1>4. QED
    BY <1>1, <1>2, <1>3, ScreenTypes, SecretFrame DEF Decryptions

(* A dialog that opens holds no plaintext, and it is said to be spoilt if   *)
(* an earlier one may still get one.                                        *)
LEMMA Unflagged ==
  ASSUME TypeInv, NEW kinds \in SUBSET (Decryptions \cup {"get"}),
         Flagged("secret", Busy(kinds)), "secret" \notin crossed'
  PROVE  \A j \in Jobs : job[j].kind \notin kinds
  <1>1. ~Busy(kinds)
    BY DEF Flagged
  <1>2. ASSUME NEW j \in Jobs, job[j].kind \in kinds PROVE job[j].live
    BY <1>2, Waits, ScreenTypes, LiveIsHere DEF Decryptions, Mutations
  <1>3. QED
    BY <1>1, <1>2 DEF Busy

LEMMA SecretOpen ==
  ASSUME TypeInv, SecretInv, NEW kind \in {"add", "edit", "delete"}, Open(kind) \/ OpenFromView(kind)
  PROVE  SecretInv'
  <1>1. PICK r \in Row \cup {NoRow} : dialog' = Opened(kind, r)
    BY Shown DEF Open, OpenFromView
  <1>2. dialog'.kind = kind /\ dialog'.secret = Null
    BY <1>1, ScreenTypes
  <1>3. UNCHANGED job
    BY DEF Open, OpenFromView
  <1>4. kind = "edit" => Flagged("secret", Busy({"existing"}))
    BY DEF Open, OpenFromView
  <1>5. kind = "edit" /\ "secret" \notin crossed' => \A j \in Jobs : job[j].kind # "existing"
    BY <1>4, Unflagged DEF Decryptions
  <1>6. QED
    BY <1>2, <1>3, <1>5 DEF SecretInv

LEMMA SecretOpenView ==
  ASSUME TypeInv, SecretInv, NEW j \in Jobs, OpenView(j)
  PROVE  SecretInv'
  <1>1. dialog' = Opened("view", NoRow)
    BY DEF OpenView
  <1>2. dialog'.kind = "view" /\ dialog'.secret = Null /\ dialog'.item = NoRow
    BY <1>1, ScreenTypes
  <1>3. "secret" \notin crossed' => \A i \in Jobs : job[i].kind \notin {"get", "reveal"}
    BY Unflagged DEF OpenView, Decryptions
  <1>4. PICK r \in ToSet(items) : Start(j, "get", r, <<>>)
    BY DEF OpenView
  <1>5. PICK w : w = [kind |-> "get", step |-> "sent", live |-> TRUE, row |-> r, list |-> <<>>]
    OBVIOUS
  <1>6. job' = [job EXCEPT ![j] = w] /\ w.kind = "get"
    BY <1>4, <1>5 DEF Start
  <1>7. job'[j] = w /\ \A i \in Jobs : i # j => job'[i] = job[i]
    BY <1>6, OneJob DEF TypeInv, JobsOK
  <1>8. QED
    BY <1>2, <1>3, <1>6, <1>7 DEF SecretInv

LEMMA SecretReveal ==
  ASSUME TypeInv, SecretInv, NEW j \in Jobs, Reveal(j) \/ RevealExisting(j)
  PROVE  SecretInv'
  <1>1. PICK kind \in Decryptions :
          /\ Start(j, kind, dialog.item, <<>>)
          /\ kind = "existing" => dialog.kind = "edit"
          /\ kind = "reveal" => dialog.kind = "view" /\ dialog.item # NoRow
    BY DEF Reveal, RevealExisting, Decryptions
  <1>2. PICK w : w = [kind |-> kind, step |-> "sent", live |-> TRUE, row |-> dialog.item,
                      list |-> <<>>]
    OBVIOUS
  <1>3. job' = [job EXCEPT ![j] = w] /\ w.kind = kind /\ w.row = dialog.item
    BY <1>1, <1>2 DEF Start
  <1>4. job'[j] = w /\ \A i \in Jobs : i # j => job'[i] = job[i]
    BY <1>3, OneJob DEF TypeInv, JobsOK
  <1>5. UNCHANGED dialog /\ UNCHANGED crossed
    BY DEF Reveal, RevealExisting
  <1>6. QED
    BY <1>1, <1>3, <1>4, <1>5 DEF SecretInv, Decryptions

LEMMA SecretDecrypted ==
  ASSUME TypeInv, SecretInv, NEW j \in Jobs, Decrypted(j)
  PROVE  SecretInv'
  <1>1. /\ job'[j] = NoJob /\ \A i \in Jobs : i # j => job'[i] = job[i]
        /\ UNCHANGED crossed /\ job[j].kind \in Decryptions
    BY Finished DEF Decrypted
  <1>2. CASE UNCHANGED dialog
    BY <1>1, <1>2, ScreenTypes, SecretFrame DEF Decryptions
  <1>3. CASE dialog.kind = Holder(job[j].kind) /\ dialog' = [dialog EXCEPT !.secret = job[j].row.password]
    <2>1. /\ dialog'.kind = dialog.kind /\ dialog'.item = dialog.item
          /\ dialog'.secret = job[j].row.password
      BY <1>3, Shown DEF Dialog
    <2>2. \/ job[j].kind = "existing" /\ dialog.kind = "edit"
          \/ job[j].kind = "reveal" /\ dialog.kind = "view"
      BY <1>1, <1>3 DEF Holder, Decryptions
    <2>3. job[j].kind = "reveal" => job[j].row # NoRow
      BY WaitsForARow
    <2>4. QED
      BY <1>1, <2>1, <2>2, <2>3, ScreenTypes DEF SecretInv
  <1>4. QED
    BY <1>2, <1>3 DEF Decrypted

LEMMA SecretViewed ==
  ASSUME TypeInv, SecretInv, NEW j \in Jobs, Viewed(j)
  PROVE  SecretInv'
  <1>1. /\ job'[j] = NoJob /\ \A i \in Jobs : i # j => job'[i] = job[i]
        /\ UNCHANGED crossed /\ job[j].kind = "get"
    BY Finished DEF Viewed
  <1>2. CASE dialog.kind # "view"
    BY <1>1, <1>2, ScreenTypes, SecretFrame DEF Viewed, Decryptions
  <1>3. CASE dialog.kind = "view"
    <2>1. /\ dialog'.kind = "view" /\ dialog'.item = job[j].row
          /\ dialog'.secret = dialog.secret
      BY <1>3, Shown DEF Viewed, Dialog
    <2>2. \A i \in Jobs : job[i].kind = "reveal" => job[i].row # NoRow
      BY WaitsForARow
    <2>3. "secret" \notin crossed =>
            /\ dialog.secret = Null
            /\ \A i \in Jobs : job[i].kind # "reveal" /\ (job[i].kind = "get" => i = j)
      BY <1>1, <1>3, <2>2 DEF SecretInv
    <2>4. QED
      BY <1>1, <2>1, <2>3, ScreenTypes DEF SecretInv
  <1>4. QED
    BY <1>2, <1>3

LEMMA SecretStep == TypeInv /\ SecretInv /\ [ScreenNext]_screenVars => SecretInv'
  <1> SUFFICES ASSUME TypeInv, SecretInv, [ScreenNext]_screenVars PROVE SecretInv'
    OBVIOUS
  <1>1. ASSUME NEW j \in Jobs, Serve(j) PROVE SecretInv'
    BY <1>1, SecretServe
  <1>2. ASSUME NEW j \in Jobs, Mount(j) PROVE SecretInv'
    BY <1>2, Shown, SecretClosed DEF Mount
  <1>3. ASSUME NEW j \in Jobs, OpenView(j) PROVE SecretInv'
    BY <1>3, SecretOpenView
  <1>4. ASSUME NEW j \in Jobs, Add(j) \/ Upload(j) \/ Edit(j) \/ ConfirmDelete(j) PROVE SecretInv'
    <2>1. PICK kind \in Mutations, row \in Draft : Submitted(j, kind, row)
      BY <1>4, Submissions DEF Submission
    <2>2. QED
      BY <2>1, SecretSubmit DEF Submitted
  <1>5. ASSUME NEW j \in Jobs, Reveal(j) \/ RevealExisting(j) PROVE SecretInv'
    BY <1>5, SecretReveal
  <1>6. ASSUME NEW j \in Jobs, Landed(j) PROVE SecretInv'
    BY <1>6, SecretLanded
  <1>7. ASSUME NEW j \in Jobs, Viewed(j) PROVE SecretInv'
    BY <1>7, SecretViewed
  <1>8. ASSUME NEW j \in Jobs, Failed(j) \/ Analyzed(j) PROVE SecretInv'
    BY <1>8, SecretFinish
  <1>9. ASSUME NEW j \in Jobs, Decrypted(j) PROVE SecretInv'
    BY <1>9, SecretDecrypted
  <1>10. ASSUME NEW kind \in {"add", "edit", "delete"}, Open(kind) \/ OpenFromView(kind)
         PROVE  SecretInv'
    BY <1>10, SecretOpen
  <1>11. CASE Dismiss
    BY <1>11, SecretClosed DEF Dismiss
  <1>12. CASE Leave
    BY <1>12, SecretClosed DEF Leave
  <1>13. CASE UNCHANGED screenVars
    BY <1>13 DEF screenVars, SecretInv
  <1>14. QED
    BY <1>1, <1>2, <1>3, <1>4, <1>5, <1>6, <1>7, <1>8, <1>9, <1>10, <1>11, <1>12, <1>13
    DEF ScreenNext

(* Credentials.jsx: the plaintext in a dialog is the password of the row    *)
(* the dialog shows, unless a call of an earlier dialog was under way when  *)
(* this one was opened.                                                     *)
THEOREM SecretOfTheViewed == ScreenSpec => []SecretIsTheViewed
  <1>1. ScreenInit => SecretInv
    BY ScreenTypes, SecretClosed DEF ScreenInit, SecretInv, NoDialog
  <1>2. SecretInv => SecretIsTheViewed
    BY DEF SecretInv, SecretIsTheViewed
  <1>3. QED
    BY <1>1, <1>2, ScreenInitInv, TypesStep, SecretStep, PTL DEF ScreenSpec

-----------------------------------------------------------------------------
(***************************************************************************)
(* The list.  A handler that waits is consistent with the list and the     *)
(* vault: once the API has done its part, what the handler makes of the    *)
(* list is the vault.                                                      *)
(***************************************************************************)
LEMMA SameIds ==
  ASSUME NEW list, NEW rows, Same(list, rows)
  PROVE  Ids(ToSet(list)) = Ids(rows) /\ UniqueIds(rows)
  BY DEF Same, Ids, UniqueIds, Distinct, ToSet

LEMMA SameWhenDone ==
  ASSUME NEW R, NEW list \in Seq(R), NEW rows, Same(list, rows), NEW row \in R
  PROVE  /\ row.id \notin Ids(rows) => Same(<<row>> \o list, rows \cup {row})
         /\ row.id \in Ids(rows) =>
              Same(Replaced(list, row), Others(rows, row.id) \cup {row})
         /\ Same(Without(list, row.id), Others(rows, row.id))
  <1>1. ToSet(list) = rows /\ Distinct(list) /\ Ids(ToSet(list)) = Ids(rows)
    BY SameIds DEF Same
  <1>2. row.id \notin Ids(rows) => Same(<<row>> \o list, rows \cup {row})
    BY <1>1, Added DEF Same
  <1>3. row.id \in Ids(rows) =>
          Same(Replaced(list, row), Others(rows, row.id) \cup {row})
    <2>1. /\ Distinct(list) => Distinct(Replaced(list, row))
          /\ row.id \in Ids(ToSet(list)) =>
              ToSet(Replaced(list, row)) = Others(ToSet(list), row.id) \cup {row}
      BY Edited
    <2>2. QED
      BY <1>1, <2>1 DEF Same
  <1>4. Same(Without(list, row.id), Others(rows, row.id))
    <2>1. /\ Distinct(list) => Distinct(Without(list, row.id))
          /\ ToSet(Without(list, row.id)) = Others(ToSet(list), row.id)
      BY Deleted
    <2>2. QED
      BY <1>1, <2>1 DEF Same
  <1>5. QED
    BY <1>2, <1>3, <1>4

LEMMA AnswerOf ==
  ASSUME NEW w \in Job, NEW row \in Draft
  PROVE  /\ Answered(w, row).kind = w.kind /\ Answered(w, row).row = row
         /\ Answered(w, row).step = "answered" /\ Answered(w, row).list = w.list
         /\ Answered(w, row).live = w.live
  BY DEF Answered, Job

LEMMA ServedIsConsistent ==
  ASSUME NEW ids, NEW more, NEW rows, NEW next, NEW w, NEW answer, ids \subseteq Items,
         rows \subseteq KnownRows(ids), IsFiniteSet(rows), UniqueIds(rows),
         JobOK(w, ids), w.step = "sent", w.kind \in Writers,
         Served(w, answer, ids, rows, more, next),
         NEW list \in Seq(KnownRows(ids)), Consistent(w, list, rows)
  PROVE  Consistent(answer, list, next)
  <1>1. /\ w \in Job /\ w.row \in Draft /\ w.list \in Seq(KnownRows(ids))
        /\ KnownRows(ids) \subseteq Draft
    BY ScreenTypes DEF JobOK, Job, KnownRows
  <1>2. w.kind \in Mutations => w.list = list /\ Same(list, rows)
    BY DEF Consistent
  <1>3. CASE w.kind = "load"
    <2>1. next = rows /\ answer = [w EXCEPT !.step = "answered", !.list = SetToSeq(rows)]
      BY <1>3 DEF Served
    <2>2. answer.kind = "load" /\ answer.list = SetToSeq(rows)
      BY <1>1, <1>3, <2>1 DEF Job
    <2>3. QED
      BY <2>1, <2>2, SameOfSet DEF Consistent, Outcome, Mutations
  <1>4. CASE w.kind = "add"
    <2>1. PICK id \in Items \ ids :
            /\ more = ids \cup {id} /\ next = rows \cup {[w.row EXCEPT !.id = id]}
            /\ answer = Answered(w, [w.row EXCEPT !.id = id])
      BY <1>4 DEF Served
    <2>2. PICK row : row = [w.row EXCEPT !.id = id]
      OBVIOUS
    <2>3. row \in KnownRows(more) /\ row.id = id /\ id \notin Ids(rows)
      BY <1>1, <2>1, <2>2, KnownRow
    <2>4. row \in Draft /\ list \in Seq(KnownRows(more))
      <3>1. list \in Seq(KnownRows(more))
        BY <2>1, KnownGrows
      <3>2. row \in Draft
        BY <2>3, ScreenTypes DEF KnownRows
      <3>3. QED
        BY <3>1, <3>2
    <2>5. Same(list, rows) /\ Ids(ToSet(list)) = Ids(rows)
      BY <1>2, <1>4, SameIds DEF Mutations
    <2>6. Same(<<row>> \o list, next)
      BY <2>1, <2>2, <2>3, <2>4, <2>5, SameWhenDone
    <2>7. /\ answer.kind = "add" /\ answer.row = row /\ answer.list = list
          /\ answer.step = "answered"
      BY <1>1, <1>2, <1>4, <2>1, <2>2, <2>4, AnswerOf DEF Mutations
    <2>8. QED
      BY <2>6, <2>7 DEF Consistent, Outcome
  <1>5. CASE w.kind \in {"edit", "delete"}
    <2>1. w.row \in KnownRows(ids) /\ w.row.id \in Ids(rows) /\ answer = Answered(w, w.row)
      BY <1>5 DEF JobOK, Served
    <2>2. Same(list, rows) /\ Ids(ToSet(list)) = Ids(rows)
      BY <1>2, <1>5, SameIds DEF Mutations
    <2>3. /\ answer.kind = w.kind /\ answer.row = w.row /\ answer.list = list
          /\ answer.step = "answered"
      BY <1>1, <1>2, <1>5, <2>1, AnswerOf DEF Mutations
    <2>4. CASE w.kind = "edit"
      <3>1. next = Others(rows, w.row.id) \cup {w.row}
        BY <2>4 DEF Served
      <3>2. Same(Replaced(list, w.row), next)
        BY <2>1, <2>2, <3>1, SameWhenDone
      <3>3. QED
        BY <2>3, <2>4, <3>2 DEF Consistent, Outcome
    <2>5. CASE w.kind = "delete"
      <3>1. next = Others(rows, w.row.id)
        BY <2>5 DEF Served
      <3>2. Same(Without(list, w.row.id), Others(rows, w.row.id))
        BY <2>1, <2>2, SameWhenDone
      <3>3. QED
        BY <2>3, <2>5, <3>1, <3>2 DEF Consistent, Outcome
    <2>6. QED
      BY <1>5, <2>4, <2>5
  <1>6. CASE w.kind = "retitle"
    <2>1. PICK r \in rows : next = rows /\ r.id = w.row.id /\ answer = Answered(w, r)
      BY <1>6 DEF Served
    <2>2. r \in KnownRows(ids) /\ Same(list, rows)
      BY <1>2, <1>6 DEF Mutations
    <2>3. \A s \in ToSet(list) : s.id = r.id => s = r
      BY <2>2 DEF Same, UniqueIds
    <2>4. Replaced(list, r) = list
      BY <2>2, <2>3, Edited
    <2>5. /\ answer.kind = w.kind /\ answer.row = r /\ answer.list = list
          /\ answer.step = "answered"
      BY <1>1, <1>2, <1>6, <2>1, <2>2, AnswerOf DEF Mutations
    <2>6. QED
      BY <1>6, <2>1, <2>2, <2>4, <2>5 DEF Consistent, Outcome
  <1>7. QED
    BY <1>3, <1>4, <1>5, <1>6 DEF Writers, Mutations

(* Nothing is said of a list that may be spoilt.                            *)
LEMMA NotClean == ~Clean' => ListInv'
  BY DEF ListInv, LiveInv, LoadInv, CredentialsInv, DocumentsInv, BadgesInv

LEMMA CleanJobs ==
  ASSUME TypeInv, LiveInv, Clean, NEW j \in Jobs
  PROVE  /\ job[j].live = TRUE \/ job[j] = NoJob
         /\ Writing(job[j]) <=> job[j].kind \in Writers
         /\ job[j].kind = "load" => Writing(job[j])
         /\ j \in Done("add") \/ j \in Done("delete") => Writing(job[j])
  <1>1. (job[j].live /\ job[j].live \in BOOLEAN) \/ job[j] = NoJob
    BY Waits DEF LiveInv
  <1>2. NoJob.kind \notin Writers /\ {"load", "add", "delete"} \subseteq Writers
    BY ScreenTypes DEF Writers, Mutations
  <1>3. QED
    BY <1>1, <1>2 DEF Writing, Done

LEMMA AddedTypes ==
  ASSUME TypeInv, NEW j \in Done("add")
  PROVE  j \in Jobs /\ job[j].row \in KnownRows(used) /\ job[j].row.id # Null
  <1>1. j \in Jobs /\ job[j].row \in KnownRows(used)
    BY Waits DEF Done, JobOK
  <1>2. QED
    BY <1>1, ScreenTypes DEF KnownRows

(* What the calls that only read leave alone.                               *)
LEMMA QuietStep ==
  ASSUME TypeInv, TypeInv', ListInv, UNCHANGED <<screen, server, mounted, items, badges>>,
         "list" \in crossed => "list" \in crossed',
         "badges" \in crossed => "badges" \in crossed',
         \A j \in Jobs : job'[j] = job[j] \/ (job[j].kind \in Aside /\ job'[j].kind \in Aside),
         screen = "documents" => dialog'.item.id \in {dialog.item.id, Null} \cup Ids(ToSet(items))
  PROVE  ListInv'
  <1> SUFFICES ASSUME Clean' PROVE ListInv'
    BY NotClean
  <1>1. Clean
    BY DEF Clean
  <1>2. {"load", "add", "delete", "analysis"} \cap Aside = {} /\ Writers \cap Aside = {}
    BY DEF Aside, Decryptions, Writers, Mutations
  <1>3. LiveInv'
    <2> SUFFICES ASSUME NEW j \in Jobs PROVE (job[j].live \/ job[j] = NoJob)'
      BY DEF LiveInv
    <2>1. CASE job'[j] = job[j]
      BY <1>1, <2>1 DEF ListInv, LiveInv
    <2>2. CASE job'[j].kind \in Aside
      <3>1. job'[j].kind \notin Mutations
        BY <1>2, <2>2 DEF Writers
      <3>2. QED
        BY <3>1 DEF TypeInv, JobsOK, JobOK
    <2>3. QED
      BY <2>1, <2>2
  <1>4. \A j \in Jobs : /\ Writing(job[j])' <=> Writing(job[j])
                        /\ Writing(job[j]) => job'[j] = job[j]
                        /\ job'[j].kind = "load" <=> job[j].kind = "load"
                        /\ job[j].kind = "load" => job'[j] = job[j]
                        /\ job'[j].kind = "analysis" <=> job[j].kind = "analysis"
                        /\ job[j].kind = "analysis" => job'[j] = job[j]
                        /\ job'[j].kind = "delete" <=> job[j].kind = "delete"
                        /\ job[j].kind \in {"add", "delete"} => job'[j] = job[j]
                        /\ job'[j].kind = "add" <=> job[j].kind = "add"
    BY <1>2 DEF Writing
  <1>5. LoadInv'
    BY <1>1, <1>4 DEF ListInv, LoadInv
  <1>6. CredentialsInv'
    BY <1>1, <1>4 DEF ListInv, CredentialsInv
  <1>7. BadgesInv'
    BY <1>1, <1>4 DEF ListInv, BadgesInv
  <1>8. DocumentsInv'
    <2> SUFFICES ASSUME screen = "documents", \A j \in Jobs : job[j].kind # "load", Settled
                 PROVE  Settled'
      BY <1>1, <1>4 DEF ListInv, DocumentsInv
    <2>1. Done("add")' = Done("add") /\ Done("delete")' = Done("delete")
      BY <1>4 DEF Done
    <2>2. AddedRows' = AddedRows /\ RemovedIds' = RemovedIds
      BY <1>4, <2>1 DEF AddedRows, RemovedIds, Done
    <2>3. \A j \in Done("add") : job'[j] = job[j]
      BY <1>4 DEF Done
    <2>4. \A j \in Done("add") : dialog'.item.id # job[j].row.id
      BY AddedTypes DEF Settled
    <2>5. \A i \in Jobs : job'[i].kind = "delete" => job[i].kind = "delete" /\ job'[i] = job[i]
      BY <1>4
    <2>6. QED
      BY <2>1, <2>2, <2>3, <2>4, <2>5 DEF Settled
  <1>9. QED
    BY <1>3, <1>5, <1>6, <1>7, <1>8 DEF ListInv

LEMMA FlagsApart ==
  ASSUME NEW flag, NEW spoilt, Flagged(flag, spoilt)
  PROVE  \A other : other # flag => (other \in crossed' <=> other \in crossed)
  BY DEF Flagged

LEMMA QuietDialog ==
  ASSUME TypeInv, TypeInv', ListInv,
         \/ Dismiss \/ UNCHANGED screenVars
         \/ \E kind \in {"add", "edit", "delete"} : Open(kind) \/ OpenFromView(kind)
  PROVE  ListInv'
  <1>1. /\ UNCHANGED <<screen, server, mounted, items, badges>> /\ UNCHANGED job
        /\ "list" \in crossed => "list" \in crossed'
        /\ "badges" \in crossed => "badges" \in crossed'
    BY FlagsApart DEF Dismiss, Open, OpenFromView, Untouched, screenVars
  <1>2. dialog'.item.id \in {dialog.item.id, Null} \cup Ids(ToSet(items))
    <2>1. CASE Dismiss
      BY <2>1, Shown, ScreenTypes DEF Dismiss
    <2>2. CASE UNCHANGED screenVars
      BY <2>2 DEF screenVars
    <2>3. ASSUME NEW kind \in {"add", "edit", "delete"}, Open(kind) \/ OpenFromView(kind)
          PROVE  dialog'.item.id \in {dialog.item.id, Null} \cup Ids(ToSet(items))
      <3>1. PICK r \in ToSet(items) \cup {NoRow, dialog.item} : dialog' = Opened(kind, r)
        BY <2>3 DEF Open, OpenFromView
      <3>2. r \in Row \cup {NoRow}
        BY Shown
      <3>3. dialog'.item = r
        BY <3>1, <3>2, ScreenTypes
      <3>4. QED
        BY <3>1, <3>3, ScreenTypes DEF Ids
    <2>4. QED
      BY <2>1, <2>2, <2>3
  <1>3. QED
    BY <1>1, <1>2, QuietStep

LEMMA QuietClick ==
  ASSUME TypeInv, TypeInv', ListInv, NEW j \in Jobs,
         OpenView(j) \/ Reveal(j) \/ RevealExisting(j)
  PROVE  ListInv'
  <1>1. /\ UNCHANGED <<screen, server, mounted, items, badges>>
        /\ "list" \in crossed => "list" \in crossed'
        /\ "badges" \in crossed => "badges" \in crossed'
    BY FlagsApart DEF OpenView, Reveal, RevealExisting, Untouched
  <1>2. screen # "documents"
    BY DEF OpenView, Reveal, RevealExisting, TypeInv, DialogOK
  <1>a. PICK kind \in Decryptions \cup {"get"} : \E row : Start(j, kind, row, <<>>)
    BY DEF OpenView, Reveal, RevealExisting, Decryptions
  <1>3. PICK row : Start(j, kind, row, <<>>)
    BY <1>a
  <1>4. PICK w : w = [kind |-> kind, step |-> "sent", live |-> TRUE, row |-> row, list |-> <<>>]
    OBVIOUS
  <1>5. job' = [job EXCEPT ![j] = w] /\ job[j] = NoJob /\ w.kind \in Aside
    BY <1>3, <1>4 DEF Start, Aside
  <1>6. job'[j] = w /\ \A i \in Jobs : i # j => job'[i] = job[i]
    BY <1>5, OneJob DEF TypeInv, JobsOK
  <1>7. job[j].kind \in Aside
    BY <1>5, ScreenTypes DEF Aside
  <1>8. QED
    BY <1>1, <1>2, <1>5, <1>6, <1>7, QuietStep

LEMMA QuietFinish ==
  ASSUME TypeInv, TypeInv', ListInv, NEW j \in Jobs,
         Viewed(j) \/ Decrypted(j) \/ (Failed(j) /\ job[j].kind = "get")
  PROVE  ListInv'
  <1>1. /\ UNCHANGED <<screen, server, mounted, items, badges>> /\ crossed \subseteq crossed'
        /\ job[j].kind \in Aside /\ job[j].kind \in {"get", "reveal", "existing"}
        /\ Finish(j)
    BY DEF Viewed, Decrypted, Failed, Untouched, Aside, Decryptions
  <1>2. job'[j] = NoJob /\ \A i \in Jobs : i # j => job'[i] = job[i]
    BY <1>1, Finished
  <1>3. screen # "documents"
    BY <1>1 DEF TypeInv, JobsOK
  <1>4. NoJob.kind \in Aside
    BY ScreenTypes DEF Aside
  <1>5. QED
    BY <1>1, <1>2, <1>3, <1>4, QuietStep

LEMMA MountStep ==
  ASSUME TypeInv, NEW j \in Jobs, Mount(j)
  PROVE  ListInv'
  <1> SUFFICES ASSUME Clean' PROVE ListInv'
    BY NotClean
  <1>1. \A i \in Jobs : job[i].kind \notin Mutations
    BY DEF Mount, Clean
  <1>2. \A i \in Jobs : job[i] = NoJob
    BY <1>1, Waits DEF Mount, TypeInv, Gone, JobOK
  <1>3. PICK w : w = [kind |-> "load", step |-> "sent", live |-> TRUE, row |-> NoRow, list |-> <<>>]
    OBVIOUS
  <1>4. job' = [job EXCEPT ![j] = w]
    BY <1>3 DEF Mount, Start
  <1>5. job'[j] = w /\ \A i \in Jobs : i # j => job'[i] = NoJob
    BY <1>2, <1>4, OneJob DEF TypeInv, JobsOK
  <1>6. w.kind = "load" /\ w.step = "sent" /\ w.live
    BY <1>3
  <1>7. \A i \in Jobs : i # j => ~Writing(job[i])' /\ job'[i].kind # "load"
    BY <1>5, ScreenTypes DEF Writing
  <1>8. LiveInv' /\ LoadInv'
    BY <1>5, <1>6, <1>7 DEF LiveInv, LoadInv
  <1>9. Writing(job[j])' /\ Consistent(w, items', server')
    BY <1>5, <1>6 DEF Writing, Writers, Consistent, Mutations
  <1>10. CredentialsInv'
    BY <1>5, <1>7, <1>9 DEF CredentialsInv
  <1>11. DocumentsInv' /\ BadgesInv'
    BY <1>5, <1>6 DEF DocumentsInv, BadgesInv
  <1>12. QED
    BY <1>8, <1>10, <1>11 DEF ListInv

LEMMA LeaveStep == Leave => ListInv'
  BY NotClean DEF Leave, Clean

LEMMA AnalyzedStep ==
  ASSUME TypeInv, ListInv, NEW j \in Jobs, Analyzed(j)
  PROVE  ListInv'
  <1> SUFFICES ASSUME Clean' PROVE ListInv'
    BY NotClean
  <1>1. /\ UNCHANGED <<screen, server, mounted, items>> /\ UNCHANGED <<dialog, crossed>>
        /\ badges' = Analyze(job[j].list) /\ job[j].kind = "analysis"
        /\ job'[j] = NoJob /\ \A i \in Jobs : i # j => job'[i] = job[i]
    BY Finished DEF Analyzed
  <1>2. Clean /\ screen # "documents"
    BY <1>1 DEF Clean, TypeInv, JobsOK
  <1>3. \A i \in Jobs : /\ Writing(job[i])' <=> Writing(job[i])
                        /\ Writing(job[i]) => job'[i] = job[i]
                        /\ job'[i].kind = "load" <=> job[i].kind = "load"
    BY <1>1, ScreenTypes DEF Writing, Writers, Mutations
  <1>4. LiveInv' /\ LoadInv' /\ CredentialsInv' /\ DocumentsInv'
    BY <1>1, <1>2, <1>3 DEF ListInv, LiveInv, LoadInv, CredentialsInv, DocumentsInv
  <1>5. BadgesInv'
    <2> SUFFICES ASSUME BadgesInv, "badges" \notin crossed, screen = "credentials",
                        \A i \in Jobs : job[i].kind # "load"
                 PROVE  /\ \A i \in Jobs : job'[i].kind = "analysis" => job'[i].list = items'
                        /\ badges' = Analyze(items')
      BY <1>1, <1>3 DEF ListInv, BadgesInv
    <2>1. \A i \in Jobs : job[i].kind = "analysis" => job[i].list = items
      BY <1>2 DEF BadgesInv
    <2>2. QED
      BY <1>1, <2>1, ScreenTypes
  <1>6. QED
    BY <1>4, <1>5 DEF ListInv

(* A call that the API has not taken up yet does not count.                 *)
LEMMA SettledBySent ==
  ASSUME Settled, UNCHANGED <<server, items, dialog>>, NEW j \in Jobs,
         \A i \in Jobs : i # j => job'[i] = job[i],
         job[j].step # "answered", job'[j].step # "answered",
         job'[j].kind = "delete" => job'[j].row = dialog.item
  PROVE  Settled'
  <1>1. \A kind : Done(kind)' = Done(kind) /\ j \notin Done(kind)
    BY DEF Done
  <1>2. \A kind : \A i \in Done(kind) : job'[i] = job[i]
    BY <1>1 DEF Done
  <1>3. AddedRows' = AddedRows /\ RemovedIds' = RemovedIds
    BY <1>1, <1>2 DEF AddedRows, RemovedIds
  <1>4. \A i \in Jobs : job'[i].kind = "delete" =>
          job'[i].row = dialog.item \/ (job[i].kind = "delete" /\ job'[i].row = job[i].row)
    OBVIOUS
  <1>5. QED
    BY <1>1, <1>2, <1>3, <1>4 DEF Settled

LEMMA SubmitStep ==
  ASSUME TypeInv, ListInv, NEW j \in Jobs, NEW kind \in Mutations, NEW row \in Draft,
         Submitted(j, kind, row)
  PROVE  ListInv'
  <1> SUFFICES ASSUME Clean' PROVE ListInv'
    BY NotClean
  <1>1. /\ UNCHANGED <<screen, server, used, mounted, items, badges>> /\ UNCHANGED dialog
        /\ Clean /\ crossed' = crossed /\ ~Overlap
    BY DEF Submitted, Submit, Untouched, Clean
  <1>2. PICK w : w = [kind |-> kind, step |-> "sent", live |-> TRUE, row |-> row,
                      list |-> IF screen = "credentials" THEN items ELSE <<>>]
    OBVIOUS
  <1>3. /\ job' = [job EXCEPT ![j] = w] /\ job[j] = NoJob
        /\ w.kind = kind /\ w.step = "sent" /\ w.live /\ w.row = row
        /\ screen = "credentials" => w.list = items
    BY <1>2 DEF Submitted, Submit, Start
  <1>4. job'[j] = w /\ \A i \in Jobs : i # j => job'[i] = job[i]
    BY <1>3, OneJob DEF TypeInv, JobsOK
  <1>5. /\ \A i \in Jobs : job[i].kind # "load"
        /\ screen = "credentials" => \A i \in Jobs : ~Writing(job[i])
    BY <1>1, CleanJobs DEF Overlap, Busy, ListInv, Writing, Writers
  <1>6. w.kind # "load" /\ w.kind \in Writers /\ w.kind # "analysis"
    BY <1>3 DEF Writers, Mutations
  <1>7. LiveInv' /\ LoadInv'
    BY <1>1, <1>3, <1>4, <1>5, <1>6 DEF ListInv, LiveInv, LoadInv
  <1>8. CredentialsInv'
    <2> SUFFICES ASSUME screen = "credentials" PROVE CredentialsInv'
      BY <1>1 DEF CredentialsInv
    <2>1. Same(items, server)
      BY <1>1, <1>5 DEF ListInv, CredentialsInv
    <2>2. Consistent(w, items, server)
      BY <1>3, <2>1 DEF Consistent
    <2>3. Writing(job[j])' /\ \A i \in Jobs : i # j => ~Writing(job[i])'
      BY <1>3, <1>4, <1>5, <1>6 DEF Writing
    <2>4. QED
      BY <1>1, <1>4, <2>2, <2>3 DEF CredentialsInv
  <1>9. DocumentsInv'
    <2> SUFFICES ASSUME screen = "documents" PROVE DocumentsInv'
      BY <1>1 DEF DocumentsInv
    <2>1. Settled
      BY <1>1, <1>5 DEF ListInv, DocumentsInv
    <2>2. job[j].step # "answered" /\ (w.kind = "delete" => w.row = dialog.item)
      BY <1>3, ScreenTypes DEF Submitted
    <2>3. Settled'
      BY <1>1, <1>3, <1>4, <2>1, <2>2, SettledBySent
    <2>4. QED
      BY <1>3, <1>4, <1>5, <1>6, <2>3 DEF DocumentsInv
  <1>10. BadgesInv'
    <2>1. \A i \in Jobs : /\ job'[i].kind = "analysis" <=> job[i].kind = "analysis"
                          /\ job[i].kind = "analysis" => job'[i] = job[i]
      BY <1>3, <1>4, <1>6, ScreenTypes
    <2>2. QED
      BY <1>1, <1>5, <2>1 DEF ListInv, BadgesInv
  <1>11. QED
    BY <1>7, <1>8, <1>9, <1>10 DEF ListInv

LEMMA FailedStep ==
  ASSUME TypeInv, ListInv, NEW j \in Jobs, Failed(j), job[j].kind # "get"
  PROVE  ListInv'
  <1> SUFFICES ASSUME Clean' PROVE ListInv'
    BY NotClean
  <1>1. /\ UNCHANGED <<screen, server, used, mounted, items, badges>> /\ UNCHANGED dialog
        /\ Clean /\ crossed' = crossed /\ job[j].kind \in Mutations /\ job[j].step # "answered"
    BY DEF Failed, Untouched, Clean, Requests
  <1>2. job'[j] = NoJob /\ \A i \in Jobs : i # j => job'[i] = job[i]
    BY Finished DEF Failed
  <1>3. /\ Writing(job[j]) /\ ~Writing(NoJob) /\ job[j].step = "sent"
        /\ job[j].kind \notin {"load", "analysis"}
    <2>1. job[j].kind \in Writers /\ job[j].kind \notin {"idle", "load", "analysis"}
      BY <1>1 DEF Writers, Mutations
    <2>2. job[j].step = "sent"
      BY <1>1, <2>1, Waits, ScreenTypes DEF JobOK
    <2>3. QED
      BY <1>1, <2>1, <2>2, CleanJobs, ScreenTypes DEF ListInv, Writing
  <1>4. LiveInv' /\ LoadInv'
    BY <1>1, <1>2, <1>3, ScreenTypes DEF ListInv, LiveInv, LoadInv
  <1>5. CredentialsInv'
    <2> SUFFICES ASSUME screen = "credentials" PROVE CredentialsInv'
      BY <1>1 DEF CredentialsInv
    <2>1. /\ \A i \in Jobs : Writing(job[i]) => i = j
          /\ Consistent(job[j], items, server)
      BY <1>1, <1>3 DEF ListInv, CredentialsInv
    <2>2. Same(items, server)
      BY <1>1, <1>3, <2>1 DEF Consistent
    <2>3. \A i \in Jobs : ~Writing(job[i])'
      BY <1>2, <1>3, <2>1 DEF Writing
    <2>4. QED
      BY <1>1, <2>2, <2>3 DEF CredentialsInv
  <1>6. \A i \in Jobs : /\ job'[i].kind = "load" <=> job[i].kind = "load"
                        /\ job[i].kind = "load" => job'[i] = job[i]
                        /\ job'[i].kind = "analysis" <=> job[i].kind = "analysis"
                        /\ job[i].kind = "analysis" => job'[i] = job[i]
    BY <1>2, <1>3, ScreenTypes
  <1>7. DocumentsInv'
    <2>1. Settled => Settled'
      BY <1>1, <1>2, ScreenTypes, SettledBySent
    <2>2. QED
      BY <1>1, <1>6, <2>1 DEF ListInv, DocumentsInv
  <1>8. BadgesInv'
    BY <1>1, <1>6 DEF ListInv, BadgesInv
  <1>9. QED
    BY <1>4, <1>5, <1>7, <1>8 DEF ListInv

LEMMA SettledByAdd ==
  ASSUME TypeInv, Settled, NEW j \in Done("add"), UNCHANGED server,
         items' = <<job[j].row>> \o items, dialog' \in {dialog, NoDialog},
         job'[j] = NoJob, \A i \in Jobs : i # j => job'[i] = job[i]
  PROVE  Settled'
  <1>1. PICK row \in KnownRows(used) : row = job[j].row
    BY AddedTypes
  <1>2. items \in Seq(KnownRows(used))
    BY DEF TypeInv, PageOK
  <1>3. row \in AddedRows /\ row \in server /\ row.id \notin RemovedIds /\ row.id \notin Ids(ToSet(items))
    BY <1>1 DEF Settled, AddedRows, Ids
  <1>4. ToSet(items') = ToSet(items) \cup {row} /\ Distinct(items)'
    BY <1>1, <1>2, <1>3, Added DEF Settled
  <1>5. j \in Jobs /\ j \notin Done("delete") /\ NoJob.kind = "idle"
    BY ScreenTypes DEF Done
  <1>6. Done("add")' = Done("add") \ {j} /\ Done("delete")' = Done("delete")
    BY <1>5 DEF Done
  <1>7. \A i \in Done("add") \cup Done("delete") : i \in Jobs /\ (i # j => job'[i] = job[i])
    BY DEF Done
  <1>8. AddedRows = AddedRows' \cup {row} /\ RemovedIds' = RemovedIds
    <2>1. \A i \in Done("add") : i = j \/ (i \in Done("add")' /\ job'[i].row = job[i].row)
      BY <1>6, <1>7
    <2>2. \A i \in Done("add")' : i \in Done("add") /\ job'[i].row = job[i].row
      BY <1>6, <1>7
    <2>3. AddedRows = AddedRows' \cup {row}
      BY <1>1, <2>1, <2>2 DEF AddedRows
    <2>4. \A i \in Done("delete") : job'[i].row.id = job[i].row.id
      BY <1>5, <1>7
    <2>5. RemovedIds' = RemovedIds
      BY <1>6, <2>4 DEF RemovedIds
    <2>6. QED
      BY <2>3, <2>5
  <1>9. {r \in ToSet(items') : r.id \notin RemovedIds'} \cup AddedRows' = server'
    BY <1>3, <1>4, <1>8 DEF Settled
  <1>10. \A i \in Done("add")' : job'[i].row.id \notin Ids(ToSet(items'))
    <2> SUFFICES ASSUME NEW i \in Done("add"), i # j PROVE job[i].row.id \notin Ids(ToSet(items'))
      BY <1>6, <1>7
    <2>1. job[i].row.id # row.id /\ job[i].row.id \notin Ids(ToSet(items))
      BY <1>1 DEF Settled
    <2>2. QED
      BY <1>4, <2>1 DEF Ids
  <1>11. \A i \in Done("add")' : dialog'.item.id # job'[i].row.id
    BY <1>6, <1>7, AddedTypes, Shown, ScreenTypes DEF Settled
  <1>12. \A i \in Done("add")', k \in Jobs : job'[k].kind = "delete" => job'[k].row.id # job'[i].row.id
    BY <1>5, <1>6, <1>7 DEF Settled
  <1>13. (Ids(server) \cap RemovedIds = {})' /\
         \A i, k \in Done("add")' : job'[i].row.id = job'[k].row.id => i = k
    BY <1>6, <1>7, <1>8 DEF Settled, Ids
  <1>14. QED
    BY <1>4, <1>9, <1>10, <1>11, <1>12, <1>13 DEF Settled

LEMMA SettledByDelete ==
  ASSUME TypeInv, Settled, NEW j \in Done("delete"), UNCHANGED server,
         items' = Without(items, job[j].row.id), dialog' \in {dialog, NoDialog},
         job'[j] = NoJob, \A i \in Jobs : i # j => job'[i] = job[i]
  PROVE  Settled'
  <1>1. PICK id : id = job[j].row.id
    OBVIOUS
  <1>2. items \in Seq(KnownRows(used))
    BY DEF TypeInv, PageOK
  <1>3. ToSet(items') = Others(ToSet(items), id) /\ Distinct(items)'
    BY <1>1, <1>2, Deleted DEF Settled
  <1>4. j \in Jobs /\ j \notin Done("add") /\ NoJob.kind = "idle"
    BY ScreenTypes DEF Done
  <1>5. Done("delete")' = Done("delete") \ {j} /\ Done("add")' = Done("add")
    BY <1>4 DEF Done
  <1>6. \A i \in Done("add") \cup Done("delete") : i \in Jobs /\ (i # j => job'[i] = job[i])
    BY DEF Done
  <1>7. AddedRows = AddedRows' /\ RemovedIds = RemovedIds' \cup {id}
    BY <1>1, <1>4, <1>5, <1>6 DEF AddedRows, RemovedIds
  <1>8. {r \in ToSet(items') : r.id \notin RemovedIds'} = {r \in ToSet(items) : r.id \notin RemovedIds}
    BY <1>3, <1>7 DEF Others
  <1>9. \A i \in Done("add")' : job'[i].row.id \notin Ids(ToSet(items'))
    BY <1>3, <1>4, <1>5, <1>6 DEF Settled, Others, Ids
  <1>10. \A i \in Done("add")' : dialog'.item.id # job'[i].row.id
    BY <1>4, <1>5, <1>6, AddedTypes, Shown, ScreenTypes DEF Settled
  <1>11. \A i \in Done("add")', k \in Jobs : job'[k].kind = "delete" => job'[k].row.id # job'[i].row.id
    BY <1>4, <1>5, <1>6 DEF Settled
  <1>12. /\ (Ids(server) \cap RemovedIds = {})'
         /\ \A i, k \in Done("add")' : job'[i].row.id = job'[k].row.id => i = k
    BY <1>4, <1>5, <1>6, <1>7 DEF Settled, Ids
  <1>13. QED
    BY <1>3, <1>7, <1>8, <1>9, <1>10, <1>11, <1>12 DEF Settled

LEMMA LandedStep ==
  ASSUME TypeInv, TypeInv', ListInv, NEW j \in Jobs, Landed(j)
  PROVE  ListInv'
  <1> SUFFICES ASSUME Clean' PROVE ListInv'
    BY NotClean
  <1>1. /\ mounted /\ job[j].live /\ job[j].kind \in Writers /\ job[j].step = "answered"
        /\ items' = Outcome(job[j], Base(j)) /\ items' \in Seq(KnownRows(used))
        /\ dialog' \in {dialog, NoDialog} /\ UNCHANGED <<screen, server, used, mounted>>
        /\ \A i \in Jobs : i # j => job'[i] = job[i]
        /\ \/ job'[j] = NoJob
           \/ /\ screen = "credentials" /\ job'[j].kind = "analysis"
              /\ job'[j].live /\ job'[j].list = items'
    BY Landing
  <1>2. Writing(job[j])
    BY <1>1 DEF Writing
  <1>3. Clean
    BY <1>1 DEF Clean, Landed, RunHealthAnalysis, Flagged
  <1>4. job'[j].kind \in {"idle", "analysis"} /\ ~Writing(job[j])'
    BY <1>1, ScreenTypes DEF Writing, Writers, Mutations
  <1>5. LiveInv' /\ LoadInv'
    BY <1>1, <1>3, <1>4 DEF ListInv, LiveInv, LoadInv, Writing
  <1>6. screen = "credentials" =>
          /\ \A i \in Jobs : Writing(job[i]) => i = j
          /\ Same(items', server) /\ (job[j].kind = "retitle" => items' = items)
    <2> SUFFICES ASSUME screen = "credentials"
                 PROVE  /\ \A i \in Jobs : Writing(job[i]) => i = j
                        /\ Same(items', server) /\ (job[j].kind = "retitle" => items' = items)
      OBVIOUS
    <2>1. /\ \A i \in Jobs : Writing(job[i]) => i = j
          /\ Consistent(job[j], items, server)
      BY <1>2, <1>3 DEF ListInv, CredentialsInv
    <2>2. items' = Outcome(job[j], job[j].list)
      BY <1>1 DEF Base
    <2>3. Outcome(job[j], job[j].list) = Outcome(job[j], items)
      <3>1. CASE job[j].kind = "load"
        BY <3>1 DEF Outcome
      <3>2. CASE job[j].kind # "load"
        BY <1>1, <2>1, <3>2 DEF Consistent, Writers
      <3>3. QED
        BY <3>1, <3>2
    <2>4. QED
      BY <1>1, <2>1, <2>2, <2>3 DEF Consistent
  <1>7. CredentialsInv'
    BY <1>1, <1>4, <1>6 DEF CredentialsInv, Writing
  <1>8. DocumentsInv'
    <2> SUFFICES ASSUME screen = "documents" PROVE DocumentsInv'
      BY <1>1 DEF DocumentsInv
    <2>1. job'[j] = NoJob
      BY <1>1
    <2>2. CASE job[j].kind = "load"
      <3>1. PICK k \in Jobs : job[k].kind = "load" /\ (job[k].step = "answered" => Same(job[k].list, server))
        BY <1>3, <2>2 DEF ListInv, DocumentsInv
      <3>2. Same(job[j].list, server) /\ items' = job[j].list
        BY <1>1, <1>2, <1>3, <2>2, <3>1 DEF ListInv, LoadInv, Outcome
      <3>3. \A i \in Jobs : i # j => ~Writing(job[i])
        BY <1>3, <2>2 DEF ListInv, LoadInv
      <3>4. \A i \in Jobs : i # j => /\ job[i].kind # "load"
                                     /\ i \notin Done("add") /\ i \notin Done("delete")
        BY <1>3, <3>3, CleanJobs DEF ListInv
      <3>5. Done("add")' = {} /\ Done("delete")' = {}
        BY <1>1, <1>4, <3>4 DEF Done
      <3>6. AddedRows' = {} /\ RemovedIds' = {}
        BY <3>5 DEF AddedRows, RemovedIds
      <3>7. Settled'
        BY <1>1, <3>2, <3>5, <3>6 DEF Settled, Same
      <3>8. QED
        BY <1>1, <1>4, <3>4, <3>7 DEF DocumentsInv
    <2>3. CASE job[j].kind # "load"
      <3>1. \A i \in Jobs : job[i].kind # "load"
        BY <1>2, <1>3, <2>3 DEF ListInv, LoadInv
      <3>2. Settled
        BY <1>3, <3>1 DEF ListInv, DocumentsInv
      <3>3. job[j].kind \in {"add", "delete"} /\ Base(j) = items
        BY <1>1, <2>3 DEF TypeInv, JobsOK, Writers, Mutations, Base
      <3>4. CASE job[j].kind = "add"
        <4>1. items' = <<job[j].row>> \o items /\ j \in Done("add")
          BY <1>1, <3>3, <3>4 DEF Outcome, Done
        <4>2. Settled'
          BY <1>1, <2>1, <3>2, <4>1, SettledByAdd
        <4>3. QED
          BY <1>1, <1>4, <3>1, <4>2 DEF DocumentsInv
      <3>5. CASE job[j].kind = "delete"
        <4>1. items' = Without(items, job[j].row.id) /\ j \in Done("delete")
          BY <1>1, <3>3, <3>5 DEF Outcome, Done
        <4>2. Settled'
          BY <1>1, <2>1, <3>2, <4>1, SettledByDelete
        <4>3. QED
          BY <1>1, <1>4, <3>1, <4>2 DEF DocumentsInv
      <3>6. QED
        BY <3>3, <3>4, <3>5
    <2>4. QED
      BY <2>2, <2>3
  <1>9. BadgesInv'
    <2> SUFFICES ASSUME screen = "credentials", "badges" \notin crossed',
                        \A i \in Jobs : job'[i].kind # "load"
                 PROVE  /\ \A i \in Jobs : job'[i].kind = "analysis" => job'[i].list = items'
                        /\ (\A i \in Jobs : job'[i].kind # "analysis") => badges' = Analyze(items')
      BY <1>1 DEF BadgesInv
    <2>1. CASE job[j].kind = "retitle"
      <3>1. UNCHANGED <<badges, crossed>> /\ job'[j] = NoJob /\ items' = items
        BY <1>6, <2>1, Finished DEF Landed
      <3>2. \A i \in Jobs : job[i].kind # "load"
        BY <1>1, <2>1
      <3>3. QED
        BY <1>1, <1>3, <2>1, <3>1, <3>2, ScreenTypes DEF ListInv, BadgesInv
    <2>2. CASE job[j].kind # "retitle"
      <3>1. RunHealthAnalysis(j, items')
        BY <2>2 DEF Landed
      <3>2. \A i \in Jobs : job[i].kind # "analysis"
        <4>1. ~Busy({"analysis"})
          BY <3>1 DEF RunHealthAnalysis, Flagged
        <4>2. ASSUME NEW i \in Jobs, job[i].kind = "analysis" PROVE FALSE
          <5>1. job[i].live
            BY <4>2, ScreenTypes, LiveIsHere DEF Mutations
          <5>2. QED
            BY <4>1, <4>2, <5>1 DEF Busy
        <4>3. QED
          BY <4>2
      <3>3. CASE items' = <<>>
        <4>1. badges' = <<>> /\ job'[j] = NoJob
          BY <3>1, <3>3, OneJob DEF RunHealthAnalysis, TypeInv, JobsOK
        <4>2. QED
          BY <1>1, <3>2, <3>3, <4>1, NothingAnalyzed, ScreenTypes
      <3>4. CASE items' # <<>>
        <4>1. job'[j].kind = "analysis" /\ job'[j].list = items'
          <5>1. PICK w : w = [NoJob EXCEPT !.kind = "analysis", !.step = "answered",
                                           !.live = TRUE, !.list = items']
            OBVIOUS
          <5>2. job' = [job EXCEPT ![j] = w]
            BY <3>1, <3>4, <5>1 DEF RunHealthAnalysis
          <5>3. w.kind = "analysis" /\ w.list = items'
            BY <5>1 DEF NoJob
          <5>4. QED
            BY <5>2, <5>3, OneJob DEF TypeInv, JobsOK
        <4>2. QED
          BY <1>1, <3>2, <4>1
      <3>5. QED
        BY <3>3, <3>4
    <2>3. QED
      BY <2>1, <2>2
  <1>10. QED
    BY <1>5, <1>7, <1>8, <1>9 DEF ListInv

(* An added row is in nobody's hands before the page has it; a deleted row  *)
(* may still be on the page, but its id is never given again.               *)
LEMMA SettledByServe ==
  ASSUME TypeInv, Settled, NEW j \in Jobs, UNCHANGED <<items, dialog>>,
         job[j].kind \in {"add", "delete"}, job[j].step = "sent", NEW answer, job'[j] = answer,
         \A i \in Jobs : i # j => job'[i] = job[i],
         Served(job[j], answer, used, server, used', server')
  PROVE  Settled'
  <1>1. job[j] \in Job /\ job[j].row \in Draft /\ used \subseteq Items /\ server \subseteq KnownRows(used)
    BY Waits DEF TypeInv, VaultOK
  <1>2. j \notin Done("add") /\ j \notin Done("delete")
    BY DEF Done
  <1>3. \A i \in Done("add") \cup Done("delete") : i \in Jobs /\ i # j /\ job'[i] = job[i]
    BY <1>2 DEF Done
  <1>4. ToSet(items) \subseteq KnownRows(used) /\ dialog.item \in KnownRows(used) \cup {NoRow}
    BY Shown
  <1>5. \A i \in Jobs : job[i].kind = "delete" => job[i].row \in KnownRows(used)
    BY WaitsForARow
  <1>6. CASE job[j].kind = "add"
    <2>1. PICK id \in Items \ used :
            /\ used' = used \cup {id} /\ server' = server \cup {[job[j].row EXCEPT !.id = id]}
            /\ answer = Answered(job[j], [job[j].row EXCEPT !.id = id])
      BY <1>6 DEF Served
    <2>2. PICK row : row = [job[j].row EXCEPT !.id = id]
      OBVIOUS
    <2>3. row \in KnownRows(used') /\ row.id = id
      <3>1. PICK draft \in Draft : draft = job[j].row
        BY <1>1
      <3>2. /\ [draft EXCEPT !.id = id] \in KnownRows(used \cup {id})
            /\ [draft EXCEPT !.id = id].id = id /\ id \notin Ids(server)
        BY <1>1, KnownRow
      <3>3. QED
        BY <2>1, <2>2, <3>1, <3>2
    <2>4. row \in Draft /\ id # Null
      BY <2>3, ScreenTypes DEF KnownRows
    <2>5. answer.kind = "add" /\ answer.step = "answered" /\ answer.row = row
      BY <1>1, <1>6, <2>1, <2>2, <2>4, AnswerOf
    <2>6. \A r \in KnownRows(used) : r.id # id
      BY <2>1 DEF KnownRows
    <2>7. Done("add")' = Done("add") \cup {j} /\ Done("delete")' = Done("delete")
      BY <1>2, <1>6, <2>5 DEF Done
    <2>8. AddedRows' = AddedRows \cup {row}
      <3>1. \A i \in Done("add") : i \in Done("add")' /\ job'[i].row = job[i].row
        BY <1>3, <2>7
      <3>2. \A i \in Done("add")' : \/ i = j
                                    \/ i \in Done("add") /\ job'[i].row = job[i].row
        BY <1>3, <2>7
      <3>3. j \in Done("add")' /\ job'[j].row = row
        BY <2>5, <2>7
      <3>4. QED
        BY <3>1, <3>2, <3>3 DEF AddedRows
    <2>9. RemovedIds' = RemovedIds
      <3>1. \A i \in Done("delete") : job'[i].row.id = job[i].row.id
        BY <1>3
      <3>2. QED
        BY <2>7, <3>1 DEF RemovedIds
    <2>10. {r \in ToSet(items') : r.id \notin RemovedIds'} \cup AddedRows' = server'
      BY <2>1, <2>2, <2>8, <2>9 DEF Settled
    <2>11. \A i \in Done("add")' : job'[i].row.id \notin Ids(ToSet(items'))
      BY <1>3, <1>4, <2>3, <2>5, <2>6, <2>7 DEF Settled, Ids
    <2>12. \A i \in Done("add") : job[i].row \in KnownRows(used)
      BY AddedTypes
    <2>13. \A i, k \in Done("add")' : job'[i].row.id = job'[k].row.id => i = k
      BY <1>3, <2>3, <2>5, <2>6, <2>7, <2>12 DEF Settled
    <2>14. (Ids(server) \cap RemovedIds = {})'
      <3>1. \A i \in Done("delete") : job[i].row.id # id
        BY <1>5, <2>6 DEF Done
      <3>2. id \notin RemovedIds
        BY <3>1 DEF RemovedIds
      <3>3. QED
        <4>1. Ids(server') = Ids(server) \cup {id}
          BY <2>1, <2>2, <2>3 DEF Ids
        <4>2. QED
          BY <2>9, <3>2, <4>1 DEF Settled
    <2>15. \A i \in Done("add")' : dialog'.item.id # job'[i].row.id
      BY <1>3, <1>4, <2>3, <2>4, <2>5, <2>6, <2>7, ScreenTypes DEF Settled
    <2>16. \A i \in Done("add")', k \in Jobs :
             job'[k].kind = "delete" => job'[k].row.id # job'[i].row.id
      <3>1. \A k \in Jobs : job'[k].kind = "delete" =>
              k # j /\ job'[k].row.id = job[k].row.id /\ job[k].kind = "delete" /\ job[k].row.id # id
        BY <1>5, <2>5, <2>6
      <3>2. \A i \in Done("add")' : i \in Done("add") \/ job'[i].row.id = id
        BY <2>3, <2>5, <2>7
      <3>3. QED
        BY <1>3, <3>1, <3>2 DEF Settled
    <2>17. QED
      BY <2>10, <2>11, <2>13, <2>14, <2>15, <2>16 DEF Settled
  <1>7. CASE job[j].kind = "delete"
    <2>1. PICK id : id = job[j].row.id
      OBVIOUS
    <2>2. server' = Others(server, id) /\ answer = Answered(job[j], job[j].row)
      BY <1>7, <2>1 DEF Served
    <2>3. answer.kind = "delete" /\ answer.step = "answered" /\ answer.row = job[j].row
      BY <1>1, <1>7, <2>2, AnswerOf
    <2>4. Done("delete")' = Done("delete") \cup {j} /\ Done("add")' = Done("add")
      BY <1>2, <1>7, <2>3 DEF Done
    <2>5. AddedRows' = AddedRows
      <3>1. \A i \in Done("add") : job'[i].row = job[i].row
        BY <1>3
      <3>2. QED
        BY <2>4, <3>1 DEF AddedRows
    <2>6. RemovedIds' = RemovedIds \cup {id}
      <3>1. \A i \in Done("delete") : i \in Done("delete")' /\ job'[i].row.id = job[i].row.id
        BY <1>3, <2>4
      <3>2. \A i \in Done("delete")' : \/ i = j
                                       \/ i \in Done("delete") /\ job'[i].row.id = job[i].row.id
        BY <1>3, <2>4
      <3>3. j \in Done("delete")' /\ job'[j].row.id = id
        BY <2>1, <2>3, <2>4
      <3>4. QED
        BY <3>1, <3>2, <3>3 DEF RemovedIds
    <2>7. \A i \in Done("add") : job[i].row.id # id
      BY <1>7, <2>1 DEF Settled
    <2>8. \A r \in AddedRows : r.id # id
      BY <2>7 DEF AddedRows
    <2>9. {r \in ToSet(items') : r.id \notin RemovedIds'} \cup AddedRows' = server'
      <3>1. {r \in ToSet(items) : r.id \notin RemovedIds} \cup AddedRows = server
        BY DEF Settled
      <3>2. QED
        BY <2>2, <2>5, <2>6, <2>8, <3>1 DEF Others
    <2>10. (Ids(server) \cap RemovedIds = {})'
      BY <2>2, <2>6 DEF Settled, Ids, Others
    <2>11. \A i, k \in Done("add")' : job'[i].row.id = job'[k].row.id => i = k
      BY <1>3, <2>4 DEF Settled
    <2>12. \A i \in Done("add")' : /\ job'[i].row.id \notin Ids(ToSet(items'))
                                   /\ dialog'.item.id # job'[i].row.id
      BY <1>3, <2>4 DEF Settled
    <2>13. \A i \in Done("add")', k \in Jobs :
             job'[k].kind = "delete" => job'[k].row.id # job'[i].row.id
      <3>1. \A k \in Jobs : job'[k].kind = "delete" =>
              job[k].kind = "delete" /\ job'[k].row.id = job[k].row.id
        BY <1>7, <2>3
      <3>2. QED
        BY <1>3, <2>4, <3>1 DEF Settled
    <2>14. QED
      BY <2>9, <2>10, <2>11, <2>12, <2>13 DEF Settled
  <1>8. QED
    BY <1>6, <1>7

LEMMA ServeStep ==
  ASSUME TypeInv, TypeInv', ListInv, NEW j \in Jobs, Serve(j)
  PROVE  ListInv'
  <1> SUFFICES ASSUME Clean' PROVE ListInv'
    BY NotClean
  <1>1. UNCHANGED <<screen, mounted, items, badges>> /\ UNCHANGED <<dialog, crossed>>
    BY Serving
  <1>2. Clean
    BY <1>1 DEF Clean
  <1>3. PICK answer :
           /\ Served(job[j], answer, used, server, used', server')
           /\ job[j].live => job'[j] = answer /\ JobOK(answer, used')
           /\ answer.kind = job[j].kind /\ job[j].step = "sent"
           /\ \A i \in Jobs : i # j => job'[i] = job[i]
    BY Answering
  <1>4. job[j] # NoJob /\ job[j].live = TRUE
    BY <1>2, <1>3, ScreenTypes, CleanJobs DEF ListInv
  <1>5. /\ job'[j] = answer /\ answer.kind = job[j].kind
        /\ job[j].kind \in Requests
    BY <1>3, <1>4 DEF Served, Requests, Mutations
  <1>6. CASE job[j].kind = "get"
    <2>1. server' = server
      BY <1>3, <1>6 DEF Served
    <2>2. QED
      BY <1>1, <1>3, <1>5, <1>6, <2>1, QuietStep DEF Aside
  <1>7. CASE job[j].kind \in Writers
    <2>1. answer.live = TRUE
      <3>1. answer = [job[j] EXCEPT !.step = "answered", !.list = SetToSeq(server)]
              \/ \E r \in Draft : answer = Answered(job[j], r)
        <4>1. server \subseteq KnownRows(used) /\ KnownRows(used) \subseteq Draft
          BY ScreenTypes DEF TypeInv, VaultOK, KnownRows
        <4>2. \A id \in Items : [job[j].row EXCEPT !.id = id] \in Draft
          BY Waits DEF Draft
        <4>3. QED
          BY <1>3, <4>1, <4>2, Waits DEF Served
      <3>2. QED
        <4>1. CASE answer = [job[j] EXCEPT !.step = "answered", !.list = SetToSeq(server)]
          BY <1>4, <4>1, Waits DEF Job
        <4>2. ASSUME NEW r \in Draft, answer = Answered(job[j], r) PROVE answer.live = TRUE
          BY <1>4, <4>2, Waits, AnswerOf
        <4>3. QED
          BY <3>1, <4>1, <4>2
    <2>2. Writing(job[j]) /\ Writing(job[j])'
      BY <1>4, <1>5, <1>7, <2>1 DEF Writing
    <2>3. LiveInv' /\ LoadInv'
      BY <1>2, <1>3, <1>5, <2>1, <2>2 DEF ListInv, LiveInv, LoadInv, Writing
    <2>4. CredentialsInv'
      <3> SUFFICES ASSUME screen = "credentials" PROVE CredentialsInv'
        BY <1>1 DEF CredentialsInv
      <3>1. /\ \A i \in Jobs : Writing(job[i]) => i = j
            /\ Consistent(job[j], items, server)
        BY <1>2, <2>2 DEF ListInv, CredentialsInv
      <3>2. Consistent(answer, items, server')
        <4>1. /\ used \subseteq Items /\ server \subseteq KnownRows(used) /\ IsFiniteSet(server)
              /\ UniqueIds(server) /\ items \in Seq(KnownRows(used)) /\ JobOK(job[j], used)
          BY Waits DEF TypeInv, VaultOK, PageOK
        <4>2. QED
          BY <1>3, <1>7, <3>1, <4>1, ServedIsConsistent
      <3>3. \A i \in Jobs : Writing(job[i])' => i = j
        BY <1>3, <3>1 DEF Writing
      <3>4. QED
        BY <1>1, <1>5, <2>2, <3>2, <3>3 DEF CredentialsInv
    <2>5. DocumentsInv'
      <3> SUFFICES ASSUME screen = "documents" PROVE DocumentsInv'
        BY <1>1 DEF DocumentsInv
      <3>1. CASE job[j].kind = "load"
        <4>1. server' = server /\ answer = [job[j] EXCEPT !.step = "answered", !.list = SetToSeq(server)]
          BY <1>3, <3>1 DEF Served
        <4>2. answer.list = SetToSeq(server)
          BY <4>1, Waits DEF Job
        <4>3. Same(SetToSeq(server), server)
          BY SameOfSet DEF TypeInv, VaultOK
        <4>4. QED
          BY <1>5, <3>1, <4>1, <4>2, <4>3 DEF DocumentsInv
      <3>2. CASE job[j].kind # "load"
        <4>1. \A i \in Jobs : job[i].kind # "load"
          BY <1>2, <2>2, <3>2 DEF ListInv, LoadInv
        <4>2. Settled /\ job[j].kind \in {"add", "delete"}
          BY <1>2, <1>7, <4>1 DEF ListInv, DocumentsInv, TypeInv, JobsOK, Writers, Mutations
        <4>3. Settled'
          BY <1>1, <1>3, <1>5, <4>2, SettledByServe
        <4>4. QED
          BY <1>3, <1>5, <4>1, <4>3 DEF DocumentsInv
      <3>3. QED
        BY <3>1, <3>2
    <2>6. BadgesInv'
      <3>1. job[j].kind # "analysis"
        BY <1>7 DEF Writers, Mutations
      <3>2. \A i \in Jobs : /\ job'[i].kind = job[i].kind
                            /\ job[i].kind = "analysis" => job'[i] = job[i]
        BY <1>3, <1>5, <3>1
      <3>3. QED
        BY <1>1, <1>2, <3>2 DEF ListInv, BadgesInv
    <2>7. QED
      BY <2>3, <2>4, <2>5, <2>6 DEF ListInv
  <1>8. QED
    BY <1>5, <1>6, <1>7 DEF Requests, Writers

LEMMA ListStep == TypeInv /\ ListInv /\ [ScreenNext]_screenVars => ListInv'
  <1> SUFFICES ASSUME TypeInv, ListInv, [ScreenNext]_screenVars PROVE ListInv'
    OBVIOUS
  <1>0. TypeInv'
    BY TypesStep
  <1>1. ASSUME NEW j \in Jobs, Serve(j) PROVE ListInv'
    BY <1>0, <1>1, ServeStep
  <1>2. ASSUME NEW j \in Jobs, Mount(j) PROVE ListInv'
    BY <1>2, MountStep
  <1>3. ASSUME NEW j \in Jobs, OpenView(j) \/ Reveal(j) \/ RevealExisting(j) PROVE ListInv'
    BY <1>0, <1>3, QuietClick
  <1>4. ASSUME NEW j \in Jobs, Add(j) \/ Upload(j) \/ Edit(j) \/ ConfirmDelete(j) PROVE ListInv'
    <2>1. PICK kind \in Mutations, row \in Draft : Submitted(j, kind, row)
      BY <1>4, Submissions DEF Submission
    <2>2. QED
      BY <2>1, SubmitStep
  <1>5. ASSUME NEW j \in Jobs, Landed(j) PROVE ListInv'
    BY <1>0, <1>5, LandedStep
  <1>6. ASSUME NEW j \in Jobs, Viewed(j) \/ Decrypted(j) PROVE ListInv'
    BY <1>0, <1>6, QuietFinish
  <1>7. ASSUME NEW j \in Jobs, Failed(j) PROVE ListInv'
    BY <1>0, <1>7, QuietFinish, FailedStep
  <1>8. ASSUME NEW j \in Jobs, Analyzed(j) PROVE ListInv'
    BY <1>8, AnalyzedStep
  <1>9. ASSUME NEW kind \in {"add", "edit", "delete"}, Open(kind) \/ OpenFromView(kind)
        PROVE  ListInv'
    BY <1>0, <1>9, QuietDialog
  <1>10. CASE Dismiss \/ UNCHANGED screenVars
    BY <1>0, <1>10, QuietDialog
  <1>11. CASE Leave
    BY <1>11, LeaveStep
  <1>12. QED
    BY <1>1, <1>2, <1>3, <1>4, <1>5, <1>6, <1>7, <1>8, <1>9, <1>10, <1>11 DEF ScreenNext

LEMMA ListInvIsEnough == TypeInv /\ ListInv => ListIsTheVault
  <1> SUFFICES ASSUME TypeInv, ListInv, Clean, ~Busy(Writers)
               PROVE  /\ ToSet(items) = server /\ Len(items) = Cardinality(server)
                      /\ \/ screen = "documents" \/ "badges" \in crossed \/ Busy({"analysis"})
                         \/ badges = Analyze(items)
    BY DEF ListIsTheVault, Clean, Writers
  <1>1. \A j \in Jobs : /\ ~Writing(job[j]) /\ job[j].kind # "load"
                        /\ j \notin Done("add") /\ j \notin Done("delete")
    BY CleanJobs DEF Busy, Writing, ListInv
  <1>2. Same(items, server)
    <2>1. CASE screen = "credentials"
      BY <1>1, <2>1 DEF ListInv, CredentialsInv
    <2>2. CASE screen = "documents"
      <3>1. Settled
        BY <1>1, <2>2 DEF ListInv, DocumentsInv
      <3>2. AddedRows = {} /\ RemovedIds = {}
        BY <1>1 DEF AddedRows, RemovedIds, Done
      <3>3. QED
        BY <3>1, <3>2 DEF Settled, Same
    <2>3. QED
      BY <2>1, <2>2 DEF TypeInv, VaultOK
  <1>3. Len(items) = Cardinality(server)
    BY <1>2, SameLen DEF TypeInv, PageOK
  <1>4. ASSUME screen # "documents", "badges" \notin crossed, ~Busy({"analysis"})
        PROVE  badges = Analyze(items)
    <2>1. ASSUME NEW j \in Jobs PROVE job[j].kind # "analysis"
      BY <1>4, ScreenTypes, LiveIsHere DEF Busy, Mutations
    <2>2. QED
      BY <1>1, <1>4, <2>1 DEF ListInv, BadgesInv, TypeInv, VaultOK
  <1>5. QED
    BY <1>2, <1>3, <1>4 DEF Same

(* Credentials.jsx, Documents.jsx: when no handler waits, the page lists    *)
(* the rows of the vault, each once, and shows the badges of their          *)
(* passwords, unless overlapping handlers, a failed load or a lost answer   *)
(* spoilt them.                                                             *)
THEOREM ListOfTheVault == ScreenSpec => []ListIsTheVault
  <1>1. ScreenInit => ListInv
    BY DEF ScreenInit, ListInv, LiveInv, LoadInv, CredentialsInv, DocumentsInv, BadgesInv, Clean
  <1>2. QED
    BY <1>1, ScreenInitInv, TypesStep, ListStep, ListInvIsEnough, PTL DEF ScreenSpec
=============================================================================
