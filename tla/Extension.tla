----------------------------- MODULE Extension -----------------------------
(***************************************************************************)
(* The browser extension: login forms and the popup ask its service worker *)
(* (extension/background.js), which asks the tab it knows as the vault,    *)
(* where the content script (content.js) and the application               *)
(* (ExtensionBridge.jsx) find the credentials of the domain.               *)
(*                                                                         *)
(* All of it is messages.  A question sets off a chain of them, through    *)
(* the vault tab and back, and whichever chain comes back first answers    *)
(* every question of its domain; the others come back to nobody.  Which    *)
(* credentials match a domain is left out.                                 *)
(***************************************************************************)
EXTENDS FiniteSets

CONSTANTS
  Tabs,       \* tabs that may hold the vault; the browser never reuses an id
  Asks,       \* questions that may be open at once
  Domains,
  None        \* null

ASSUME ExtensionAssumption == None \notin Tabs \cup Domains

VARIABLES
  vaultTabId, \* background.js: the tab that registered last, or None
  ask,        \* the questions; those of step waiting are pendingRequests
  chain,      \* what each question has set off
  tab,        \* the tabs
  ready,      \* the tabs whose REGISTER_VAULT_TAB is on its way
  removed,    \* the tabs whose onRemoved is
  dropped     \* history: the domains a chain was lost for since their
              \* questions were last answered

vars == <<vaultTabId, ask, chain, tab, ready, removed, dropped>>
worker == <<vaultTabId, ask>>
page == <<tab, ready, removed>>

Ask == [step : {"idle", "sent", "waiting"}, domain : Domains \cup {None}]
NoAsk == [step |-> "idle", domain |-> None]

(* get: GET_CREDENTIALS_FOR_DOMAIN is on its way to the tab.  posted: the   *)
(* content script has acknowledged it and posted it to the window.  list:   *)
(* the bridge awaits the credentials and their decryption.  forward:        *)
(* FORWARD_CREDENTIALS is on its way to the worker.                         *)
Chain == [step : {"idle", "get", "posted", "list", "forward"},
          tab : Tabs \cup {None}, domain : Domains \cup {None}]
NoChain == [step |-> "idle", tab |-> None, domain |-> None]

(* session: a session and its vault key are held.  bridge: ExtensionBridge  *)
(* is mounted; a tab that is neither may show any page.                     *)
Tab == [open : BOOLEAN, session : BOOLEAN, bridge : BOOLEAN]

Init ==
  /\ vaultTabId = None
  /\ ask = [a \in Asks |-> NoAsk]
  /\ chain = [a \in Asks |-> NoChain]
  /\ tab = [t \in Tabs |-> [open |-> TRUE, session |-> FALSE, bridge |-> FALSE]]
  /\ ready = {} /\ removed = {} /\ dropped = {}

-----------------------------------------------------------------------------
(***************************************************************************)
(* Questions.  detectAndFillForms marks its fields before it asks, so they *)
(* never ask twice; the popup asks each time it opens.                     *)
(***************************************************************************)
Question(a) ==
  /\ ask[a].step = "idle" /\ chain[a].step = "idle"
  /\ \E d \in Domains : ask' = [ask EXCEPT ![a] = [step |-> "sent", domain |-> d]]
  /\ UNCHANGED <<vaultTabId, chain, page, dropped>>

(* REQUEST_CREDENTIALS.                                                     *)
Request(a) ==
  /\ ask[a].step = "sent"
  /\ IF vaultTabId = None
       THEN /\ ask' = [ask EXCEPT ![a] = NoAsk]
            /\ UNCHANGED chain
       ELSE /\ ask' = [ask EXCEPT ![a].step = "waiting"]
            /\ chain' = [chain EXCEPT ![a] = [step |-> "get", tab |-> vaultTabId,
                                              domain |-> ask[a].domain]]
  /\ UNCHANGED <<vaultTabId, page, dropped>>

(* The page or the popup that asked is gone: its callback does nothing now. *)
GiveUp(a) ==
  /\ ask[a].step = "waiting"
  /\ ask' = [ask EXCEPT ![a] = NoAsk]
  /\ UNCHANGED <<vaultTabId, chain, page, dropped>>

(* Every callback of the domain is called and forgotten.                    *)
Waiting(a, d) == ask[a].step = "waiting" /\ ask[a].domain = d

Fulfil(d) ==
  /\ ask' = [a \in Asks |-> IF Waiting(a, d) THEN NoAsk ELSE ask[a]]
  /\ dropped' = dropped \ {d}

UnresponsiveSilent(a) ==    \* faulty variant: the callbacks are kept
  /\ chain[a].step = "get" /\ ~tab[chain[a].tab].open
  /\ vaultTabId' = None
  /\ chain' = [chain EXCEPT ![a] = NoChain]
  /\ UNCHANGED <<ask, page, dropped>>

(* runtime.lastError: the tab is not there any more.                        *)
Unresponsive(a) ==
  /\ chain[a].step = "get" /\ ~tab[chain[a].tab].open
  /\ vaultTabId' = None
  /\ Fulfil(chain[a].domain)
  /\ chain' = [chain EXCEPT ![a] = NoChain]
  /\ UNCHANGED page

(* FORWARD_CREDENTIALS.                                                     *)
Forward(a) ==
  /\ chain[a].step = "forward"
  /\ Fulfil(chain[a].domain)
  /\ chain' = [chain EXCEPT ![a] = NoChain]
  /\ UNCHANGED <<vaultTabId, page>>

(* REGISTER_VAULT_TAB: the last one wins.                                   *)
Register(t) ==
  /\ t \in ready
  /\ vaultTabId' = t
  /\ ready' = ready \ {t}
  /\ UNCHANGED <<ask, chain, tab, removed, dropped>>

(* tabs.onRemoved.                                                          *)
OnRemoved(t) ==
  /\ t \in removed
  /\ removed' = removed \ {t}
  /\ vaultTabId' = IF vaultTabId = t THEN None ELSE vaultTabId
  /\ UNCHANGED <<ask, chain, tab, ready, dropped>>

(* The browser stops a worker that looks idle: its variables are gone and   *)
(* the callbacks it held are called without an answer.                      *)
Restart ==
  /\ vaultTabId # None \/ \E a \in Asks : ask[a].step = "waiting"
  /\ vaultTabId' = None
  /\ ask' = [a \in Asks |-> IF ask[a].step = "waiting" THEN NoAsk ELSE ask[a]]
  /\ dropped' = {}
  /\ UNCHANGED <<chain, page>>

-----------------------------------------------------------------------------
(***************************************************************************)
(* The vault tab.                                                          *)
(***************************************************************************)
(* Any page of the tab has the content script, and it always acknowledges.  *)
Acknowledge(a) ==
  /\ chain[a].step = "get" /\ tab[chain[a].tab].open
  /\ chain' = [chain EXCEPT ![a].step = "posted"]
  /\ UNCHANGED <<worker, page, dropped>>

Awaited(d) == \E a \in Asks : Waiting(a, d)

(* What is lost is only missed if somebody waits for it.                    *)
Lost(lost) == dropped' = dropped \cup {d \in {chain[a].domain : a \in lost} : Awaited(d)}

KillStep(lost) ==           \* faulty variant: the tab is kept
  chain' = [a \in Asks |-> IF a \in lost THEN [chain[a] EXCEPT !.step = "idle"] ELSE chain[a]]

Kill(lost) == chain' = [a \in Asks |-> IF a \in lost THEN NoChain ELSE chain[a]]

HandleMessageUnlocked(a) == \* faulty variant: a locked vault does not answer
  LET t == tab[chain[a].tab] IN
  /\ chain[a].step = "posted"
  /\ IF t.bridge
       THEN /\ t.session
            /\ chain' = [chain EXCEPT ![a].step = "list"]
            /\ UNCHANGED dropped
       ELSE Kill({a}) /\ Lost({a})
  /\ UNCHANGED <<worker, page>>

(* The bridge takes the message; without it nobody does.                    *)
HandleMessage(a) ==
  LET t == tab[chain[a].tab] IN
  /\ chain[a].step = "posted"
  /\ IF t.bridge
       THEN /\ chain' = [chain EXCEPT ![a].step = IF t.session THEN "list" ELSE "forward"]
            /\ UNCHANGED dropped
       ELSE Kill({a}) /\ Lost({a})
  /\ UNCHANGED <<worker, page>>

(* Credentials, or none because the list or a decryption failed.            *)
Respond(a) ==
  /\ chain[a].step = "list"
  /\ chain' = [chain EXCEPT ![a].step = "forward"]
  /\ UNCHANGED <<worker, page, dropped>>

LogIn(t) ==
  /\ tab[t].open /\ ~tab[t].bridge
  /\ tab' = [tab EXCEPT ![t].session = TRUE, ![t].bridge = TRUE]
  /\ ready' = ready \cup {t}
  /\ UNCHANGED <<worker, chain, removed, dropped>>

(* A logout or the auto-lock, and the redirect that follows it.             *)
EndSession(t) ==
  /\ tab[t].session
  /\ tab' = [tab EXCEPT ![t].session = FALSE]
  /\ UNCHANGED <<worker, chain, ready, removed, dropped>>

Unmount(t) ==
  /\ tab[t].bridge /\ ~tab[t].session
  /\ tab' = [tab EXCEPT ![t].bridge = FALSE]
  /\ UNCHANGED <<worker, chain, ready, removed, dropped>>

(* The tab is closed, or loads another document; what ran in it is gone.    *)
Inside(t) == {a \in Asks : chain[a].tab = t /\ chain[a].step \in {"posted", "list"}}

Unload(t) ==
  /\ tab[t].open
  /\ \E open \in BOOLEAN :
       /\ open => tab[t].bridge
       /\ tab' = [tab EXCEPT ![t] = [open |-> open, session |-> FALSE, bridge |-> FALSE]]
       /\ removed' = IF open THEN removed ELSE removed \cup {t}
  /\ Kill(Inside(t)) /\ Lost(Inside(t))
  /\ UNCHANGED <<worker, ready>>

Deliver(a) ==
  \/ Request(a) \/ Unresponsive(a) \/ Forward(a)
  \/ Acknowledge(a) \/ HandleMessage(a) \/ Respond(a)

Next ==
  \/ \E a \in Asks :
       \/ Question(a) \/ GiveUp(a)
       \/ Request(a) \/ Unresponsive(a) \/ Forward(a)
       \/ Acknowledge(a) \/ HandleMessage(a) \/ Respond(a)
  \/ \E t \in Tabs :
       \/ Register(t) \/ OnRemoved(t)
       \/ LogIn(t) \/ EndSession(t) \/ Unmount(t) \/ Unload(t)
  \/ Restart

(* The browser delivers messages, and a list of credentials comes or fails. *)
Fairness == \A a \in Asks : WF_vars(Deliver(a))

Spec == Init /\ [][Next]_vars /\ Fairness

-----------------------------------------------------------------------------
TypeOK ==
  /\ vaultTabId \in Tabs \cup {None}
  /\ ask \in [Asks -> Ask] /\ chain \in [Asks -> Chain] /\ tab \in [Tabs -> Tab]
  /\ ready \subseteq Tabs /\ removed \subseteq Tabs /\ dropped \subseteq Domains
  /\ \A a \in Asks : /\ IF ask[a].step = "idle" THEN ask[a] = NoAsk
                       ELSE ask[a].domain # None
                    /\ IF chain[a].step = "idle" THEN chain[a] = NoChain
                       ELSE chain[a].tab # None /\ chain[a].domain # None

(***************************************************************************)
(* background.js keeps a callback until its domain is answered: for every  *)
(* question that waits a chain of its domain is under way, its own or      *)
(* another's, unless the vault tab lost one.                               *)
(***************************************************************************)
NobodyIsForgotten ==
  \A d \in Domains : Awaited(d) =>
    d \in dropped \/ \E a \in Asks : chain[a].step # "idle" /\ chain[a].domain = d

(***************************************************************************)
(* A form or a popup gets its answer, if only an empty one, unless the     *)
(* vault tab lost a chain of its domain meanwhile.                         *)
(***************************************************************************)
EveryQuestionEnds ==
  \A a \in Asks :
    ask[a].step # "idle" ~> (ask[a].step = "idle" \/ ask[a].domain \in dropped)
=============================================================================
