---------------------------- MODULE VaultScreen ----------------------------
(***************************************************************************)
(* The two vault pages of the client, Credentials.jsx and Documents.jsx:   *)
(* a list read once when the page opens, handlers that call the API and    *)
(* then edit the list, and dialogs that show one row of it.                *)
(*                                                                         *)
(* A handler goes on after its await with the values it closed over, and   *)
(* several may wait at once.  The credentials page puts back the list its  *)
(* handler saw at the click, the documents page edits the list it finds.   *)
(* A ciphertext is written as the password inside it; titles, the order of *)
(* the rows and the filter are left out, and nobody else edits the vault.  *)
(***************************************************************************)
EXTENDS Naturals, FiniteSets, SequencesExt

CONSTANTS
  Items,      \* item ids; bounds the rows ever added
  Passwords,
  Weak,       \* the passwords scored below WEAK_THRESHOLD
  Jobs,       \* calls and decryptions under way at once
  Null        \* null

ASSUME ScreenAssumption == Weak \subseteq Passwords /\ Null \notin Items \cup Passwords

VARIABLES
  screen,     \* "credentials" or "documents"
  server,     \* the vault: a set of rows
  used,       \* the ids ever given
  mounted,
  items,      \* the page's list
  badges,     \* healthFindings: item id -> status
  dialog,     \* the dialog shown
  job,        \* the handlers that wait
  crossed     \* history: what overlapping handlers may have spoilt, among
              \* "list", "badges" and "secret"

screenVars == <<screen, server, used, mounted, items, badges, dialog, job, crossed>>

Row == [id : Items, password : Passwords \cup {Null}]
NoRow == [id |-> Null, password |-> Null]

(* item and secret are viewItem and viewPlaintext, or their counterparts of *)
(* the edit dialog; whether the plaintext is masked is left out.            *)
Dialog == [kind : {"none", "add", "view", "edit", "delete"},
           item : Row \cup {NoRow}, secret : Passwords \cup {Null}, error : BOOLEAN]
Opened(kind, row) == [kind |-> kind, item |-> row, secret |-> Null, error |-> FALSE]
NoDialog == Opened("none", NoRow)

Mutations == {"add", "edit", "retitle", "delete"}
Requests == Mutations \cup {"load", "get"}
Decryptions == {"reveal", "existing"}

(* sent: the server has not acted yet.  live: the page it was started from  *)
(* is still there.  list: the items the handler closed over, or the answer  *)
(* of a load.                                                               *)
NoJob == [kind |-> "idle", step |-> "idle", live |-> FALSE, row |-> NoRow, list |-> <<>>]

ScreenInit ==
  /\ screen \in {"credentials", "documents"}
  /\ server = {} /\ used = {}
  /\ mounted = FALSE /\ items = <<>> /\ badges = <<>> /\ dialog = NoDialog
  /\ job = [j \in Jobs |-> NoJob]
  /\ crossed = {}

Busy(kinds) == \E j \in Jobs : job[j].kind \in kinds /\ job[j].live

Start(j, kind, row, list) ==
  /\ job[j] = NoJob
  /\ job' = [job EXCEPT ![j] = [kind |-> kind, step |-> "sent", live |-> TRUE,
                                row |-> row, list |-> list]]

Flagged(flag, spoilt) == crossed' = IF spoilt THEN crossed \cup {flag} ELSE crossed \ {flag}

-----------------------------------------------------------------------------
(***************************************************************************)
(* The API.                                                                *)
(***************************************************************************)
AnswerAnyway(j, answer) ==  \* faulty variant: cancelled is not looked at
  job' = [job EXCEPT ![j] = answer]

(* The page is gone: nobody goes on after the await.                        *)
Answer(j, answer) == job' = [job EXCEPT ![j] = IF job[j].live THEN answer ELSE NoJob]

Stored(id) == {r \in server : r.id = id}

Serve(j) ==
  LET kind == job[j].kind
      row == job[j].row
      Answered(r) == [job[j] EXCEPT !.step = "answered", !.row = r]
  IN
  /\ job[j].step = "sent"
  /\ \/ /\ kind = "load"
        /\ Answer(j, [job[j] EXCEPT !.step = "answered", !.list = SetToSeq(server)])
        /\ UNCHANGED <<server, used>>
     \/ /\ kind = "add"
        /\ \E id \in Items \ used :
             /\ used' = used \cup {id}
             /\ server' = server \cup {[row EXCEPT !.id = id]}
             /\ Answer(j, Answered([row EXCEPT !.id = id]))
     \/ /\ kind = "edit" /\ Stored(row.id) # {}
        /\ server' = (server \ Stored(row.id)) \cup {row}
        /\ Answer(j, Answered(row))
        /\ UNCHANGED used
     \/ /\ kind = "delete" /\ Stored(row.id) # {}
        /\ server' = server \ Stored(row.id)
        /\ Answer(j, Answered(row))
        /\ UNCHANGED used
     \/ /\ kind \in {"get", "retitle"}
        /\ \E r \in Stored(row.id) : Answer(j, Answered(r))
        /\ UNCHANGED <<server, used>>
  /\ UNCHANGED <<screen, mounted, items, badges, dialog, crossed>>

-----------------------------------------------------------------------------
(***************************************************************************)
(* Opening and leaving the page.                                           *)
(***************************************************************************)
Mount(j) ==
  /\ ~mounted
  /\ mounted' = TRUE
  /\ Start(j, "load", NoRow, <<>>)
  /\ crossed' = IF \E i \in Jobs : job[i].kind \in Mutations THEN {"list"} ELSE {}
  /\ UNCHANGED <<screen, server, used, items, badges, dialog>>

Leave ==
  /\ mounted
  /\ mounted' = FALSE
  /\ items' = <<>> /\ badges' = <<>> /\ dialog' = NoDialog
  /\ job' = [j \in Jobs |-> IF job[j].kind \in Mutations /\ job[j].step = "sent"
                              THEN [job[j] EXCEPT !.live = FALSE, !.list = <<>>]
                              ELSE NoJob]
  /\ UNCHANGED <<screen, server, used, crossed>>

-----------------------------------------------------------------------------
(***************************************************************************)
(* Clicks.                                                                 *)
(***************************************************************************)
Untouched == <<screen, server, used, mounted, items, badges>>

Open(kind) ==
  /\ mounted /\ dialog.kind = "none"
  /\ kind = "delete" \/ screen = "credentials"
  /\ IF kind = "add" THEN dialog' = Opened("add", NoRow)
     ELSE \E r \in ToSet(items) : dialog' = Opened(kind, r)
  /\ IF kind = "edit" THEN Flagged("secret", Busy({"existing"})) ELSE UNCHANGED crossed
  /\ UNCHANGED <<Untouched, job>>

(* openEditFromView, openDeleteFromView.                                    *)
OpenFromView(kind) ==
  /\ dialog.kind = "view" /\ dialog.item # NoRow
  /\ dialog' = Opened(kind, dialog.item)
  /\ IF kind = "edit" THEN Flagged("secret", Busy({"existing"})) ELSE UNCHANGED crossed
  /\ UNCHANGED <<Untouched, job>>

(* Any dialog, its handler still waiting or not.                            *)
Dismiss ==
  /\ dialog.kind # "none"
  /\ dialog' = NoDialog
  /\ UNCHANGED <<Untouched, job, crossed>>

OpenView(j) ==
  /\ mounted /\ screen = "credentials" /\ dialog.kind = "none"
  /\ \E r \in ToSet(items) : Start(j, "get", r, <<>>)
  /\ dialog' = Opened("view", NoRow)
  /\ Flagged("secret", Busy({"get", "reveal"}))
  /\ UNCHANGED Untouched

(* What a handler started now overlaps with.                                *)
Overlap == Busy(IF screen = "credentials" THEN Mutations \cup {"load"} ELSE {"load"})

(* Bound: a list that overlapping handlers may have spoilt is not edited     *)
(* again before it is read again; nothing is claimed of it until then.      *)
Submit(j, kind, row) ==
  /\ "list" \notin crossed
  /\ Start(j, kind, row, IF screen = "credentials" THEN items ELSE <<>>)
  /\ crossed' = IF Overlap THEN crossed \cup {"list"} ELSE crossed
  /\ UNCHANGED <<Untouched, dialog>>

Add(j) ==
  /\ screen = "credentials" /\ dialog.kind = "add" /\ ~Busy({"add"})
  /\ \E p \in Passwords : Submit(j, "add", [id |-> Null, password |-> p])

(* handleFiles: a drop is not refused while another upload waits.           *)
Upload(j) == mounted /\ screen = "documents" /\ Submit(j, "add", NoRow)

Edit(j) ==
  /\ dialog.kind = "edit" /\ ~Busy({"edit", "retitle"})
  /\ \/ Submit(j, "retitle", dialog.item)
     \/ \E p \in Passwords : Submit(j, "edit", [dialog.item EXCEPT !.password = p])

ConfirmDelete(j) ==
  /\ dialog.kind = "delete" /\ ~Busy({"delete"})
  /\ Submit(j, "delete", dialog.item)

(* handleReveal and handleCopyPassword: ensureViewPlaintext decrypts only    *)
(* when no plaintext is held yet.                                           *)
Reveal(j) ==
  /\ dialog.kind = "view" /\ dialog.item # NoRow /\ ~dialog.error
  /\ dialog.secret = Null
  /\ Start(j, "reveal", dialog.item, <<>>)
  /\ UNCHANGED <<Untouched, dialog, crossed>>

RevealExisting(j) ==
  /\ dialog.kind = "edit"
  /\ Start(j, "existing", dialog.item, <<>>)
  /\ UNCHANGED <<Untouched, dialog, crossed>>

-----------------------------------------------------------------------------
(***************************************************************************)
(* After the await.                                                        *)
(***************************************************************************)
(* analyzeVault: a password used twice is reused, weak or not.              *)
Analyze(list) ==
  [id \in {r.id : r \in ToSet(list)} |->
     LET p == (CHOOSE r \in ToSet(list) : r.id = id).password
     IN CASE Cardinality({i \in DOMAIN list : list[i].password = p}) > 1 -> "REUSED"
          [] OTHER -> IF p \in Weak THEN "WEAK" ELSE "OK"]

(* runHealthAnalysis: an empty list clears the badges at once.              *)
RunHealthAnalysis(j, list) ==
  /\ IF list = <<>>
       THEN badges' = <<>> /\ job' = [job EXCEPT ![j] = NoJob]
       ELSE /\ UNCHANGED badges
            /\ job' = [job EXCEPT ![j] = [NoJob EXCEPT !.kind = "analysis", !.step = "answered",
                                          !.live = TRUE, !.list = list]]
  /\ Flagged("badges", Busy({"analysis"}))

Finish(j) == job' = [job EXCEPT ![j] = NoJob]

ClosedOver(j) == job[j].list  \* faulty variant: on either page

(* The list a handler goes on with.                                         *)
Base(j) == IF screen = "credentials" THEN job[j].list ELSE items

Without(list, id) ==
  LET kept == SetToSeq({i \in DOMAIN list : list[i].id # id})
  IN [n \in DOMAIN kept |-> list[kept[n]]]

NextItems(j) ==
  LET row == job[j].row
      list == Base(j)
  IN CASE job[j].kind = "load" -> job[j].list
       [] job[j].kind = "add" -> <<row>> \o list
       [] job[j].kind \in {"edit", "retitle"} ->
            [i \in DOMAIN list |-> IF list[i].id = row.id THEN row ELSE list[i]]
       [] job[j].kind = "delete" -> Without(list, row.id)

(* The dialog a handler closes, whoever is in it by now.                    *)
Form(kind) == IF kind = "retitle" THEN "edit" ELSE kind

Landed(j) ==
  /\ job[j].step = "answered" /\ job[j].kind \in Mutations \cup {"load"}
  /\ items' = NextItems(j)
  /\ dialog' = IF dialog.kind = Form(job[j].kind) THEN NoDialog ELSE dialog
  /\ IF screen = "credentials" /\ job[j].kind # "retitle"
       THEN RunHealthAnalysis(j, NextItems(j))
       ELSE Finish(j) /\ UNCHANGED <<badges, crossed>>
  /\ UNCHANGED <<screen, server, used, mounted>>

Viewed(j) ==
  /\ job[j].step = "answered" /\ job[j].kind = "get"
  /\ dialog' = IF dialog.kind = "view" THEN [dialog EXCEPT !.item = job[j].row] ELSE dialog
  /\ Finish(j)
  /\ UNCHANGED <<Untouched, crossed>>

(* A refusal or a lost request, or the answer of what was done is lost.     *)
(* listError, viewError; the other errors change nothing modelled.          *)
Failed(j) ==
  LET kind == job[j].kind IN
  /\ kind \in Requests
  /\ crossed' = IF kind = "load" \/ (kind \in Mutations /\ job[j].step = "answered")
                  THEN crossed \cup {"list"} ELSE crossed
  /\ dialog' = IF kind = "get" /\ dialog.kind = "view"
                 THEN [dialog EXCEPT !.error = TRUE] ELSE dialog
  /\ Finish(j)
  /\ UNCHANGED Untouched

AnyDialog(kind) == dialog.kind  \* faulty variant: one plaintext for both dialogs

(* The dialog whose plaintext a decryption sets.                            *)
Holder(kind) == IF kind = "existing" THEN "edit" ELSE "view"

Decrypted(j) ==
  /\ job[j].kind \in Decryptions
  /\ \/ dialog' = IF dialog.kind # Holder(job[j].kind) THEN dialog
                  ELSE [dialog EXCEPT !.secret = job[j].row.password]
     \/ UNCHANGED dialog
  /\ Finish(j)
  /\ UNCHANGED <<Untouched, crossed>>

Analyzed(j) ==
  /\ job[j].kind = "analysis"
  /\ badges' = Analyze(job[j].list)
  /\ Finish(j)
  /\ UNCHANGED <<screen, server, used, mounted, items, dialog, crossed>>

ScreenNext ==
  \/ \E j \in Jobs :
       \/ Serve(j) \/ Mount(j)
       \/ OpenView(j) \/ Add(j) \/ Upload(j) \/ Edit(j) \/ ConfirmDelete(j)
       \/ Reveal(j) \/ RevealExisting(j)
       \/ Landed(j) \/ Viewed(j) \/ Failed(j) \/ Decrypted(j) \/ Analyzed(j)
  \/ \E kind \in {"add", "edit", "delete"} : Open(kind)
  \/ \E kind \in {"edit", "delete"} : OpenFromView(kind)
  \/ Dismiss \/ Leave

ScreenSpec == ScreenInit /\ [][ScreenNext]_screenVars

-----------------------------------------------------------------------------
ScreenTypeOK ==
  /\ screen \in {"credentials", "documents"}
  /\ server \subseteq Row /\ used \subseteq Items /\ mounted \in BOOLEAN
  /\ ToSet(items) \subseteq Row /\ dialog \in Dialog
  /\ ~mounted => items = <<>> /\ dialog = NoDialog
  /\ DOMAIN badges \subseteq Items
  /\ \A id \in DOMAIN badges : badges[id] \in {"REUSED", "WEAK", "OK"}
  /\ \A j \in Jobs :
       /\ job[j].kind \in Requests \cup Decryptions \cup {"idle", "analysis"}
       /\ job[j].row.id \in Items \cup {Null}
       /\ ToSet(job[j].list) \subseteq Row
  /\ crossed \subseteq {"list", "badges", "secret"}

(***************************************************************************)
(* Credentials.jsx, Documents.jsx: once its handlers are done the page     *)
(* shows the rows of the vault, each once, and the badges of those         *)
(* passwords, unless two handlers overlapped, the load failed or an answer *)
(* was lost since the page was opened.                                     *)
(***************************************************************************)
ListIsTheVault ==
  mounted /\ "list" \notin crossed /\ ~Busy(Mutations \cup {"load"}) =>
    /\ ToSet(items) = server /\ Len(items) = Cardinality(server)
    /\ \/ screen = "documents" \/ "badges" \in crossed \/ Busy({"analysis"})
       \/ badges = Analyze(items)

(***************************************************************************)
(* Credentials.jsx: the plaintext a dialog holds is the password of the    *)
(* row in that dialog, unless the dialog was opened while the call or the  *)
(* decryption of an earlier one was still under way.                       *)
(***************************************************************************)
SecretIsTheViewed ==
  dialog.secret # Null /\ "secret" \notin crossed => dialog.secret = dialog.item.password
=============================================================================
