----------------------------- MODULE VaultLedger -----------------------------
(***************************************************************************)
(* What the vault promises, without requests, blobs or failures: who has   *)
(* which item, and the log.  Every change is one step that also writes its *)
(* entry ("a credential that commits without its entry would be an         *)
(* unlogged action, and an entry that commits without its credential would *)
(* be a lie"), an item is touched by its owner only, and its number is     *)
(* given out once.  Vault implements it.                                   *)
(***************************************************************************)
CONSTANTS Users, Items, Calls

VARIABLES
  shelf,   \* the items there are, as triples <<owner, item, type>>
  log      \* the entries: action, user, item, and the call they describe

Item(u, i, type) == <<u, i, type>>

Line(action, u, i, by) == [action |-> action, user |-> u, item |-> i, by |-> by]

Unused(i) ==
  \A e \in log : e.action \in {"CREDENTIAL_ADDED", "DOCUMENT_STORED"} => e.item # i

Stored(type) == IF type = "CREDENTIAL" THEN "CREDENTIAL_ADDED" ELSE "DOCUMENT_STORED"

Keep(u, i, type, by) ==
  /\ Unused(i)
  /\ shelf' = shelf \cup {Item(u, i, type)}
  /\ log' = log \cup {Line(Stored(type), u, i, by)}

Edit(u, i, by) ==
  /\ Item(u, i, "CREDENTIAL") \in shelf
  /\ log' = log \cup {Line("CREDENTIAL_UPDATED", u, i, by)}
  /\ UNCHANGED shelf

(***************************************************************************)
(* DELETE /api/credentials takes items of either type off the shelf.       *)
(***************************************************************************)
Discard(u, i, type, by) ==
  /\ Item(u, i, type) \in shelf
  /\ shelf' = shelf \ {Item(u, i, type)}
  /\ \/ log' = log \cup {Line("CREDENTIAL_DELETED", u, i, by)}
     \/ /\ type = "DOCUMENT"
        /\ log' = log \cup {Line("DOCUMENT_DELETED", u, i, by)}

(***************************************************************************)
(* A look at one item, which its owner once stored, or at all of them.     *)
(***************************************************************************)
Look(u, i, by) ==
  /\ \/ /\ Line("CREDENTIAL_ADDED", u, i, i) \in log
        /\ log' = log \cup {Line("CREDENTIAL_RETRIEVED", u, i, by)}
     \/ /\ Line("DOCUMENT_STORED", u, i, i) \in log
        /\ log' = log \cup {Line("DOCUMENT_RETRIEVED", u, i, by)}
     \/ \E action \in {"CREDENTIALS_LISTED", "DOCUMENTS_LISTED"} :
          log' = log \cup {Line(action, u, by, by)}
  /\ UNCHANGED shelf

Init == shelf = {} /\ log = {}

Next ==
  \E u \in Users, i \in Items, by \in Calls :
    \/ \E type \in {"CREDENTIAL", "DOCUMENT"} :
         Keep(u, i, type, by) \/ Discard(u, i, type, by)
    \/ Edit(u, i, by)
    \/ Look(u, i, by)

Spec == Init /\ [][Next]_<<shelf, log>>
==============================================================================
