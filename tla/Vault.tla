-------------------------------- MODULE Vault --------------------------------
(***************************************************************************)
(* The vault of the SecureVault backend: credentials and documents,        *)
(* app/src/routes/credentials.js and documents.js over their ports, the    *)
(* tables they share (VAULT_ITEMS with one row of CREDENTIALS or of        *)
(* SECURE_DOCUMENTS each), the audit log, and the object store that holds  *)
(* the ciphertext of the documents outside every transaction.              *)
(*                                                                         *)
(* Every call of the API is made once.  It runs from one awaited call to   *)
(* the next, and any other may run in between; a database transaction is   *)
(* visible when it commits, and the row locks it takes let one             *)
(* transaction at a time at an item.  The number of an item (an            *)
(* AUTO_INCREMENT), the key of a blob (a random UUID) and a ciphertext are *)
(* named by the call that made them.  A call that finds nothing (404) or   *)
(* is refused (400) changes nothing and has no action.                     *)
(***************************************************************************)
EXTENDS Naturals

CONSTANTS
  Users,     \* the accounts, each with its one vault
  Requests   \* the calls that are ever made

VARIABLES
  items,    \* VAULT_ITEMS with its subtype: the committed rows
  blobs,    \* the keys the object store holds
  audit,    \* the committed entries
  served,   \* what each call was shown: the calls that wrote it (history)
  mishaps,  \* what went wrong with which blob, as pairs (history)
  pc,       \* what each call awaits next
  req       \* what each call holds across its awaits

vars == <<items, blobs, audit, served, mishaps, pc, req>>

Types == {"CREDENTIAL", "DOCUMENT"}

(***************************************************************************)
(* An item.  `title' names the call that wrote the title, `body' the one   *)
(* that wrote the ciphertext (with url and username) of a credential, and  *)
(* for a document its object_key.                                          *)
(***************************************************************************)
Item == [id : Requests, owner : Users, type : Types,
         title : Requests, body : Requests]

Actions == {"CREDENTIAL_ADDED", "CREDENTIALS_LISTED", "CREDENTIAL_RETRIEVED",
            "CREDENTIAL_UPDATED", "CREDENTIAL_DELETED", "DOCUMENT_STORED",
            "DOCUMENTS_LISTED", "DOCUMENT_RETRIEVED", "DOCUMENT_DELETED"}

(***************************************************************************)
(* An entry, with the item and the call it describes (history; a listing   *)
(* is of no item and names itself).                                        *)
(***************************************************************************)
AuditEntry == [action : Actions, user : Users, item : Requests, by : Requests]

Entry(action, u, i, by) == [action |-> action, user |-> u, item |-> i, by |-> by]

(***************************************************************************)
(* A call: who makes it, what it will log, the item it is about and what   *)
(* it read.                                                                *)
(***************************************************************************)
Request == [user : Users, action : Actions, item : Requests, seen : SUBSET Requests]

NoRequest == [user |-> "none"]

Steps == {"new", "log", "respond", "rows", "undo", "erase", "drop", "done"}

Begin(r, action, u, i, seen, next) ==
  /\ pc[r] = "new"
  /\ req' = [req EXCEPT ![r] = [user |-> u, action |-> action, item |-> i, seen |-> seen]]
  /\ pc' = [pc EXCEPT ![r] = next]

Goto(r, next) == pc' = [pc EXCEPT ![r] = next] /\ UNCHANGED req

Log(r) == Entry(req[r].action, req[r].user, req[r].item, r)

Done(r) == Goto(r, "done")

(***************************************************************************)
(* Business rule 6: every statement joins through VAULTS to the caller.    *)
(* The subtype joins of the SELECTs also fix the type; the UPDATE and the  *)
(* DELETE of ports/credentials.js have no such join.                       *)
(***************************************************************************)
AnybodysItems(u) == items       \* faulty variant: an itemId is trusted alone

Owned(u) == {x \in items : x.owner = u}

OwnedOf(u, type) == {x \in Owned(u) : x.type = type}

Without(i) == {x \in items : x.id # i}

(***************************************************************************)
(* POST /api/credentials: the two rows and the entry in one transaction.   *)
(***************************************************************************)
NewItemMisplaced(r, u, type) == \* faulty variant: title and vault are swapped
  [id |-> r, owner |-> u, type |-> type, title |-> u, body |-> r]

NewItem(r, u, type) == [id |-> r, owner |-> u, type |-> type, title |-> r, body |-> r]

AddCredential(r) ==
  \E u \in Users :
    /\ Begin(r, "CREDENTIAL_ADDED", u, r, {}, "done")
    /\ items' = items \cup {NewItem(r, u, "CREDENTIAL")}
    /\ audit' = audit \cup {Entry("CREDENTIAL_ADDED", u, r, r)}
    /\ UNCHANGED <<blobs, served, mishaps>>

(***************************************************************************)
(* PATCH /api/credentials/:itemId.  The title is in VAULT_ITEMS, so it is  *)
(* written whatever the type; the fields of CREDENTIALS and the final      *)
(* SELECT match a credential only, and a document answers 404 without an   *)
(* entry, in a transaction that commits.                                   *)
(***************************************************************************)
Patched(x, fields, r) ==
  [x EXCEPT !.title = IF "title" \in fields THEN r ELSE @,
            !.body = IF "body" \in fields /\ x.type = "CREDENTIAL" THEN r ELSE @]

PatchEntries(x, u, r) ==
  IF x.type = "CREDENTIAL" THEN {Entry("CREDENTIAL_UPDATED", u, x.id, r)} ELSE {}

PatchItem(r) ==
  \E u \in Users, fields \in (SUBSET {"title", "body"}) \ {{}} :
    \E x \in Owned(u) :
      /\ Begin(r, "CREDENTIAL_UPDATED", u, x.id, {}, "done")
      /\ items' = Without(x.id) \cup {Patched(x, fields, r)}
      /\ audit' = audit \cup PatchEntries(x, u, r)
      /\ UNCHANGED <<blobs, served, mishaps>>

(***************************************************************************)
(* DELETE /api/credentials/:itemId deletes the row of VAULT_ITEMS, and the *)
(* cascade its subtype's, whichever that is.                               *)
(***************************************************************************)
DeleteItem(r) ==
  \E u \in Users : \E x \in Owned(u) :
    /\ Begin(r, "CREDENTIAL_DELETED", u, x.id, {}, "done")
    /\ items' = Without(x.id)
    /\ audit' = audit \cup {Entry("CREDENTIAL_DELETED", u, x.id, r)}
    /\ UNCHANGED <<blobs, served, mishaps>>

(***************************************************************************)
(* The four reads: what the SELECT finds now,                              *)
(***************************************************************************)
Read(r, u, action, i, found) ==
  /\ Begin(r, action, u, i, {x.body : x \in found}, "log")
  /\ UNCHANGED <<items, blobs, audit, served, mishaps>>

GetCredential(r) ==
  \E u \in Users : \E x \in OwnedOf(u, "CREDENTIAL") :
    Read(r, u, "CREDENTIAL_RETRIEVED", x.id, {x})

ListCredentials(r) ==
  \E u \in Users : Read(r, u, "CREDENTIALS_LISTED", r, OwnedOf(u, "CREDENTIAL"))

GetDocument(r) ==
  \E u \in Users : \E x \in OwnedOf(u, "DOCUMENT") :
    Read(r, u, "DOCUMENT_RETRIEVED", x.id, {x})

ListDocuments(r) ==
  \E u \in Users : Read(r, u, "DOCUMENTS_LISTED", r, OwnedOf(u, "DOCUMENT"))

(***************************************************************************)
(* then the entry, and only then the response.  A document streams from    *)
(* the object store as it is by then; without its blob the answer is 502.  *)
(***************************************************************************)
LogLost(r) == {}                \* faulty variant: a failed append is swallowed

ReadEntry(r) == {Log(r)}

LogRead(r) ==
  /\ pc[r] = "log"
  /\ audit' = audit \cup ReadEntry(r)
  /\ Goto(r, "respond")
  /\ UNCHANGED <<items, blobs, served, mishaps>>

Shown(r) ==
  IF req[r].action = "DOCUMENT_RETRIEVED" THEN req[r].seen \cap blobs ELSE req[r].seen

Respond(r) ==
  /\ pc[r] = "respond"
  /\ served' = [served EXCEPT ![r] = Shown(r)]
  /\ Done(r)
  /\ UNCHANGED <<items, blobs, audit, mishaps>>

(***************************************************************************)
(* POST /api/documents: the blob first; a put that rejects may have stored *)
(* it all the same,                                                        *)
(***************************************************************************)
Mishap(kind, key) == mishaps \cup {<<kind, key>>}

PutSkipped(r) == blobs          \* faulty variant: the put is not awaited, and fails

Put(r) == blobs \cup {r}

Upload(r) ==
  \E u \in Users :
    /\ Begin(r, "DOCUMENT_STORED", u, r, {}, "rows")
    /\ blobs' = Put(r)
    /\ UNCHANGED <<items, audit, served, mishaps>>

PutFails(r) ==
  \E u \in Users :
    /\ Begin(r, "DOCUMENT_STORED", u, r, {}, "done")
    /\ blobs' \in {blobs, Put(r)}
    /\ mishaps' = Mishap("put", r)
    /\ UNCHANGED <<items, audit, served>>

(***************************************************************************)
(* then the two rows and the entry, in one transaction.                    *)
(***************************************************************************)
CommitDocument(r) ==
  /\ items' = items \cup {NewItem(r, req[r].user, "DOCUMENT")}
  /\ audit' = audit \cup {Log(r)}

StoreDocument(r) ==
  /\ pc[r] = "rows"
  /\ CommitDocument(r)
  /\ Done(r)
  /\ UNCHANGED <<blobs, served, mishaps>>

(***************************************************************************)
(* An INSERT, the append or the commit rejects, and the compensating       *)
(* delete follows; but a commit may also reject after the server made it.  *)
(* add() returns fetchOwned() without awaiting it: when that SELECT        *)
(* rejects, neither catch block knows the key.                             *)
(***************************************************************************)
StoreRejected(r) ==
  /\ pc[r] = "rows"
  /\ Goto(r, "undo")
  /\ UNCHANGED <<items, blobs, audit, served, mishaps>>

StoreUnacknowledged(r) ==
  /\ pc[r] = "rows"
  /\ CommitDocument(r)
  /\ mishaps' = Mishap("ack", r)
  /\ Goto(r, "undo")
  /\ UNCHANGED <<blobs, served>>

RefetchRejected(r) ==
  /\ pc[r] = "rows"
  /\ mishaps' = Mishap("refetch", r)
  /\ Done(r)
  /\ UNCHANGED <<items, blobs, audit, served>>

(***************************************************************************)
(* DELETE /api/documents/:itemId finds the object_key, deletes the row if  *)
(* it is still there, with the entry, and after the commit the blob.       *)
(***************************************************************************)
FindDocument(r) ==
  \E u \in Users : \E x \in OwnedOf(u, "DOCUMENT") :
    /\ Begin(r, "DOCUMENT_DELETED", u, x.id, {x.body}, "erase")
    /\ UNCHANGED <<items, blobs, audit, served, mishaps>>

Present(i) == \E x \in items : x.id = i

EraseDocument(r) ==
  /\ pc[r] = "erase"
  /\ IF Present(req[r].item)
     THEN /\ items' = Without(req[r].item)
          /\ audit' = audit \cup {Log(r)}
          /\ Goto(r, "drop")
     ELSE Done(r) /\ UNCHANGED <<items, audit>>
  /\ UNCHANGED <<blobs, served, mishaps>>

EraseUnacknowledged(r) ==
  /\ pc[r] = "erase"
  /\ Present(req[r].item)
  /\ items' = Without(req[r].item)
  /\ audit' = audit \cup {Log(r)}
  /\ mishaps' = Mishap("ack", req[r].item)
  /\ Done(r)
  /\ UNCHANGED <<blobs, served>>

(***************************************************************************)
(* removeBlob, for the compensation of an upload and after a deletion; its *)
(* failure is swallowed or logged, and the call ends.  A delete that       *)
(* rejects may have been made all the same.                                *)
(***************************************************************************)
NotRemoved(i) == blobs          \* faulty variant: the key is not the object_key

Removed(i) == blobs \ {i}

Removing(r) == pc[r] \in {"undo", "drop"}

RemoveBlob(r) ==
  /\ Removing(r)
  /\ blobs' = Removed(req[r].item)
  /\ Done(r)
  /\ UNCHANGED <<items, audit, served, mishaps>>

RemoveFails(r) ==
  /\ Removing(r)
  /\ blobs' \in {blobs, Removed(req[r].item)}
  /\ mishaps' = Mishap("removal", req[r].item)
  /\ Done(r)
  /\ UNCHANGED <<items, audit, served>>

(***************************************************************************)
(* A statement of a read or of a deletion rejects: 500, nothing committed. *)
(***************************************************************************)
Reject(r) ==
  /\ pc[r] \in {"log", "erase"}
  /\ Done(r)
  /\ UNCHANGED <<items, blobs, audit, served, mishaps>>

(***************************************************************************)
(* The process dies with the call under way.                               *)
(***************************************************************************)
HoldsBlob(r) == pc[r] \in {"rows", "undo", "drop"}

Crash(r) ==
  /\ pc[r] \notin {"new", "done"}
  /\ mishaps' = IF HoldsBlob(r) THEN Mishap("crash", req[r].item) ELSE mishaps
  /\ Done(r)
  /\ UNCHANGED <<items, blobs, audit, served>>

Init ==
  /\ items = {}
  /\ blobs = {}
  /\ audit = {}
  /\ served = [r \in Requests |-> {}]
  /\ mishaps = {}
  /\ pc = [r \in Requests |-> "new"]
  /\ req = [r \in Requests |-> NoRequest]

Next ==
  \E r \in Requests :
    \/ AddCredential(r) \/ PatchItem(r) \/ DeleteItem(r)
    \/ GetCredential(r) \/ ListCredentials(r)
    \/ GetDocument(r) \/ ListDocuments(r) \/ LogRead(r) \/ Respond(r)
    \/ Upload(r) \/ PutFails(r) \/ StoreDocument(r) \/ StoreRejected(r)
    \/ StoreUnacknowledged(r) \/ RefetchRejected(r)
    \/ FindDocument(r) \/ EraseDocument(r) \/ EraseUnacknowledged(r)
    \/ RemoveBlob(r) \/ RemoveFails(r)
    \/ Reject(r) \/ Crash(r)

(***************************************************************************)
(* All calls may have been made and answered: then nothing is left to do.  *)
(***************************************************************************)
Spec == Init /\ [][Next]_vars

------------------------------------------------------------------------------
(***************************************************************************)
(* Types: a call that has begun holds a record of its own.                 *)
(***************************************************************************)
TypeOK ==
  /\ items \subseteq Item
  /\ blobs \subseteq Requests
  /\ audit \subseteq AuditEntry
  /\ served \in [Requests -> SUBSET Requests]
  /\ mishaps \subseteq {"put", "ack", "refetch", "removal", "crash"} \X Requests
  /\ pc \in [Requests -> Steps]
  /\ DOMAIN req = Requests
  /\ \A r \in Requests :
       req[r] \in (IF pc[r] = "new" THEN {NoRequest} ELSE Request)

(***************************************************************************)
(* "A dangling row pointing at a missing blob is the failure mode that     *)
(* matters" (ports/documents.js): whatever else rejects or crashes, and    *)
(* however uploads and deletions interleave, a document has its blob,      *)
(* unless the acknowledgement of its own commit was lost.                  *)
(***************************************************************************)
RowsHaveBlobs ==
  \A x \in items : x.type = "DOCUMENT" =>
    x.body \in blobs \/ <<"ack", x.body>> \in mishaps

(***************************************************************************)
(* The blobs nobody can reach any more, which a reconciliation would have  *)
(* to find (PRD 0025): each one goes back to a crash, to a call that       *)
(* rejected, or to a document deleted as if it were a credential.          *)
(***************************************************************************)
Reachable(key) ==
  \/ \E x \in items : x.type = "DOCUMENT" /\ x.body = key
  \/ \E r \in Requests : HoldsBlob(r) /\ req[r].item = key

DeletedAs(action, i) == \E e \in audit : e.action = action /\ e.item = i

OrphansHaveACause ==
  \A key \in blobs :
    \/ Reachable(key)
    \/ \E m \in mishaps : m[2] = key
    \/ DeletedAs("CREDENTIAL_DELETED", key)

(***************************************************************************)
(* "If the access cannot be logged, it is not disclosed", and only one's   *)
(* own vault is (business rule 6): whatever a call was shown was written   *)
(* by its own user, and the entry of that very call is in the log.         *)
(***************************************************************************)
DisclosuresAreLogged ==
  \A r \in Requests : served[r] # {} =>
    /\ Log(r) \in audit
    /\ \A w \in served[r] : req[w].user = req[r].user

(***************************************************************************)
(* Vault implements VaultLedger.                                           *)
(***************************************************************************)
Shelf == {<<x.owner, x.id, x.type>> : x \in items}

Ledger == INSTANCE VaultLedger WITH
            Items <- Requests, Calls <- Requests, shelf <- Shelf, log <- audit

LedgerSpec == Ledger!Spec
==============================================================================
