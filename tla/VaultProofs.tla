----------------------------- MODULE VaultProofs -----------------------------
(***************************************************************************)
(* Theorems about Vault, for any number of accounts and calls.             *)
(***************************************************************************)
EXTENDS Vault, TLAPS

------------------------------------------------------------------------------
(***************************************************************************)
(* The two ways a call moves on: it begins, or it goes to its next step    *)
(* and keeps what it holds.                                                *)
(***************************************************************************)
CallsOK ==
  /\ pc \in [Requests -> Steps]
  /\ DOMAIN req = Requests
  /\ \A r \in Requests :
       req[r] \in (IF pc[r] = "new" THEN {NoRequest} ELSE Request)

OthersKeep(r) ==
  \A w \in Requests : w # r => pc'[w] = pc[w] /\ req'[w] = req[w]

Call(u, action, i, seen) == [user |-> u, action |-> action, item |-> i, seen |-> seen]

Arrives(r, call, next) ==
  /\ pc[r] = "new"
  /\ pc' = [pc EXCEPT ![r] = next]
  /\ req' = [req EXCEPT ![r] = call]

LEMMA BeginCall ==
  ASSUME CallsOK, NEW r \in Requests, NEW call \in Request,
         NEW next \in Steps \ {"new"}, Arrives(r, call, next)
  PROVE  /\ CallsOK'
         /\ OthersKeep(r)
         /\ pc[r] = "new"
         /\ pc'[r] = next
         /\ req'[r] = call
  <1>1. pc' \in [Requests -> Steps] /\ DOMAIN req' = Requests
        /\ pc'[r] = next /\ req'[r] = call /\ OthersKeep(r)
    BY DEF CallsOK, OthersKeep, Arrives
  <1>2. \A w \in Requests :
          req'[w] \in (IF pc'[w] = "new" THEN {NoRequest} ELSE Request)
    BY <1>1 DEF CallsOK, OthersKeep
  <1>3. QED
    BY <1>1, <1>2 DEF CallsOK, Arrives

LEMMA GotoCall ==
  ASSUME CallsOK, NEW r \in Requests, pc[r] # "new",
         NEW next \in Steps \ {"new"}, Goto(r, next)
  PROVE  /\ CallsOK'
         /\ OthersKeep(r)
         /\ pc'[r] = next
         /\ req' = req
  <1>1. pc' = [pc EXCEPT ![r] = next] /\ req' = req
    BY DEF Goto
  <1>2. pc' \in [Requests -> Steps] /\ pc'[r] = next /\ OthersKeep(r)
    BY <1>1 DEF CallsOK, OthersKeep
  <1>3. QED
    BY <1>1, <1>2 DEF CallsOK, OthersKeep

LEMMA CallSteps == CallsOK => \A r \in Requests : pc[r] \in Steps
  BY DEF CallsOK

LEMMA HeldCall ==
  ASSUME CallsOK, NEW r \in Requests, pc[r] # "new"
  PROVE  /\ req[r].user \in Users
         /\ req[r].action \in Actions
         /\ req[r].item \in Requests
         /\ req[r].seen \in SUBSET Requests
         /\ Log(r) = Entry(req[r].action, req[r].user, req[r].item, r)
         /\ Log(r) \in AuditEntry
  BY DEF CallsOK, Request, Log, Entry, AuditEntry

------------------------------------------------------------------------------
(***************************************************************************)
(* What any step leaves alone, whatever the call: a call that has begun    *)
(* keeps its record and moves along its own steps, and                     *)
(* neither the log nor the record of mishaps loses anything.               *)
(***************************************************************************)
Begun(r) == pc[r] # "new"

Moves ==
  { <<"new", "done">>, <<"new", "log">>, <<"new", "rows">>, <<"new", "erase">>,
    <<"log", "respond">>, <<"log", "done">>, <<"respond", "done">>,
    <<"rows", "undo">>, <<"rows", "done">>, <<"undo", "done">>,
    <<"erase", "drop">>, <<"erase", "done">>, <<"drop", "done">> }

FrameStep ==
  /\ \A w \in Requests :
       /\ pc'[w] # pc[w] => <<pc[w], pc'[w]>> \in Moves
       /\ Begun(w) => req'[w] = req[w]
  /\ audit \subseteq audit'
  /\ mishaps \subseteq mishaps'

LEMMA CallFrame ==
  ASSUME NEW r \in Requests, OthersKeep(r), <<pc[r], pc'[r]>> \in Moves,
         pc[r] # "new" => req' = req,
         audit \subseteq audit', mishaps \subseteq mishaps'
  PROVE  FrameStep
  BY DEF OthersKeep, FrameStep, Begun

TablesOK ==
  /\ items \subseteq Item
  /\ blobs \subseteq Requests
  /\ audit \subseteq AuditEntry
  /\ served \in [Requests -> SUBSET Requests]
  /\ mishaps \subseteq {"put", "ack", "refetch", "removal", "crash"} \X Requests

LEMMA TypeParts ==
  /\ TypeOK <=> TablesOK /\ CallsOK
  /\ TypeOK' <=> TablesOK' /\ CallsOK'
  BY DEF TypeOK, TablesOK, CallsOK

LEMMA EntryType ==
  ASSUME NEW action \in Actions, NEW u \in Users, NEW i \in Requests, NEW r \in Requests
  PROVE  Entry(action, u, i, r) \in AuditEntry
  BY DEF Entry, AuditEntry

LEMMA ItemType ==
  /\ \A r \in Requests, u \in Users, type \in Types :
       /\ NewItem(r, u, type) \in Item
       /\ NewItem(r, u, type).id = r
       /\ NewItem(r, u, type).owner = u
       /\ NewItem(r, u, type).type = type
       /\ NewItem(r, u, type).body = r
  /\ \A x \in Item, r \in Requests, fields \in SUBSET {"title", "body"} :
       /\ Patched(x, fields, r) \in Item
       /\ Patched(x, fields, r).id = x.id
       /\ Patched(x, fields, r).owner = x.owner
       /\ Patched(x, fields, r).type = x.type
       /\ \/ Patched(x, fields, r).body = x.body
          \/ /\ x.type = "CREDENTIAL"
             /\ Patched(x, fields, r).body = r
  <1>1. ASSUME NEW r \in Requests, NEW u \in Users, NEW type \in Types
        PROVE  /\ NewItem(r, u, type) \in Item
               /\ NewItem(r, u, type).id = r
               /\ NewItem(r, u, type).owner = u
               /\ NewItem(r, u, type).type = type
               /\ NewItem(r, u, type).body = r
    BY DEF NewItem, Item
  <1>2. ASSUME NEW x \in Item, NEW r \in Requests, NEW fields \in SUBSET {"title", "body"}
        PROVE  /\ Patched(x, fields, r) \in Item
               /\ Patched(x, fields, r).id = x.id
               /\ Patched(x, fields, r).owner = x.owner
               /\ Patched(x, fields, r).type = x.type
               /\ \/ Patched(x, fields, r).body = x.body
                  \/ /\ x.type = "CREDENTIAL"
                     /\ Patched(x, fields, r).body = r
    BY DEF Patched, Item
  <1>3. QED
    BY <1>1, <1>2

LEMMA MishapType ==
  ASSUME TablesOK, NEW key \in Requests,
         NEW kind \in {"put", "ack", "refetch", "removal", "crash"}
  PROVE  /\ Mishap(kind, key) \subseteq {"put", "ack", "refetch", "removal", "crash"} \X Requests
         /\ mishaps \subseteq Mishap(kind, key)
         /\ <<kind, key>> \in Mishap(kind, key)
  BY DEF TablesOK, Mishap

LEMMA TypeInit == Init => TypeOK
  BY DEF Init, TypeOK, NoRequest, Steps

LEMMA AddCredentialStep ==
  ASSUME TypeOK, NEW r \in Requests, AddCredential(r)
  PROVE  TypeOK' /\ FrameStep /\ OthersKeep(r)
  <1>1. PICK u \in Users :
          /\ Begin(r, "CREDENTIAL_ADDED", u, r, {}, "done")
          /\ items' = items \cup {NewItem(r, u, "CREDENTIAL")}
          /\ audit' = audit \cup {Entry("CREDENTIAL_ADDED", u, r, r)}
          /\ UNCHANGED <<blobs, served, mishaps>>
    BY DEF AddCredential
  <1>2. TablesOK /\ CallsOK
    BY TypeParts
  <1>3. NewItem(r, u, "CREDENTIAL") \in Item
    BY <1>1, <1>2, ItemType DEF Types
  <1> DEFINE call == Call(u, "CREDENTIAL_ADDED", r, {})
  <1>8. call \in Request /\ "done" \in Steps \ {"new"} /\ Arrives(r, call, "done")
    BY <1>1, <1>3 DEF Begin, Arrives, Call, Request, Actions, Steps
  <1> HIDE DEF call
  <1>4. /\ CallsOK' /\ OthersKeep(r) /\ pc[r] = "new" /\ pc'[r] = "done"
    BY <1>2, <1>8, BeginCall
  <1>5. TablesOK' /\ audit \subseteq audit' /\ mishaps \subseteq mishaps'
    BY <1>1, <1>2, <1>3, EntryType DEF TablesOK, Actions
  <1>6. FrameStep
    BY <1>4, <1>5, CallFrame DEF Moves
  <1>7. QED
    BY <1>4, <1>5, <1>6, TypeParts

LEMMA PatchItemStep ==
  ASSUME TypeOK, NEW r \in Requests, PatchItem(r)
  PROVE  TypeOK' /\ FrameStep /\ OthersKeep(r)
  <1>1. PICK u \in Users, fields \in (SUBSET {"title", "body"}) \ {{}}, x \in items :
          /\ x \in Owned(u)
          /\ Begin(r, "CREDENTIAL_UPDATED", u, x.id, {}, "done")
          /\ items' = Without(x.id) \cup {Patched(x, fields, r)}
          /\ audit' = audit \cup PatchEntries(x, u, r)
          /\ UNCHANGED <<blobs, served, mishaps>>
    BY DEF PatchItem, Owned, OwnedOf
  <1>2. TablesOK /\ CallsOK
    BY TypeParts
  <1>3. /\ x \in Item /\ x.id \in Requests
        /\ Patched(x, fields, r) \in Item
    BY <1>1, <1>2, ItemType DEF TablesOK, Owned, OwnedOf, Item
  <1> DEFINE call == Call(u, "CREDENTIAL_UPDATED", x.id, {})
  <1>8. call \in Request /\ "done" \in Steps \ {"new"} /\ Arrives(r, call, "done")
    BY <1>1, <1>3 DEF Begin, Arrives, Call, Request, Actions, Steps
  <1> HIDE DEF call
  <1>4. /\ CallsOK' /\ OthersKeep(r) /\ pc[r] = "new" /\ pc'[r] = "done"
    BY <1>2, <1>8, BeginCall
  <1>5. TablesOK' /\ audit \subseteq audit' /\ mishaps \subseteq mishaps'
    BY <1>1, <1>2, <1>3, EntryType DEF TablesOK, Actions, PatchEntries, Without
  <1>6. FrameStep
    BY <1>4, <1>5, CallFrame DEF Moves
  <1>7. QED
    BY <1>4, <1>5, <1>6, TypeParts

LEMMA DeleteItemStep ==
  ASSUME TypeOK, NEW r \in Requests, DeleteItem(r)
  PROVE  TypeOK' /\ FrameStep /\ OthersKeep(r)
  <1>1. PICK u \in Users, x \in items :
          /\ x \in Owned(u)
          /\ Begin(r, "CREDENTIAL_DELETED", u, x.id, {}, "done")
          /\ items' = Without(x.id)
          /\ audit' = audit \cup {Entry("CREDENTIAL_DELETED", u, x.id, r)}
          /\ UNCHANGED <<blobs, served, mishaps>>
    BY DEF DeleteItem, Owned, OwnedOf
  <1>2. TablesOK /\ CallsOK
    BY TypeParts
  <1>3. x.id \in Requests
    BY <1>1, <1>2, ItemType DEF TablesOK, Owned, OwnedOf, Item
  <1> DEFINE call == Call(u, "CREDENTIAL_DELETED", x.id, {})
  <1>8. call \in Request /\ "done" \in Steps \ {"new"} /\ Arrives(r, call, "done")
    BY <1>1, <1>3 DEF Begin, Arrives, Call, Request, Actions, Steps
  <1> HIDE DEF call
  <1>4. /\ CallsOK' /\ OthersKeep(r) /\ pc[r] = "new" /\ pc'[r] = "done"
    BY <1>2, <1>8, BeginCall
  <1>5. TablesOK' /\ audit \subseteq audit' /\ mishaps \subseteq mishaps'
    BY <1>1, <1>2, <1>3, EntryType DEF TablesOK, Actions, Without
  <1>6. FrameStep
    BY <1>4, <1>5, CallFrame DEF Moves
  <1>7. QED
    BY <1>4, <1>5, <1>6, TypeParts

LEMMA GetCredentialStep ==
  ASSUME TypeOK, NEW r \in Requests, GetCredential(r)
  PROVE  TypeOK' /\ FrameStep /\ OthersKeep(r)
  <1>1. PICK u \in Users, x \in items :
          /\ x \in OwnedOf(u, "CREDENTIAL")
          /\ Begin(r, "CREDENTIAL_RETRIEVED", u, x.id, {y.body : y \in {x}}, "log")
          /\ UNCHANGED <<items, blobs, audit, served, mishaps>>
    BY DEF GetCredential, Read, Owned, OwnedOf
  <1>2. TablesOK /\ CallsOK
    BY TypeParts
  <1>3. x.id \in Requests /\ {y.body : y \in {x}} \in SUBSET Requests
    BY <1>1, <1>2, ItemType DEF TablesOK, Owned, OwnedOf, Item
  <1> DEFINE call == Call(u, "CREDENTIAL_RETRIEVED", x.id, {y.body : y \in {x}})
  <1>8. call \in Request /\ "log" \in Steps \ {"new"} /\ Arrives(r, call, "log")
    BY <1>1, <1>3 DEF Begin, Arrives, Call, Request, Actions, Steps
  <1> HIDE DEF call
  <1>4. /\ CallsOK' /\ OthersKeep(r) /\ pc[r] = "new" /\ pc'[r] = "log"
    BY <1>2, <1>8, BeginCall
  <1>5. TablesOK' /\ audit \subseteq audit' /\ mishaps \subseteq mishaps'
    BY <1>1, <1>2 DEF TablesOK
  <1>6. FrameStep
    BY <1>4, <1>5, CallFrame DEF Moves
  <1>7. QED
    BY <1>4, <1>5, <1>6, TypeParts

LEMMA GetDocumentStep ==
  ASSUME TypeOK, NEW r \in Requests, GetDocument(r)
  PROVE  TypeOK' /\ FrameStep /\ OthersKeep(r)
  <1>1. PICK u \in Users, x \in items :
          /\ x \in OwnedOf(u, "DOCUMENT")
          /\ Begin(r, "DOCUMENT_RETRIEVED", u, x.id, {y.body : y \in {x}}, "log")
          /\ UNCHANGED <<items, blobs, audit, served, mishaps>>
    BY DEF GetDocument, Read, Owned, OwnedOf
  <1>2. TablesOK /\ CallsOK
    BY TypeParts
  <1>3. x.id \in Requests /\ {y.body : y \in {x}} \in SUBSET Requests
    BY <1>1, <1>2, ItemType DEF TablesOK, Owned, OwnedOf, Item
  <1> DEFINE call == Call(u, "DOCUMENT_RETRIEVED", x.id, {y.body : y \in {x}})
  <1>8. call \in Request /\ "log" \in Steps \ {"new"} /\ Arrives(r, call, "log")
    BY <1>1, <1>3 DEF Begin, Arrives, Call, Request, Actions, Steps
  <1> HIDE DEF call
  <1>4. /\ CallsOK' /\ OthersKeep(r) /\ pc[r] = "new" /\ pc'[r] = "log"
    BY <1>2, <1>8, BeginCall
  <1>5. TablesOK' /\ audit \subseteq audit' /\ mishaps \subseteq mishaps'
    BY <1>1, <1>2 DEF TablesOK
  <1>6. FrameStep
    BY <1>4, <1>5, CallFrame DEF Moves
  <1>7. QED
    BY <1>4, <1>5, <1>6, TypeParts

LEMMA ListCredentialsStep ==
  ASSUME TypeOK, NEW r \in Requests, ListCredentials(r)
  PROVE  TypeOK' /\ FrameStep /\ OthersKeep(r)
  <1>1. PICK u \in Users :
          /\ Begin(r, "CREDENTIALS_LISTED", u, r, {y.body : y \in OwnedOf(u, "CREDENTIAL")}, "log")
          /\ UNCHANGED <<items, blobs, audit, served, mishaps>>
    BY DEF ListCredentials, Read
  <1>2. TablesOK /\ CallsOK
    BY TypeParts
  <1>3. {y.body : y \in OwnedOf(u, "CREDENTIAL")} \in SUBSET Requests
    BY <1>1, <1>2, ItemType DEF TablesOK, Owned, OwnedOf, Item
  <1> DEFINE call == Call(u, "CREDENTIALS_LISTED", r, {y.body : y \in OwnedOf(u, "CREDENTIAL")})
  <1>8. call \in Request /\ "log" \in Steps \ {"new"} /\ Arrives(r, call, "log")
    BY <1>1, <1>3 DEF Begin, Arrives, Call, Request, Actions, Steps
  <1> HIDE DEF call
  <1>4. /\ CallsOK' /\ OthersKeep(r) /\ pc[r] = "new" /\ pc'[r] = "log"
    BY <1>2, <1>8, BeginCall
  <1>5. TablesOK' /\ audit \subseteq audit' /\ mishaps \subseteq mishaps'
    BY <1>1, <1>2 DEF TablesOK
  <1>6. FrameStep
    BY <1>4, <1>5, CallFrame DEF Moves
  <1>7. QED
    BY <1>4, <1>5, <1>6, TypeParts

LEMMA ListDocumentsStep ==
  ASSUME TypeOK, NEW r \in Requests, ListDocuments(r)
  PROVE  TypeOK' /\ FrameStep /\ OthersKeep(r)
  <1>1. PICK u \in Users :
          /\ Begin(r, "DOCUMENTS_LISTED", u, r, {y.body : y \in OwnedOf(u, "DOCUMENT")}, "log")
          /\ UNCHANGED <<items, blobs, audit, served, mishaps>>
    BY DEF ListDocuments, Read
  <1>2. TablesOK /\ CallsOK
    BY TypeParts
  <1>3. {y.body : y \in OwnedOf(u, "DOCUMENT")} \in SUBSET Requests
    BY <1>1, <1>2, ItemType DEF TablesOK, Owned, OwnedOf, Item
  <1> DEFINE call == Call(u, "DOCUMENTS_LISTED", r, {y.body : y \in OwnedOf(u, "DOCUMENT")})
  <1>8. call \in Request /\ "log" \in Steps \ {"new"} /\ Arrives(r, call, "log")
    BY <1>1, <1>3 DEF Begin, Arrives, Call, Request, Actions, Steps
  <1> HIDE DEF call
  <1>4. /\ CallsOK' /\ OthersKeep(r) /\ pc[r] = "new" /\ pc'[r] = "log"
    BY <1>2, <1>8, BeginCall
  <1>5. TablesOK' /\ audit \subseteq audit' /\ mishaps \subseteq mishaps'
    BY <1>1, <1>2 DEF TablesOK
  <1>6. FrameStep
    BY <1>4, <1>5, CallFrame DEF Moves
  <1>7. QED
    BY <1>4, <1>5, <1>6, TypeParts

LEMMA UploadStep ==
  ASSUME TypeOK, NEW r \in Requests, Upload(r)
  PROVE  TypeOK' /\ FrameStep /\ OthersKeep(r)
  <1>1. PICK u \in Users :
          /\ Begin(r, "DOCUMENT_STORED", u, r, {}, "rows")
          /\ blobs' = Put(r)
          /\ UNCHANGED <<items, audit, served, mishaps>>
    BY DEF Upload
  <1>2. TablesOK /\ CallsOK
    BY TypeParts
  <1>3. {} \in SUBSET Requests
    BY <1>1, <1>2, ItemType DEF Steps
  <1> DEFINE call == Call(u, "DOCUMENT_STORED", r, {})
  <1>8. call \in Request /\ "rows" \in Steps \ {"new"} /\ Arrives(r, call, "rows")
    BY <1>1, <1>3 DEF Begin, Arrives, Call, Request, Actions, Steps
  <1> HIDE DEF call
  <1>4. /\ CallsOK' /\ OthersKeep(r) /\ pc[r] = "new" /\ pc'[r] = "rows"
    BY <1>2, <1>8, BeginCall
  <1>5. TablesOK' /\ audit \subseteq audit' /\ mishaps \subseteq mishaps'
    BY <1>1, <1>2 DEF TablesOK, Put
  <1>6. FrameStep
    BY <1>4, <1>5, CallFrame DEF Moves
  <1>7. QED
    BY <1>4, <1>5, <1>6, TypeParts

LEMMA PutFailsStep ==
  ASSUME TypeOK, NEW r \in Requests, PutFails(r)
  PROVE  TypeOK' /\ FrameStep /\ OthersKeep(r)
  <1>1. PICK u \in Users :
          /\ Begin(r, "DOCUMENT_STORED", u, r, {}, "done")
          /\ blobs' \in {blobs, Put(r)}
          /\ mishaps' = Mishap("put", r)
          /\ UNCHANGED <<items, audit, served>>
    BY DEF PutFails
  <1>2. TablesOK /\ CallsOK
    BY TypeParts
  <1>3. {} \in SUBSET Requests
    BY <1>1, <1>2, ItemType DEF Steps
  <1> DEFINE call == Call(u, "DOCUMENT_STORED", r, {})
  <1>8. call \in Request /\ "done" \in Steps \ {"new"} /\ Arrives(r, call, "done")
    BY <1>1, <1>3 DEF Begin, Arrives, Call, Request, Actions, Steps
  <1> HIDE DEF call
  <1>4. /\ CallsOK' /\ OthersKeep(r) /\ pc[r] = "new" /\ pc'[r] = "done"
    BY <1>2, <1>8, BeginCall
  <1>5. TablesOK' /\ audit \subseteq audit' /\ mishaps \subseteq mishaps'
    BY <1>1, <1>2, MishapType DEF TablesOK, Put
  <1>6. FrameStep
    BY <1>4, <1>5, CallFrame DEF Moves
  <1>7. QED
    BY <1>4, <1>5, <1>6, TypeParts

LEMMA FindDocumentStep ==
  ASSUME TypeOK, NEW r \in Requests, FindDocument(r)
  PROVE  TypeOK' /\ FrameStep /\ OthersKeep(r)
  <1>1. PICK u \in Users, x \in items :
          /\ x \in OwnedOf(u, "DOCUMENT")
          /\ Begin(r, "DOCUMENT_DELETED", u, x.id, {x.body}, "erase")
          /\ UNCHANGED <<items, blobs, audit, served, mishaps>>
    BY DEF FindDocument, Owned, OwnedOf
  <1>2. TablesOK /\ CallsOK
    BY TypeParts
  <1>3. x.id \in Requests /\ {x.body} \in SUBSET Requests
    BY <1>1, <1>2, ItemType DEF TablesOK, Owned, OwnedOf, Item
  <1> DEFINE call == Call(u, "DOCUMENT_DELETED", x.id, {x.body})
  <1>8. call \in Request /\ "erase" \in Steps \ {"new"} /\ Arrives(r, call, "erase")
    BY <1>1, <1>3 DEF Begin, Arrives, Call, Request, Actions, Steps
  <1> HIDE DEF call
  <1>4. /\ CallsOK' /\ OthersKeep(r) /\ pc[r] = "new" /\ pc'[r] = "erase"
    BY <1>2, <1>8, BeginCall
  <1>5. TablesOK' /\ audit \subseteq audit' /\ mishaps \subseteq mishaps'
    BY <1>1, <1>2 DEF TablesOK
  <1>6. FrameStep
    BY <1>4, <1>5, CallFrame DEF Moves
  <1>7. QED
    BY <1>4, <1>5, <1>6, TypeParts

LEMMA LogReadStep ==
  ASSUME TypeOK, NEW r \in Requests, LogRead(r)
  PROVE  TypeOK' /\ FrameStep /\ OthersKeep(r)
  <1>1. TablesOK /\ CallsOK /\ pc[r] \in {"log"}
    BY TypeParts, CallSteps DEF LogRead, Removing
  <1>2. PICK next \in {"respond"} : Goto(r, next)
    BY DEF LogRead, Done
  <1>3. CallsOK' /\ OthersKeep(r) /\ pc'[r] = next /\ req' = req
    BY <1>1, <1>2, GotoCall DEF Steps
  <1>4. Log(r) \in AuditEntry /\ req[r].item \in Requests /\ req[r].user \in Users
        /\ req[r].seen \in SUBSET Requests
    BY <1>1, HeldCall
  <1>5. TablesOK' /\ audit \subseteq audit' /\ mishaps \subseteq mishaps'
    BY <1>1, <1>4 DEF TablesOK, LogRead, ReadEntry
  <1>6. FrameStep
    BY <1>1, <1>2, <1>3, <1>5, CallFrame DEF Moves
  <1>7. QED
    BY <1>3, <1>5, <1>6, TypeParts

LEMMA RespondStep ==
  ASSUME TypeOK, NEW r \in Requests, Respond(r)
  PROVE  TypeOK' /\ FrameStep /\ OthersKeep(r)
  <1>1. TablesOK /\ CallsOK /\ pc[r] \in {"respond"}
    BY TypeParts, CallSteps DEF Respond, Removing
  <1>2. PICK next \in {"done"} : Goto(r, next)
    BY DEF Respond, Done
  <1>3. CallsOK' /\ OthersKeep(r) /\ pc'[r] = next /\ req' = req
    BY <1>1, <1>2, GotoCall DEF Steps
  <1>4. Log(r) \in AuditEntry /\ req[r].item \in Requests /\ req[r].user \in Users
        /\ req[r].seen \in SUBSET Requests
    BY <1>1, HeldCall
  <1>5. TablesOK' /\ audit \subseteq audit' /\ mishaps \subseteq mishaps'
    BY <1>1, <1>4 DEF TablesOK, Respond, Shown
  <1>6. FrameStep
    BY <1>1, <1>2, <1>3, <1>5, CallFrame DEF Moves
  <1>7. QED
    BY <1>3, <1>5, <1>6, TypeParts

LEMMA StoreDocumentStep ==
  ASSUME TypeOK, NEW r \in Requests, StoreDocument(r)
  PROVE  TypeOK' /\ FrameStep /\ OthersKeep(r)
  <1>1. TablesOK /\ CallsOK /\ pc[r] \in {"rows"}
    BY TypeParts, CallSteps DEF StoreDocument, Removing
  <1>2. PICK next \in {"done"} : Goto(r, next)
    BY DEF StoreDocument, Done
  <1>3. CallsOK' /\ OthersKeep(r) /\ pc'[r] = next /\ req' = req
    BY <1>1, <1>2, GotoCall DEF Steps
  <1>4. Log(r) \in AuditEntry /\ req[r].item \in Requests /\ req[r].user \in Users
        /\ req[r].seen \in SUBSET Requests
    BY <1>1, HeldCall
  <1>5. TablesOK' /\ audit \subseteq audit' /\ mishaps \subseteq mishaps'
    BY <1>1, <1>4, ItemType DEF TablesOK, StoreDocument, CommitDocument, Types
  <1>6. FrameStep
    BY <1>1, <1>2, <1>3, <1>5, CallFrame DEF Moves
  <1>7. QED
    BY <1>3, <1>5, <1>6, TypeParts

LEMMA StoreRejectedStep ==
  ASSUME TypeOK, NEW r \in Requests, StoreRejected(r)
  PROVE  TypeOK' /\ FrameStep /\ OthersKeep(r)
  <1>1. TablesOK /\ CallsOK /\ pc[r] \in {"rows"}
    BY TypeParts, CallSteps DEF StoreRejected, Removing
  <1>2. PICK next \in {"undo"} : Goto(r, next)
    BY DEF StoreRejected, Done
  <1>3. CallsOK' /\ OthersKeep(r) /\ pc'[r] = next /\ req' = req
    BY <1>1, <1>2, GotoCall DEF Steps
  <1>4. Log(r) \in AuditEntry /\ req[r].item \in Requests /\ req[r].user \in Users
        /\ req[r].seen \in SUBSET Requests
    BY <1>1, HeldCall
  <1>5. TablesOK' /\ audit \subseteq audit' /\ mishaps \subseteq mishaps'
    BY <1>1, <1>4 DEF TablesOK, StoreRejected
  <1>6. FrameStep
    BY <1>1, <1>2, <1>3, <1>5, CallFrame DEF Moves
  <1>7. QED
    BY <1>3, <1>5, <1>6, TypeParts

LEMMA StoreUnacknowledgedStep ==
  ASSUME TypeOK, NEW r \in Requests, StoreUnacknowledged(r)
  PROVE  TypeOK' /\ FrameStep /\ OthersKeep(r)
  <1>1. TablesOK /\ CallsOK /\ pc[r] \in {"rows"}
    BY TypeParts, CallSteps DEF StoreUnacknowledged, Removing
  <1>2. PICK next \in {"undo"} : Goto(r, next)
    BY DEF StoreUnacknowledged, Done
  <1>3. CallsOK' /\ OthersKeep(r) /\ pc'[r] = next /\ req' = req
    BY <1>1, <1>2, GotoCall DEF Steps
  <1>4. Log(r) \in AuditEntry /\ req[r].item \in Requests /\ req[r].user \in Users
        /\ req[r].seen \in SUBSET Requests
    BY <1>1, HeldCall
  <1>5. TablesOK' /\ audit \subseteq audit' /\ mishaps \subseteq mishaps'
    <2>1. NewItem(r, req[r].user, "DOCUMENT") \in Item
      BY <1>4, ItemType DEF Types
    <2>2. QED
      BY <1>1, <1>4, <2>1, MishapType DEF TablesOK, StoreUnacknowledged, CommitDocument
  <1>6. FrameStep
    BY <1>1, <1>2, <1>3, <1>5, CallFrame DEF Moves
  <1>7. QED
    BY <1>3, <1>5, <1>6, TypeParts

LEMMA RefetchRejectedStep ==
  ASSUME TypeOK, NEW r \in Requests, RefetchRejected(r)
  PROVE  TypeOK' /\ FrameStep /\ OthersKeep(r)
  <1>1. TablesOK /\ CallsOK /\ pc[r] \in {"rows"}
    BY TypeParts, CallSteps DEF RefetchRejected, Removing
  <1>2. PICK next \in {"done"} : Goto(r, next)
    BY DEF RefetchRejected, Done
  <1>3. CallsOK' /\ OthersKeep(r) /\ pc'[r] = next /\ req' = req
    BY <1>1, <1>2, GotoCall DEF Steps
  <1>4. Log(r) \in AuditEntry /\ req[r].item \in Requests /\ req[r].user \in Users
        /\ req[r].seen \in SUBSET Requests
    BY <1>1, HeldCall
  <1>5. TablesOK' /\ audit \subseteq audit' /\ mishaps \subseteq mishaps'
    BY <1>1, <1>4, MishapType DEF TablesOK, RefetchRejected
  <1>6. FrameStep
    BY <1>1, <1>2, <1>3, <1>5, CallFrame DEF Moves
  <1>7. QED
    BY <1>3, <1>5, <1>6, TypeParts

LEMMA EraseDocumentStep ==
  ASSUME TypeOK, NEW r \in Requests, EraseDocument(r)
  PROVE  TypeOK' /\ FrameStep /\ OthersKeep(r)
  <1>1. TablesOK /\ CallsOK /\ pc[r] \in {"erase"}
    BY TypeParts, CallSteps DEF EraseDocument, Removing
  <1>2. PICK next \in {"drop", "done"} : Goto(r, next)
    BY DEF EraseDocument, Done
  <1>3. CallsOK' /\ OthersKeep(r) /\ pc'[r] = next /\ req' = req
    BY <1>1, <1>2, GotoCall DEF Steps
  <1>4. Log(r) \in AuditEntry /\ req[r].item \in Requests /\ req[r].user \in Users
        /\ req[r].seen \in SUBSET Requests
    BY <1>1, HeldCall
  <1>5. TablesOK' /\ audit \subseteq audit' /\ mishaps \subseteq mishaps'
    BY <1>1, <1>4 DEF TablesOK, EraseDocument, Without
  <1>6. FrameStep
    BY <1>1, <1>2, <1>3, <1>5, CallFrame DEF Moves
  <1>7. QED
    BY <1>3, <1>5, <1>6, TypeParts

LEMMA EraseUnacknowledgedStep ==
  ASSUME TypeOK, NEW r \in Requests, EraseUnacknowledged(r)
  PROVE  TypeOK' /\ FrameStep /\ OthersKeep(r)
  <1>1. TablesOK /\ CallsOK /\ pc[r] \in {"erase"}
    BY TypeParts, CallSteps DEF EraseUnacknowledged, Removing
  <1>2. PICK next \in {"done"} : Goto(r, next)
    BY DEF EraseUnacknowledged, Done
  <1>3. CallsOK' /\ OthersKeep(r) /\ pc'[r] = next /\ req' = req
    BY <1>1, <1>2, GotoCall DEF Steps
  <1>4. Log(r) \in AuditEntry /\ req[r].item \in Requests /\ req[r].user \in Users
        /\ req[r].seen \in SUBSET Requests
    BY <1>1, HeldCall
  <1>5. TablesOK' /\ audit \subseteq audit' /\ mishaps \subseteq mishaps'
    BY <1>1, <1>4, MishapType DEF TablesOK, EraseUnacknowledged, Without
  <1>6. FrameStep
    BY <1>1, <1>2, <1>3, <1>5, CallFrame DEF Moves
  <1>7. QED
    BY <1>3, <1>5, <1>6, TypeParts

LEMMA RemoveBlobStep ==
  ASSUME TypeOK, NEW r \in Requests, RemoveBlob(r)
  PROVE  TypeOK' /\ FrameStep /\ OthersKeep(r)
  <1>1. TablesOK /\ CallsOK /\ pc[r] \in {"undo", "drop"}
    BY TypeParts, CallSteps DEF RemoveBlob, Removing
  <1>2. PICK next \in {"done"} : Goto(r, next)
    BY DEF RemoveBlob, Done
  <1>3. CallsOK' /\ OthersKeep(r) /\ pc'[r] = next /\ req' = req
    BY <1>1, <1>2, GotoCall DEF Steps
  <1>4. Log(r) \in AuditEntry /\ req[r].item \in Requests /\ req[r].user \in Users
        /\ req[r].seen \in SUBSET Requests
    BY <1>1, HeldCall
  <1>5. TablesOK' /\ audit \subseteq audit' /\ mishaps \subseteq mishaps'
    BY <1>1, <1>4 DEF TablesOK, RemoveBlob, Removed
  <1>6. FrameStep
    BY <1>1, <1>2, <1>3, <1>5, CallFrame DEF Moves
  <1>7. QED
    BY <1>3, <1>5, <1>6, TypeParts

LEMMA RemoveFailsStep ==
  ASSUME TypeOK, NEW r \in Requests, RemoveFails(r)
  PROVE  TypeOK' /\ FrameStep /\ OthersKeep(r)
  <1>1. TablesOK /\ CallsOK /\ pc[r] \in {"undo", "drop"}
    BY TypeParts, CallSteps DEF RemoveFails, Removing
  <1>2. PICK next \in {"done"} : Goto(r, next)
    BY DEF RemoveFails, Done
  <1>3. CallsOK' /\ OthersKeep(r) /\ pc'[r] = next /\ req' = req
    BY <1>1, <1>2, GotoCall DEF Steps
  <1>4. Log(r) \in AuditEntry /\ req[r].item \in Requests /\ req[r].user \in Users
        /\ req[r].seen \in SUBSET Requests
    BY <1>1, HeldCall
  <1>5. TablesOK' /\ audit \subseteq audit' /\ mishaps \subseteq mishaps'
    BY <1>1, <1>4, MishapType DEF TablesOK, RemoveFails, Removed
  <1>6. FrameStep
    BY <1>1, <1>2, <1>3, <1>5, CallFrame DEF Moves
  <1>7. QED
    BY <1>3, <1>5, <1>6, TypeParts

LEMMA RejectStep ==
  ASSUME TypeOK, NEW r \in Requests, Reject(r)
  PROVE  TypeOK' /\ FrameStep /\ OthersKeep(r)
  <1>1. TablesOK /\ CallsOK /\ pc[r] \in {"log", "erase"}
    BY TypeParts, CallSteps DEF Reject, Removing
  <1>2. PICK next \in {"done"} : Goto(r, next)
    BY DEF Reject, Done
  <1>3. CallsOK' /\ OthersKeep(r) /\ pc'[r] = next /\ req' = req
    BY <1>1, <1>2, GotoCall DEF Steps
  <1>4. Log(r) \in AuditEntry /\ req[r].item \in Requests /\ req[r].user \in Users
        /\ req[r].seen \in SUBSET Requests
    BY <1>1, HeldCall
  <1>5. TablesOK' /\ audit \subseteq audit' /\ mishaps \subseteq mishaps'
    BY <1>1, <1>4 DEF TablesOK, Reject
  <1>6. FrameStep
    BY <1>1, <1>2, <1>3, <1>5, CallFrame DEF Moves
  <1>7. QED
    BY <1>3, <1>5, <1>6, TypeParts

LEMMA CrashStep ==
  ASSUME TypeOK, NEW r \in Requests, Crash(r)
  PROVE  TypeOK' /\ FrameStep /\ OthersKeep(r)
  <1>1. TablesOK /\ CallsOK /\ pc[r] \in {"log", "respond", "rows", "undo", "erase", "drop"}
    BY TypeParts, CallSteps DEF Crash, Steps
  <1>2. PICK next \in {"done"} : Goto(r, next)
    BY DEF Crash, Done
  <1>3. CallsOK' /\ OthersKeep(r) /\ pc'[r] = next /\ req' = req
    BY <1>1, <1>2, GotoCall DEF Steps
  <1>4. Log(r) \in AuditEntry /\ req[r].item \in Requests /\ req[r].user \in Users
        /\ req[r].seen \in SUBSET Requests
    BY <1>1, HeldCall
  <1>5. TablesOK' /\ audit \subseteq audit' /\ mishaps \subseteq mishaps'
    BY <1>1, <1>4, MishapType DEF TablesOK, Crash
  <1>6. FrameStep
    BY <1>1, <1>2, <1>3, <1>5, CallFrame DEF Moves
  <1>7. QED
    BY <1>3, <1>5, <1>6, TypeParts

LEMMA AnyStep ==
  ASSUME TypeOK, Next
  PROVE  TypeOK' /\ FrameStep
  <1>1. PICK r \in Requests :
          \/ AddCredential(r)
          \/ PatchItem(r)
          \/ DeleteItem(r)
          \/ GetCredential(r)
          \/ ListCredentials(r)
          \/ GetDocument(r)
          \/ ListDocuments(r)
          \/ LogRead(r)
          \/ Respond(r)
          \/ Upload(r)
          \/ PutFails(r)
          \/ StoreDocument(r)
          \/ StoreRejected(r)
          \/ StoreUnacknowledged(r)
          \/ RefetchRejected(r)
          \/ FindDocument(r)
          \/ EraseDocument(r)
          \/ EraseUnacknowledged(r)
          \/ RemoveBlob(r)
          \/ RemoveFails(r)
          \/ Reject(r)
          \/ Crash(r)
    BY DEF Next
  <1>2. QED
    BY <1>1, AddCredentialStep, PatchItemStep, DeleteItemStep, GetCredentialStep,
       ListCredentialsStep, GetDocumentStep, ListDocumentsStep, LogReadStep,
       RespondStep, UploadStep, PutFailsStep, StoreDocumentStep,
       StoreRejectedStep, StoreUnacknowledgedStep, RefetchRejectedStep, FindDocumentStep,
       EraseDocumentStep, EraseUnacknowledgedStep, RemoveBlobStep, RemoveFailsStep,
       RejectStep, CrashStep

(***************************************************************************)
(* Every reachable state is well typed: a call that has begun holds a      *)
(* record of its own (the awaits of the routes never see another's).       *)
(***************************************************************************)
THEOREM TypeCorrect == Spec => []TypeOK
  <1>1. TypeOK /\ [Next]_vars => TypeOK'
    <2>1. CASE Next
      BY <2>1, AnyStep
    <2>2. CASE UNCHANGED vars
      BY <2>2 DEF vars, TypeOK
    <2>3. QED
      BY <2>1, <2>2
  <1>2. QED
    BY TypeInit, <1>1, PTL DEF Spec

------------------------------------------------------------------------------
(***************************************************************************)
(* The safety theorems of Vault.  The invariants are not inductive as they *)
(* stand: they need to know where an item comes from and what a call under *)
(* way still relies on.                                                    *)
(***************************************************************************)

(***************************************************************************)
(* Item i was stored by the call i, of user u, whose commit is in the log. *)
(***************************************************************************)
Past(r) == pc[r] \in {"undo", "done"}

StoredAs(type) == IF type = "CREDENTIAL" THEN "CREDENTIAL_ADDED" ELSE "DOCUMENT_STORED"

Origin(i, u, type) ==
  /\ Past(i)
  /\ req[i] = Call(u, StoredAs(type), i, {})
  /\ Log(i) \in audit

(***************************************************************************)
(* An item has its origin, its ciphertext comes from a call of its owner,  *)
(* a document's is its own; an upload that is being undone although its    *)
(* row is there has lost an acknowledgement.                               *)
(***************************************************************************)
ItemOK(x) ==
  /\ Origin(x.id, x.owner, x.type)
  /\ Begun(x.body) /\ req[x.body].user = x.owner
  /\ x.type = "DOCUMENT" => x.body = x.id
  /\ pc[x.id] = "undo" => <<"ack", x.id>> \in mishaps

ItemInv == \A x \in items : ItemOK(x)

UniqueIds == \A x, y \in items : x.id = y.id => x = y

(***************************************************************************)
(* What a call under way relies on: an upload on the blob it has put, a    *)
(* deletion on the document it has found and, once committed, on its being *)
(* gone for good, a read on what it found and, before it answers, on its   *)
(* entry.                                                                  *)
(***************************************************************************)
Reading(r) ==
  \/ /\ req[r].action = "CREDENTIAL_RETRIEVED"
     /\ Origin(req[r].item, req[r].user, "CREDENTIAL")
  \/ /\ req[r].action = "DOCUMENT_RETRIEVED"
     /\ Origin(req[r].item, req[r].user, "DOCUMENT")
  \/ /\ req[r].action \in {"CREDENTIALS_LISTED", "DOCUMENTS_LISTED"}
     /\ req[r].item = r

OwnWriters(r, writers) ==
  \A w \in writers : Begun(w) /\ req[w].user = req[r].user

CallOK(r) ==
  /\ pc[r] \in {"rows", "undo"} => req[r] = Call(req[r].user, "DOCUMENT_STORED", r, {})
  /\ pc[r] = "rows" => r \in blobs
  /\ pc[r] \in {"erase", "drop"} =>
       /\ req[r].action = "DOCUMENT_DELETED"
       /\ Origin(req[r].item, req[r].user, "DOCUMENT")
  /\ pc[r] = "drop" => ~Present(req[r].item)
  /\ pc[r] \in {"log", "respond"} => Reading(r) /\ OwnWriters(r, req[r].seen)
  /\ pc[r] = "respond" => Log(r) \in audit

CallInv == \A r \in Requests : CallOK(r)

(***************************************************************************)
(* The log has a storing entry only of an item that was stored, and a call *)
(* that was shown something has begun and is in the log.                   *)
(***************************************************************************)
Storing == {"CREDENTIAL_ADDED", "DOCUMENT_STORED"}

LogInv == \A e \in audit : e.action \in Storing => Past(e.item)

DisclosureOK(r) ==
  served[r] # {} => Begun(r) /\ Log(r) \in audit /\ OwnWriters(r, served[r])

DisclosureInv ==
  \A r \in Requests : DisclosureOK(r)

IInv == TypeOK /\ ItemInv /\ UniqueIds /\ CallInv /\ LogInv /\ DisclosureInv

LEMMA InvInit == Init => IInv
  <1> SUFFICES ASSUME Init PROVE IInv
    OBVIOUS
  <1>1. TypeOK /\ items = {} /\ audit = {}
    BY TypeInit DEF Init
  <1>2. \A r \in Requests : pc[r] = "new" /\ served[r] = {}
    BY DEF Init
  <1>3. QED
    BY <1>1, <1>2 DEF IInv, ItemInv, UniqueIds, CallInv, CallOK, LogInv,
       DisclosureInv, DisclosureOK

------------------------------------------------------------------------------
(***************************************************************************)
(* What every step leaves standing.                                        *)
(***************************************************************************)
LEMMA CallsStay ==
  ASSUME FrameStep, NEW w \in Requests
  PROVE  /\ Begun(w) => Begun(w)' /\ req'[w] = req[w] /\ Log(w)' = Log(w)
         /\ Past(w) => Past(w)' /\ Begun(w)
         /\ Past(w) /\ pc'[w] = "undo" => pc[w] = "undo"
  BY DEF FrameStep, Moves, Begun, Past, Log

LEMMA OriginStays ==
  ASSUME FrameStep, NEW i \in Requests, NEW u, NEW type, Origin(i, u, type)
  PROVE  Origin(i, u, type)'
  <1>1. Past(i)' /\ req'[i] = req[i] /\ Log(i)' = Log(i)
    BY CallsStay DEF Origin
  <1>2. audit \subseteq audit'
    BY DEF FrameStep
  <1>3. QED
    BY <1>1, <1>2 DEF Origin

LEMMA WritersStay ==
  ASSUME FrameStep, NEW r \in Requests, NEW writers \in SUBSET Requests,
         Begun(r), OwnWriters(r, writers)
  PROVE  OwnWriters(r, writers)'
  BY CallsStay DEF OwnWriters

LEMMA ItemStays ==
  ASSUME FrameStep, NEW x \in Item, ItemOK(x)
  PROVE  ItemOK(x)'
  <1>1. x.id \in Requests /\ x.body \in Requests
    BY DEF Item
  <1>2. Origin(x.id, x.owner, x.type)'
    BY <1>1, OriginStays DEF ItemOK
  <1>3. Begun(x.body)' /\ req'[x.body] = req[x.body]
    BY <1>1, CallsStay DEF ItemOK
  <1>4. pc'[x.id] = "undo" => pc[x.id] = "undo"
    BY <1>1, CallsStay DEF ItemOK, Origin
  <1>5. mishaps \subseteq mishaps'
    BY DEF FrameStep
  <1>6. QED
    BY <1>2, <1>3, <1>4, <1>5 DEF ItemOK

LEMMA ItemsShrink ==
  ASSUME IInv, FrameStep, items' \subseteq items
  PROVE  ItemInv' /\ UniqueIds' /\ (\A i : ~Present(i) => ~Present(i)')
  <1>1. \A x \in items : x \in Item /\ ItemOK(x)
    BY TypeParts DEF IInv, ItemInv, TablesOK
  <1>2. \A x \in items' : ItemOK(x)'
    BY <1>1, ItemStays
  <1>3. QED
    BY <1>2 DEF IInv, ItemInv, UniqueIds, Present

------------------------------------------------------------------------------
(***************************************************************************)
(* The part of every step that is the same: what the acting call r does    *)
(* not touch stays in order, so only its own items, record, entries and    *)
(* answer are left to look at.                                             *)
(***************************************************************************)
NewItemsOK == \A x \in items' : x \in items \/ ItemOK(x)'

OthersBlobsStay(r) ==
  \A w \in Requests : w # r /\ pc[w] = "rows" /\ w \in blobs => w \in blobs'

GoneForGood == \A i \in Requests : Past(i) /\ ~Present(i) => ~Present(i)'

NewEntriesOK == \A e \in audit' : e \in audit \/ (e.action \in Storing => Past(e.item)')

AnswersOK == \A w \in Requests : served'[w] = served[w] \/ DisclosureOK(w)'

LEMMA OtherCalls ==
  ASSUME IInv, FrameStep, NEW r \in Requests, OthersKeep(r),
         OthersBlobsStay(r), GoneForGood, NEW w \in Requests, w # r
  PROVE  CallOK(w)'
  <1>1. CallOK(w) /\ pc'[w] = pc[w] /\ req'[w] = req[w] /\ audit \subseteq audit'
    BY DEF IInv, CallInv, OthersKeep, FrameStep
  <1>2. pc[w] # "new" => req[w].item \in Requests /\ req[w].seen \in SUBSET Requests
    BY TypeParts, HeldCall DEF IInv
  <1>3. pc'[w] \in {"rows", "undo"} => req'[w] = Call(req'[w].user, "DOCUMENT_STORED", w, {})
    BY <1>1 DEF CallOK
  <1>4. pc'[w] = "rows" => w \in blobs'
    BY <1>1 DEF CallOK, OthersBlobsStay
  <1>5. pc'[w] \in {"erase", "drop"} =>
          /\ req'[w].action = "DOCUMENT_DELETED"
          /\ Origin(req[w].item, req[w].user, "DOCUMENT")
          /\ Origin(req[w].item, req[w].user, "DOCUMENT")'
    BY <1>1, <1>2, OriginStays DEF CallOK
  <1>6. pc'[w] = "drop" => ~Present(req[w].item)'
    BY <1>1, <1>2, <1>5 DEF CallOK, GoneForGood, Origin
  <1>7. pc'[w] \in {"log", "respond"} => Reading(w)'
    BY <1>1, <1>2, OriginStays DEF CallOK, Reading
  <1>8. pc'[w] \in {"log", "respond"} => OwnWriters(w, req[w].seen)'
    BY <1>1, <1>2, WritersStay DEF CallOK, Begun
  <1>9. pc'[w] = "respond" => Log(w)' \in audit'
    BY <1>1 DEF CallOK, Log
  <1>10. QED
    BY <1>1, <1>3, <1>4, <1>5, <1>6, <1>7, <1>8, <1>9 DEF CallOK, Present

LEMMA StepKeeps ==
  ASSUME IInv, TypeOK', FrameStep, NEW r \in Requests, OthersKeep(r),
         NewItemsOK, UniqueIds', OthersBlobsStay(r), GoneForGood,
         CallOK(r)', NewEntriesOK, AnswersOK
  PROVE  IInv'
  <1>1. ItemInv'
    <2>1. \A x \in items : x \in Item /\ ItemOK(x)
      BY TypeParts DEF IInv, ItemInv, TablesOK
    <2>2. QED
      BY <2>1, ItemStays DEF NewItemsOK, ItemInv
  <1>2. CallInv'
    BY OtherCalls DEF CallInv
  <1>3. LogInv'
    <2>1. ASSUME NEW e \in audit', e.action \in Storing PROVE Past(e.item)'
      <3>1. CASE e \in audit
        <4>1. e.item \in Requests /\ Past(e.item)
          BY <2>1, <3>1, TypeParts DEF IInv, LogInv, TablesOK, AuditEntry
        <4>2. QED
          BY <4>1, CallsStay
      <3>2. CASE e \notin audit
        BY <2>1, <3>2 DEF NewEntriesOK
      <3>3. QED
        BY <3>1, <3>2
    <2>2. QED
      BY <2>1 DEF LogInv
  <1>4. DisclosureInv'
    <2>1. ASSUME NEW w \in Requests, served'[w] = served[w], served[w] # {}
          PROVE  DisclosureOK(w)'
      <3>1. Begun(w) /\ Log(w) \in audit /\ OwnWriters(w, served[w])
        BY <2>1 DEF IInv, DisclosureInv, DisclosureOK
      <3>2. served[w] \in SUBSET Requests
        BY TypeParts DEF IInv, TablesOK
      <3>3. OwnWriters(w, served[w])'
        BY <2>1, <3>1, <3>2, WritersStay
      <3>4. Begun(w)' /\ Log(w)' \in audit'
        BY <3>1, CallsStay DEF FrameStep
      <3>5. QED
        BY <2>1, <3>3, <3>4 DEF DisclosureOK
    <2>2. QED
      BY <2>1 DEF DisclosureInv, AnswersOK, DisclosureOK
  <1>5. QED
    BY <1>1, <1>2, <1>3, <1>4 DEF IInv

------------------------------------------------------------------------------
(***************************************************************************)
(* The steps with which a call ends, or begins, without a new item.        *)
(***************************************************************************)
LEMMA StepEnds ==
  ASSUME IInv, TypeOK', FrameStep, NEW r \in Requests, OthersKeep(r),
         pc'[r] = "done", items' \subseteq items,
         OthersBlobsStay(r), NewEntriesOK, AnswersOK
  PROVE  IInv'
  <1>1. NewItemsOK /\ UniqueIds' /\ GoneForGood
    BY ItemsShrink DEF NewItemsOK, GoneForGood
  <1>2. CallOK(r)'
    BY DEF CallOK
  <1>3. QED
    BY <1>1, <1>2, StepKeeps

LEMMA StepGoesOn ==
  ASSUME IInv, TypeOK', FrameStep, NEW r \in Requests, OthersKeep(r), CallOK(r)',
         items' = items, blobs \subseteq blobs', NewEntriesOK, served' = served
  PROVE  IInv'
  <1>1. NewItemsOK /\ UniqueIds' /\ GoneForGood
    BY ItemsShrink DEF NewItemsOK, GoneForGood
  <1>2. OthersBlobsStay(r) /\ AnswersOK
    BY DEF OthersBlobsStay, AnswersOK
  <1>3. QED
    BY <1>1, <1>2, StepKeeps

(***************************************************************************)
(* Nobody but the call itself puts a blob under its number, and a blob is  *)
(* removed by its upload or after its document was stored and deleted.     *)
(***************************************************************************)
LEMMA RemovalSpares ==
  ASSUME IInv, NEW r \in Requests, Removing(r), blobs \ {req[r].item} \subseteq blobs'
  PROVE  OthersBlobsStay(r)
  <1>1. req[r].item = r \/ Past(req[r].item)
    <2>1. CallOK(r)
      BY DEF IInv, CallInv
    <2>2. CASE pc[r] = "undo"
      BY <2>1, <2>2 DEF CallOK, Call
    <2>3. CASE pc[r] = "drop"
      BY <2>1, <2>3 DEF CallOK, Origin
    <2>4. QED
      BY <2>2, <2>3 DEF Removing
  <1>2. QED
    BY <1>1 DEF OthersBlobsStay, Past

LEMMA DeleteItemInv ==
  ASSUME IInv, NEW r \in Requests, DeleteItem(r)
  PROVE  IInv'
  <1>1. TypeOK' /\ FrameStep /\ OthersKeep(r)
    BY DeleteItemStep DEF IInv
  <1>2. PICK u \in Users, x \in items :
          /\ Begin(r, "CREDENTIAL_DELETED", u, x.id, {}, "done")
          /\ items' = Without(x.id)
          /\ audit' = audit \cup {Entry("CREDENTIAL_DELETED", u, x.id, r)}
          /\ blobs' = blobs /\ served' = served
    BY DEF DeleteItem, Owned
  <1>3. pc'[r] = "done"
    BY <1>2, TypeParts DEF Begin, IInv, CallsOK
  <1>4. items' \subseteq items /\ OthersBlobsStay(r) /\ AnswersOK
    BY <1>2 DEF Without, OthersBlobsStay, AnswersOK
  <1>5. NewEntriesOK
    BY <1>2 DEF NewEntriesOK, Entry, Storing
  <1>6. QED
    BY <1>1, <1>3, <1>4, <1>5, StepEnds

LEMMA EndingInv ==
  ASSUME IInv, NEW r \in Requests,
         RefetchRejected(r) \/ Reject(r) \/ Crash(r) \/ PutFails(r)
  PROVE  IInv'
  <1>1. TypeOK' /\ FrameStep /\ OthersKeep(r)
    BY RefetchRejectedStep, RejectStep, CrashStep, PutFailsStep DEF IInv
  <1>2. pc'[r] = "done"
    BY TypeParts DEF IInv, CallsOK, RefetchRejected, Reject, Crash, PutFails, Begin, Done, Goto
  <1>3. items' = items /\ audit' = audit /\ served' = served /\ blobs \subseteq blobs'
    BY DEF RefetchRejected, Reject, Crash, PutFails, Put
  <1>4. OthersBlobsStay(r) /\ AnswersOK /\ NewEntriesOK
    BY <1>3 DEF OthersBlobsStay, AnswersOK, NewEntriesOK
  <1>5. QED
    BY <1>1, <1>2, <1>3, <1>4, StepEnds

LEMMA RemovalInv ==
  ASSUME IInv, NEW r \in Requests, RemoveBlob(r) \/ RemoveFails(r)
  PROVE  IInv'
  <1>1. TypeOK' /\ FrameStep /\ OthersKeep(r)
    BY RemoveBlobStep, RemoveFailsStep DEF IInv
  <1>2. pc'[r] = "done"
    BY TypeParts DEF IInv, CallsOK, RemoveBlob, RemoveFails, Done, Goto
  <1>3. Removing(r) /\ blobs \ {req[r].item} \subseteq blobs'
    BY DEF RemoveBlob, RemoveFails, Removed
  <1>4. items' = items /\ NewEntriesOK /\ AnswersOK
    BY DEF RemoveBlob, RemoveFails, NewEntriesOK, AnswersOK
  <1>5. QED
    BY <1>1, <1>2, <1>3, <1>4, RemovalSpares, StepEnds

(***************************************************************************)
(* The deletion of a document: it goes on to its blob if it deleted the    *)
(* row, and the row is then gone for good.                                 *)
(***************************************************************************)
LEMMA EraseInv ==
  ASSUME IInv, NEW r \in Requests, EraseDocument(r) \/ EraseUnacknowledged(r)
  PROVE  IInv'
  <1>1. TypeOK' /\ FrameStep /\ OthersKeep(r)
    BY EraseDocumentStep, EraseUnacknowledgedStep DEF IInv
  <1>2. /\ pc[r] = "erase"
        /\ req[r].action = "DOCUMENT_DELETED"
        /\ Origin(req[r].item, req[r].user, "DOCUMENT")
        /\ req[r].item \in Requests
    BY TypeParts, HeldCall DEF IInv, CallInv, CallOK, EraseDocument, EraseUnacknowledged
  <1>3. req' = req /\ Origin(req[r].item, req[r].user, "DOCUMENT")'
    BY <1>1, <1>2, OriginStays DEF EraseDocument, EraseUnacknowledged, Done, Goto
  <1>4. blobs' = blobs /\ served' = served /\ items' \subseteq items
    BY DEF EraseDocument, EraseUnacknowledged, Without
  <1>5. NewEntriesOK
    BY <1>2 DEF EraseDocument, EraseUnacknowledged, NewEntriesOK, Log, Entry, Storing
  <1>6. \/ pc'[r] = "done"
        \/ pc'[r] = "drop" /\ items' = Without(req[r].item)
    BY TypeParts DEF IInv, CallsOK, EraseDocument, EraseUnacknowledged, Done, Goto
  <1>7. CallOK(r)'
    BY <1>2, <1>3, <1>6 DEF CallOK, Without, Present
  <1>8. NewItemsOK /\ UniqueIds' /\ GoneForGood
    BY <1>1, <1>4, ItemsShrink DEF NewItemsOK, GoneForGood
  <1>9. OthersBlobsStay(r) /\ AnswersOK
    BY <1>4 DEF OthersBlobsStay, AnswersOK
  <1>10. QED
    BY <1>1, <1>5, <1>7, <1>8, <1>9, StepKeeps

------------------------------------------------------------------------------
(***************************************************************************)
(* Reads.  What a SELECT finds in a vault was written by the vault's user, *)
(* and nothing is shown before its entry is there.                         *)
(***************************************************************************)
LEMMA FoundIsOwn ==
  ASSUME IInv, NEW u \in Users, NEW x \in Owned(u)
  PROVE  /\ x \in items /\ x \in Item /\ x.owner = u
         /\ x.id \in Requests /\ x.body \in Requests
         /\ Origin(x.id, u, x.type)
         /\ Begun(x.body) /\ req[x.body].user = u
  <1>1. x \in items /\ x.owner = u /\ ItemOK(x)
    BY DEF Owned, IInv, ItemInv
  <1>2. x \in Item
    BY <1>1, TypeParts DEF IInv, TablesOK
  <1>3. QED
    BY <1>1, <1>2 DEF ItemOK, Item

LEMMA ReadInv ==
  ASSUME IInv, NEW r \in Requests, NEW action, NEW u \in Users,
         NEW i, NEW found \in SUBSET Owned(u),
         Read(r, u, action, i, found),
         TypeOK', FrameStep, OthersKeep(r),
         \/ action = "CREDENTIAL_RETRIEVED" /\ i \in Requests /\ Origin(i, u, "CREDENTIAL")
         \/ action = "DOCUMENT_RETRIEVED" /\ i \in Requests /\ Origin(i, u, "DOCUMENT")
         \/ action \in {"CREDENTIALS_LISTED", "DOCUMENTS_LISTED"} /\ i = r
  PROVE  IInv'
  <1> DEFINE seen == {x.body : x \in found}
  <1>1. /\ pc'[r] = "log" /\ req'[r] = Call(u, action, i, seen)
        /\ items' = items /\ blobs' = blobs /\ audit' = audit /\ served' = served
    BY TypeParts DEF Read, Begin, IInv, CallsOK, Call
  <1>2. \A w \in seen : w \in Requests /\ Begun(w) /\ req[w].user = u
    BY FoundIsOwn
  <1> HIDE DEF seen
  <1>3. \A w \in seen : Begun(w)' /\ req'[w].user = u
    BY <1>2, CallsStay
  <1>4. /\ req'[r].user = u /\ req'[r].action = action
        /\ req'[r].item = i /\ req'[r].seen = seen
    BY <1>1 DEF Call
  <1>5. OwnWriters(r, req[r].seen)'
    BY <1>3, <1>4 DEF OwnWriters
  <1>6. Reading(r)'
    BY <1>4, OriginStays DEF Reading
  <1>7. CallOK(r)'
    BY <1>1, <1>5, <1>6 DEF CallOK
  <1>8. NewEntriesOK
    BY <1>1 DEF NewEntriesOK
  <1>9. QED
    BY <1>1, <1>7, <1>8, StepGoesOn

LEMMA ReadsInv ==
  ASSUME IInv, NEW r \in Requests,
         GetCredential(r) \/ GetDocument(r) \/ ListCredentials(r) \/ ListDocuments(r)
  PROVE  IInv'
  <1>1. TypeOK' /\ FrameStep /\ OthersKeep(r)
    BY GetCredentialStep, GetDocumentStep, ListCredentialsStep, ListDocumentsStep DEF IInv
  <1>2. CASE GetCredential(r)
    <2>1. PICK u \in Users, x \in items :
            /\ x \in Owned(u) /\ x.type = "CREDENTIAL"
            /\ Read(r, u, "CREDENTIAL_RETRIEVED", x.id, {x})
      BY <1>2 DEF GetCredential, OwnedOf, Owned
    <2>2. x.id \in Requests /\ Origin(x.id, u, "CREDENTIAL") /\ {x} \in SUBSET Owned(u)
      BY <2>1, FoundIsOwn
    <2>3. QED
      BY <1>1, <2>1, <2>2, ReadInv
  <1>3. CASE GetDocument(r)
    <2>1. PICK u \in Users, x \in items :
            /\ x \in Owned(u) /\ x.type = "DOCUMENT"
            /\ Read(r, u, "DOCUMENT_RETRIEVED", x.id, {x})
      BY <1>3 DEF GetDocument, OwnedOf, Owned
    <2>2. x.id \in Requests /\ Origin(x.id, u, "DOCUMENT") /\ {x} \in SUBSET Owned(u)
      BY <2>1, FoundIsOwn
    <2>3. QED
      BY <1>1, <2>1, <2>2, ReadInv
  <1>4. CASE ListCredentials(r) \/ ListDocuments(r)
    <2>1. PICK u \in Users, type \in Types,
               action \in {"CREDENTIALS_LISTED", "DOCUMENTS_LISTED"} :
            Read(r, u, action, r, OwnedOf(u, type))
      BY <1>4 DEF ListCredentials, ListDocuments, Types
    <2>2. OwnedOf(u, type) \in SUBSET Owned(u)
      BY DEF OwnedOf
    <2>3. QED
      BY <1>1, <2>1, <2>2, ReadInv
  <1>5. QED
    BY <1>2, <1>3, <1>4

LEMMA LogReadInv ==
  ASSUME IInv, NEW r \in Requests, LogRead(r)
  PROVE  IInv'
  <1>1. TypeOK' /\ FrameStep /\ OthersKeep(r)
    BY LogReadStep DEF IInv
  <1>2. /\ pc[r] = "log" /\ pc'[r] = "respond" /\ req' = req
        /\ audit' = audit \cup {Log(r)}
        /\ items' = items /\ blobs' = blobs /\ served' = served
    BY TypeParts DEF LogRead, ReadEntry, Goto, IInv, CallsOK
  <1>3. Reading(r) /\ OwnWriters(r, req[r].seen)
    BY <1>2 DEF IInv, CallInv, CallOK
  <1>4. req[r].item \in Requests /\ req[r].seen \in SUBSET Requests
    BY <1>2, TypeParts, HeldCall DEF IInv
  <1>5. Reading(r)'
    BY <1>1, <1>2, <1>3, <1>4, OriginStays DEF Reading
  <1>6. OwnWriters(r, req[r].seen)'
    BY <1>1, <1>2, <1>3, <1>4, WritersStay DEF Begun
  <1>7. CallOK(r)'
    BY <1>2, <1>5, <1>6 DEF CallOK, Log
  <1>8. NewEntriesOK
    BY <1>2, <1>3 DEF NewEntriesOK, Reading, Log, Entry, Storing
  <1>9. QED
    BY <1>1, <1>2, <1>7, <1>8, StepGoesOn

LEMMA RespondInv ==
  ASSUME IInv, NEW r \in Requests, Respond(r)
  PROVE  IInv'
  <1>1. TypeOK' /\ FrameStep /\ OthersKeep(r)
    BY RespondStep DEF IInv
  <1>2. /\ pc[r] = "respond" /\ pc'[r] = "done" /\ req' = req
        /\ served' = [served EXCEPT ![r] = Shown(r)]
        /\ items' = items /\ blobs' = blobs /\ audit' = audit
    BY TypeParts DEF Respond, Done, Goto, IInv, CallsOK
  <1>3. OwnWriters(r, req[r].seen) /\ Log(r) \in audit
    BY <1>2 DEF IInv, CallInv, CallOK
  <1>4. req[r].seen \in SUBSET Requests /\ served \in [Requests -> SUBSET Requests]
    BY <1>2, TypeParts, HeldCall DEF IInv, TablesOK
  <1>5. served'[r] \subseteq req[r].seen /\ \A w \in Requests : w # r => served'[w] = served[w]
    BY <1>2, <1>4 DEF Shown
  <1>6. OwnWriters(r, req[r].seen)'
    BY <1>1, <1>2, <1>3, <1>4, WritersStay DEF Begun
  <1>7. DisclosureOK(r)'
    BY <1>2, <1>3, <1>5, <1>6 DEF DisclosureOK, OwnWriters, Begun, Log
  <1>8. OthersBlobsStay(r) /\ NewEntriesOK /\ AnswersOK
    BY <1>2, <1>5, <1>7 DEF OthersBlobsStay, NewEntriesOK, AnswersOK
  <1>9. QED
    BY <1>1, <1>2, <1>8, StepEnds

------------------------------------------------------------------------------
(***************************************************************************)
(* Writes.  The number of a new item is the call's own, and no item has    *)
(* it yet.                                                                 *)
(***************************************************************************)
LEMMA Fresh ==
  ASSUME IInv, NEW r \in Requests, ~Past(r)
  PROVE  ~Present(r)
  BY DEF IInv, ItemInv, ItemOK, Origin, Present

LEMMA NewItemInv ==
  ASSUME IInv, TypeOK', FrameStep, NEW r \in Requests, OthersKeep(r),
         ~Past(r), Past(r)', NEW u \in Users, NEW type \in Types,
         req'[r] = Call(u, StoredAs(type), r, {}),
         items' = items \cup {NewItem(r, u, type)},
         audit' = audit \cup {Entry(StoredAs(type), u, r, r)},
         blobs' = blobs, served' = served,
         pc'[r] = "undo" => type = "DOCUMENT" /\ <<"ack", r>> \in mishaps'
  PROVE  IInv'
  <1> DEFINE x == NewItem(r, u, type)
  <1>1. /\ x \in Item /\ x.id = r /\ x.owner = u /\ x.type = type /\ x.body = r
        /\ items' = items \cup {x}
    BY ItemType
  <1> HIDE DEF x
  <1>2. Log(r)' \in audit'
    BY DEF Log, Call
  <1>3. Begun(r)' /\ req'[r].user = u
    BY DEF Past, Begun, Call
  <1>4. ItemOK(x)'
    BY <1>1, <1>2, <1>3 DEF ItemOK, Origin
  <1>5. NewItemsOK
    BY <1>1, <1>4 DEF NewItemsOK
  <1>6. UniqueIds' /\ GoneForGood
    BY <1>1, Fresh DEF UniqueIds, GoneForGood, Present, IInv
  <1>7. CallOK(r)'
    BY DEF CallOK, Past, StoredAs, Call
  <1>8. NewEntriesOK
    BY DEF NewEntriesOK, Entry
  <1>9. OthersBlobsStay(r) /\ AnswersOK
    BY DEF OthersBlobsStay, AnswersOK
  <1>10. QED
    BY <1>5, <1>6, <1>7, <1>8, <1>9, StepKeeps

LEMMA AddCredentialInv ==
  ASSUME IInv, NEW r \in Requests, AddCredential(r)
  PROVE  IInv'
  <1>1. TypeOK' /\ FrameStep /\ OthersKeep(r)
    BY AddCredentialStep DEF IInv
  <1>2. PICK u \in Users :
          /\ Begin(r, "CREDENTIAL_ADDED", u, r, {}, "done")
          /\ items' = items \cup {NewItem(r, u, "CREDENTIAL")}
          /\ audit' = audit \cup {Entry("CREDENTIAL_ADDED", u, r, r)}
          /\ blobs' = blobs /\ served' = served
    BY DEF AddCredential
  <1>3. pc[r] = "new" /\ pc'[r] = "done" /\ req'[r] = Call(u, "CREDENTIAL_ADDED", r, {})
    BY <1>2, TypeParts DEF Begin, IInv, CallsOK, Call
  <1>4. StoredAs("CREDENTIAL") = "CREDENTIAL_ADDED" /\ "CREDENTIAL" \in Types
    BY DEF StoredAs, Types
  <1>5. ~Past(r) /\ Past(r)'
    BY <1>3 DEF Past
  <1>6. QED
    BY <1>1, <1>2, <1>3, <1>4, <1>5, NewItemInv

LEMMA StoreInv ==
  ASSUME IInv, NEW r \in Requests, StoreDocument(r) \/ StoreUnacknowledged(r)
  PROVE  IInv'
  <1>1. TypeOK' /\ FrameStep /\ OthersKeep(r)
    BY StoreDocumentStep, StoreUnacknowledgedStep DEF IInv
  <1> DEFINE u == req[r].user
  <1>2. /\ pc[r] = "rows" /\ req' = req
        /\ items' = items \cup {NewItem(r, u, "DOCUMENT")}
        /\ audit' = audit \cup {Log(r)}
        /\ blobs' = blobs /\ served' = served
    BY DEF StoreDocument, StoreUnacknowledged, CommitDocument, Done, Goto
  <1>3. \/ pc'[r] = "done"
        \/ /\ pc'[r] = "undo"
           /\ <<"ack", r>> \in mishaps'
    BY TypeParts DEF StoreDocument, StoreUnacknowledged, Done, Goto, Mishap, IInv, CallsOK
  <1>4. req[r] = Call(u, "DOCUMENT_STORED", r, {})
    BY <1>2 DEF IInv, CallInv, CallOK
  <1>5. u \in Users
    BY <1>2, TypeParts, HeldCall DEF IInv
  <1>6. Log(r) = Entry("DOCUMENT_STORED", u, r, r)
    BY <1>4 DEF Log, Call
  <1> HIDE DEF u
  <1>7. StoredAs("DOCUMENT") = "DOCUMENT_STORED" /\ "DOCUMENT" \in Types
    BY DEF StoredAs, Types
  <1>8. ~Past(r) /\ Past(r)'
    BY <1>2, <1>3 DEF Past
  <1>9. QED
    BY <1>1, <1>2, <1>3, <1>4, <1>5, <1>6, <1>7, <1>8, NewItemInv

LEMMA UploadInv ==
  ASSUME IInv, NEW r \in Requests, Upload(r)
  PROVE  IInv'
  <1>1. TypeOK' /\ FrameStep /\ OthersKeep(r)
    BY UploadStep DEF IInv
  <1>2. PICK u \in Users :
          /\ Begin(r, "DOCUMENT_STORED", u, r, {}, "rows")
          /\ blobs' = blobs \cup {r}
          /\ items' = items /\ audit' = audit /\ served' = served
    BY DEF Upload, Put
  <1>3. pc'[r] = "rows" /\ req'[r] = Call(u, "DOCUMENT_STORED", r, {})
    BY <1>2, TypeParts DEF Begin, IInv, CallsOK, Call
  <1>4. CallOK(r)'
    BY <1>2, <1>3 DEF CallOK, Call
  <1>5. NewEntriesOK
    BY <1>2 DEF NewEntriesOK
  <1>6. QED
    BY <1>1, <1>2, <1>4, <1>5, StepGoesOn

LEMMA StoreRejectedInv ==
  ASSUME IInv, NEW r \in Requests, StoreRejected(r)
  PROVE  IInv'
  <1>1. TypeOK' /\ FrameStep /\ OthersKeep(r)
    BY StoreRejectedStep DEF IInv
  <1>2. /\ pc[r] = "rows" /\ pc'[r] = "undo" /\ req' = req
        /\ items' = items /\ blobs' = blobs /\ audit' = audit /\ served' = served
    BY TypeParts DEF StoreRejected, Goto, IInv, CallsOK
  <1>3. CallOK(r)'
    BY <1>2 DEF CallOK, IInv, CallInv
  <1>4. NewEntriesOK
    BY <1>2 DEF NewEntriesOK
  <1>5. QED
    BY <1>1, <1>2, <1>3, <1>4, StepGoesOn

LEMMA FindDocumentInv ==
  ASSUME IInv, NEW r \in Requests, FindDocument(r)
  PROVE  IInv'
  <1>1. TypeOK' /\ FrameStep /\ OthersKeep(r)
    BY FindDocumentStep DEF IInv
  <1>2. PICK u \in Users, x \in items :
          /\ x \in Owned(u) /\ x.type = "DOCUMENT"
          /\ Begin(r, "DOCUMENT_DELETED", u, x.id, {x.body}, "erase")
          /\ items' = items /\ blobs' = blobs /\ audit' = audit /\ served' = served
    BY DEF FindDocument, OwnedOf, Owned
  <1>3. /\ pc'[r] = "erase" /\ req'[r].action = "DOCUMENT_DELETED"
        /\ req'[r].user = u /\ req'[r].item = x.id
    BY <1>2, TypeParts DEF Begin, IInv, CallsOK
  <1>4. Origin(x.id, u, "DOCUMENT")'
    BY <1>1, <1>2, FoundIsOwn, OriginStays
  <1>5. CallOK(r)'
    BY <1>3, <1>4 DEF CallOK
  <1>6. NewEntriesOK
    BY <1>2 DEF NewEntriesOK
  <1>7. QED
    BY <1>1, <1>2, <1>5, <1>6, StepGoesOn

(***************************************************************************)
(* An edit changes the title, and of a credential the ciphertext.          *)
(***************************************************************************)
LEMMA PatchItemInv ==
  ASSUME IInv, NEW r \in Requests, PatchItem(r)
  PROVE  IInv'
  <1>1. TypeOK' /\ FrameStep /\ OthersKeep(r)
    BY PatchItemStep DEF IInv
  <1>2. PICK u \in Users, fields \in (SUBSET {"title", "body"}) \ {{}}, x \in items :
          /\ x \in Owned(u)
          /\ Begin(r, "CREDENTIAL_UPDATED", u, x.id, {}, "done")
          /\ items' = Without(x.id) \cup {Patched(x, fields, r)}
          /\ audit' = audit \cup PatchEntries(x, u, r)
          /\ blobs' = blobs /\ served' = served
    BY DEF PatchItem, Owned
  <1>3. pc'[r] = "done" /\ req'[r].user = u
    BY <1>2, TypeParts DEF Begin, IInv, CallsOK
  <1> DEFINE y == Patched(x, fields, r)
  <1>4. x \in Item /\ x.owner = u /\ x.id \in Requests
    BY <1>2, FoundIsOwn
  <1>5. /\ y.id = x.id /\ y.owner = x.owner /\ y.type = x.type
        /\ y.body = x.body \/ (x.type = "CREDENTIAL" /\ y.body = r)
        /\ items' = Without(x.id) \cup {y}
    BY <1>2, <1>4, ItemType
  <1> HIDE DEF y
  <1>6. ItemOK(x)'
    BY <1>1, <1>4, ItemStays DEF IInv, ItemInv
  <1>7. Begun(r)'
    BY <1>3 DEF Begun
  <1>8. ItemOK(y)'
    BY <1>3, <1>4, <1>5, <1>6, <1>7 DEF ItemOK
  <1>9. NewItemsOK
    BY <1>5, <1>8 DEF NewItemsOK, Without
  <1>10. UniqueIds' /\ GoneForGood
    BY <1>2, <1>5 DEF UniqueIds, GoneForGood, Present, Without, IInv
  <1>11. CallOK(r)' /\ OthersBlobsStay(r) /\ AnswersOK
    BY <1>2, <1>3 DEF CallOK, OthersBlobsStay, AnswersOK
  <1>12. NewEntriesOK
    BY <1>2 DEF NewEntriesOK, PatchEntries, Entry, Storing
  <1>13. QED
    BY <1>1, <1>9, <1>10, <1>11, <1>12, StepKeeps

------------------------------------------------------------------------------
LEMMA NextInv ==
  ASSUME IInv, NEW r \in Requests,
         \/ AddCredential(r) \/ PatchItem(r) \/ DeleteItem(r)
         \/ GetCredential(r) \/ ListCredentials(r)
         \/ GetDocument(r) \/ ListDocuments(r) \/ LogRead(r) \/ Respond(r)
         \/ Upload(r) \/ PutFails(r) \/ StoreDocument(r) \/ StoreRejected(r)
         \/ StoreUnacknowledged(r) \/ RefetchRejected(r)
         \/ FindDocument(r) \/ EraseDocument(r) \/ EraseUnacknowledged(r)
         \/ RemoveBlob(r) \/ RemoveFails(r)
         \/ Reject(r) \/ Crash(r)
  PROVE  IInv'
  BY AddCredentialInv, PatchItemInv, DeleteItemInv, ReadsInv, LogReadInv, RespondInv,
     UploadInv, StoreInv, StoreRejectedInv, EndingInv, FindDocumentInv, EraseInv, RemovalInv

LEMMA InvStays == IInv /\ [Next]_vars => IInv'
  <1>1. ASSUME IInv, UNCHANGED vars PROVE IInv'
    BY <1>1 DEF IInv, TypeOK, ItemInv, ItemOK, UniqueIds, CallInv, CallOK, LogInv,
       DisclosureInv, DisclosureOK, Origin, Past, Begun, Reading, OwnWriters, Present, Log,
       vars
  <1>2. ASSUME IInv, Next PROVE IInv'
    <2>1. PICK r \in Requests :
            \/ AddCredential(r) \/ PatchItem(r) \/ DeleteItem(r)
            \/ GetCredential(r) \/ ListCredentials(r)
            \/ GetDocument(r) \/ ListDocuments(r) \/ LogRead(r) \/ Respond(r)
            \/ Upload(r) \/ PutFails(r) \/ StoreDocument(r) \/ StoreRejected(r)
            \/ StoreUnacknowledged(r) \/ RefetchRejected(r)
            \/ FindDocument(r) \/ EraseDocument(r) \/ EraseUnacknowledged(r)
            \/ RemoveBlob(r) \/ RemoveFails(r)
            \/ Reject(r) \/ Crash(r)
      BY <1>2 DEF Next
    <2>2. QED
      BY <1>2, <2>1, NextInv
  <1>3. QED
    BY <1>1, <1>2

LEMMA Invariance == Spec => []IInv
  BY InvInit, InvStays, PTL DEF Spec

(***************************************************************************)
(* "If the access cannot be logged, it is not disclosed", and business     *)
(* rule 6: whatever interleaves with a read, and whatever fails, what it   *)
(* shows was written by its own user and its entry is in the log.          *)
(***************************************************************************)
THEOREM DisclosuresLogged == Spec => []DisclosuresAreLogged
  <1>1. IInv => DisclosuresAreLogged
    BY DEF IInv, DisclosureInv, DisclosureOK, OwnWriters, DisclosuresAreLogged
  <1>2. QED
    BY Invariance, <1>1, PTL

------------------------------------------------------------------------------
(***************************************************************************)
(* The object store.  RowsHaveBlobs and OrphansHaveACause are two-state    *)
(* arguments on top of IInv: where each document and each blob of the next *)
(* state comes from.                                                       *)
(***************************************************************************)
LEMMA RowsUndisturbed ==
  ASSUME RowsHaveBlobs, FrameStep, items' \subseteq items, blobs \subseteq blobs'
  PROVE  RowsHaveBlobs'
  BY DEF RowsHaveBlobs, FrameStep

LEMMA RowsStore ==
  ASSUME IInv, RowsHaveBlobs, NEW r \in Requests, StoreDocument(r) \/ StoreUnacknowledged(r)
  PROVE  RowsHaveBlobs'
  <1> DEFINE x == NewItem(r, req[r].user, "DOCUMENT")
  <1>1. /\ pc[r] = "rows" /\ items' = items \cup {x} /\ blobs' = blobs
        /\ mishaps \subseteq mishaps'
    BY DEF StoreDocument, StoreUnacknowledged, CommitDocument, Mishap
  <1>2. r \in blobs /\ x.body = r
    BY <1>1 DEF IInv, CallInv, CallOK, NewItem
  <1> HIDE DEF x
  <1>3. QED
    BY <1>1, <1>2 DEF RowsHaveBlobs

LEMMA PatchedBody ==
  ASSUME NEW x \in Item, NEW r \in Requests, NEW fields \in SUBSET {"title", "body"}
  PROVE  /\ Patched(x, fields, r).type = x.type
         /\ \/ Patched(x, fields, r).body = x.body
            \/ x.type = "CREDENTIAL" /\ Patched(x, fields, r).body = r
  BY ItemType

LEMMA RowsPatch ==
  ASSUME IInv, RowsHaveBlobs, NEW r \in Requests, PatchItem(r)
  PROVE  RowsHaveBlobs'
  <1>1. PICK u \in Users, fields \in (SUBSET {"title", "body"}) \ {{}}, x \in items :
          /\ items' = Without(x.id) \cup {Patched(x, fields, r)}
          /\ blobs' = blobs /\ mishaps' = mishaps
    BY DEF PatchItem, Owned
  <1> DEFINE y == Patched(x, fields, r)
  <1>2. x \in Item
    BY <1>1, TypeParts DEF IInv, TablesOK
  <1>3. y.type = x.type /\ (y.body = x.body \/ x.type = "CREDENTIAL")
    <2>1. fields \in SUBSET {"title", "body"}
      BY <1>1
    <2>2. /\ y.type = x.type
          /\ \/ y.body = x.body
             \/ x.type = "CREDENTIAL" /\ y.body = r
      BY <1>2, <2>1, PatchedBody
    <2>3. QED
      BY <2>2
  <1> HIDE DEF y
  <1>4. items' = Without(x.id) \cup {y}
    BY <1>1 DEF y
  <1>5. QED
    BY <1>1, <1>3, <1>4 DEF RowsHaveBlobs, Without

LEMMA RowsRemoval ==
  ASSUME IInv, RowsHaveBlobs, NEW r \in Requests, RemoveBlob(r) \/ RemoveFails(r)
  PROVE  RowsHaveBlobs'
  <1>1. /\ Removing(r) /\ items' = items /\ mishaps \subseteq mishaps'
        /\ blobs \ {req[r].item} \subseteq blobs'
    BY DEF RemoveBlob, RemoveFails, Removed, Mishap
  <1>2. CallOK(r)
    BY DEF IInv, CallInv
  <1>3. ASSUME NEW x \in items, x.type = "DOCUMENT", x.body = req[r].item
        PROVE  <<"ack", x.body>> \in mishaps
    <2>1. ItemOK(x) /\ x.body = x.id
      BY <1>3 DEF IInv, ItemInv, ItemOK
    <2>2. CASE pc[r] = "undo"
      <3>1. req[r] = Call(req[r].user, "DOCUMENT_STORED", r, {})
        BY <1>2, <2>2 DEF CallOK
      <3>2. req[r].item = r
        BY <3>1 DEF Call
      <3>3. QED
        BY <1>3, <2>1, <2>2, <3>2 DEF ItemOK
    <2>3. CASE pc[r] = "drop"
      BY <1>2, <1>3, <2>1, <2>3 DEF CallOK, Present
    <2>4. QED
      BY <1>1, <2>2, <2>3 DEF Removing
  <1>4. QED
    BY <1>1, <1>3 DEF RowsHaveBlobs

LEMMA RowsAdd ==
  ASSUME RowsHaveBlobs, NEW r \in Requests, AddCredential(r)
  PROVE  RowsHaveBlobs'
  <1>1. /\ \A x \in items' : x \in items \/ x.type = "CREDENTIAL"
        /\ blobs' = blobs /\ mishaps' = mishaps
    BY DEF AddCredential, NewItem
  <1>2. QED
    BY <1>1 DEF RowsHaveBlobs

LEMMA QuietSteps ==
  ASSUME NEW r \in Requests,
         \/ DeleteItem(r) \/ GetCredential(r) \/ ListCredentials(r)
         \/ GetDocument(r) \/ ListDocuments(r) \/ LogRead(r) \/ Respond(r)
         \/ Upload(r) \/ PutFails(r) \/ StoreRejected(r) \/ RefetchRejected(r)
         \/ FindDocument(r) \/ EraseDocument(r) \/ EraseUnacknowledged(r)
         \/ Reject(r) \/ Crash(r)
  PROVE  items' \subseteq items /\ blobs \subseteq blobs'
  BY DEF DeleteItem, GetCredential, ListCredentials, GetDocument, ListDocuments, Read,
     LogRead, Respond, Upload, PutFails, Put, StoreRejected, RefetchRejected,
     FindDocument, EraseDocument, EraseUnacknowledged, Without, Reject, Crash

LEMMA RowsStep ==
  ASSUME IInv, RowsHaveBlobs, Next
  PROVE  RowsHaveBlobs'
  <1>1. TypeOK' /\ FrameStep
    BY AnyStep DEF IInv
  <1>2. PICK r \in Requests :
          \/ AddCredential(r) \/ PatchItem(r) \/ DeleteItem(r)
          \/ GetCredential(r) \/ ListCredentials(r)
          \/ GetDocument(r) \/ ListDocuments(r) \/ LogRead(r) \/ Respond(r)
          \/ Upload(r) \/ PutFails(r) \/ StoreDocument(r) \/ StoreRejected(r)
          \/ StoreUnacknowledged(r) \/ RefetchRejected(r)
          \/ FindDocument(r) \/ EraseDocument(r) \/ EraseUnacknowledged(r)
          \/ RemoveBlob(r) \/ RemoveFails(r)
          \/ Reject(r) \/ Crash(r)
    BY DEF Next
  <1>3. QED
    BY <1>1, <1>2, QuietSteps, RowsUndisturbed, RowsAdd, RowsStore, RowsPatch, RowsRemoval

(***************************************************************************)
(* "A dangling row pointing at a missing blob is the failure mode that     *)
(* matters" (ports/documents.js): only a lost acknowledgement of the       *)
(* document's own commit can lead there.                                   *)
(***************************************************************************)
THEOREM RowsKeepBlobs == Spec => []RowsHaveBlobs
  <1>1. Init => RowsHaveBlobs
    BY DEF Init, RowsHaveBlobs
  <1>2. IInv /\ RowsHaveBlobs /\ [Next]_vars => RowsHaveBlobs'
    <2>1. ASSUME RowsHaveBlobs, UNCHANGED vars PROVE RowsHaveBlobs'
      BY <2>1 DEF RowsHaveBlobs, vars
    <2>2. QED
      BY <2>1, RowsStep
  <1>3. QED
    BY Invariance, <1>1, <1>2, PTL DEF Spec

------------------------------------------------------------------------------
(***************************************************************************)
(* The blobs nobody can reach.  A step may take a blob's cause away only   *)
(* by deleting its document or by moving the call that holds it; each      *)
(* leaves another cause, or removes the blob.                              *)
(***************************************************************************)
HasCause(key) ==
  \/ \E x \in items : x.type = "DOCUMENT" /\ x.body = key
  \/ \E w \in Requests : HoldsBlob(w) /\ req[w].item = key
  \/ \E m \in mishaps : m[2] = key
  \/ DeletedAs("CREDENTIAL_DELETED", key)

LEMMA OrphansAre == OrphansHaveACause <=> \A key \in blobs : HasCause(key)
  BY DEF OrphansHaveACause, HasCause, Reachable

LEMMA CausesKeep ==
  ASSUME OrphansHaveACause, FrameStep, NEW r \in Requests, OthersKeep(r),
         \A key \in blobs' : key \notin blobs => HasCause(key)',
         \A x \in items : x.type = "DOCUMENT" => HasCause(x.body)',
         HoldsBlob(r) => \A key \in blobs' : req[r].item = key => HasCause(key)'
  PROVE  OrphansHaveACause'
  <1>1. ASSUME NEW key \in blobs', key \in blobs PROVE HasCause(key)'
    <2>1. HasCause(key)
      BY <1>1, OrphansAre
    <2>2. CASE \E x \in items : x.type = "DOCUMENT" /\ x.body = key
      BY <2>2
    <2>3. CASE \E w \in Requests : HoldsBlob(w) /\ req[w].item = key
      BY <2>3 DEF OthersKeep, HoldsBlob, HasCause
    <2>4. CASE \E m \in mishaps : m[2] = key
      BY <2>4 DEF FrameStep, HasCause
    <2>5. CASE DeletedAs("CREDENTIAL_DELETED", key)
      BY <2>5 DEF FrameStep, HasCause, DeletedAs
    <2>6. QED
      BY <2>1, <2>2, <2>3, <2>4, <2>5 DEF HasCause
  <1>2. \A key \in blobs' : HasCause(key)'
    BY <1>1
  <1>3. QED
    BY <1>2 DEF OrphansHaveACause, HasCause, Reachable

(***************************************************************************)
(* Steps that delete no document and move no call that holds a blob.       *)
(***************************************************************************)
LEMMA CausesUndisturbed ==
  ASSUME OrphansHaveACause, FrameStep, NEW r \in Requests, OthersKeep(r),
         ~HoldsBlob(r), items \subseteq items',
         \A key \in blobs' : key \notin blobs => HasCause(key)'
  PROVE  OrphansHaveACause'
  <1>1. \A x \in items : x.type = "DOCUMENT" => HasCause(x.body)'
    BY DEF HasCause
  <1>2. QED
    BY <1>1, CausesKeep

LEMMA OrphansQuiet ==
  ASSUME IInv, OrphansHaveACause, NEW r \in Requests,
         \/ AddCredential(r) \/ GetCredential(r) \/ ListCredentials(r)
         \/ GetDocument(r) \/ ListDocuments(r) \/ LogRead(r) \/ Respond(r)
         \/ FindDocument(r) \/ Reject(r)
  PROVE  OrphansHaveACause'
  <1>1. FrameStep /\ OthersKeep(r)
    BY AddCredentialStep, GetCredentialStep, ListCredentialsStep, GetDocumentStep,
       ListDocumentsStep, LogReadStep, RespondStep, FindDocumentStep, RejectStep DEF IInv
  <1>2. /\ pc[r] \in {"new", "log", "respond", "erase"}
        /\ items \subseteq items' /\ blobs' = blobs
    BY DEF AddCredential, GetCredential, ListCredentials, GetDocument, ListDocuments, Read,
       LogRead, Respond, FindDocument, Reject, Begin
  <1>3. QED
    BY <1>1, <1>2, CausesUndisturbed DEF HoldsBlob

LEMMA OrphansUpload ==
  ASSUME IInv, OrphansHaveACause, NEW r \in Requests, Upload(r) \/ PutFails(r)
  PROVE  OrphansHaveACause'
  <1>1. FrameStep /\ OthersKeep(r)
    BY UploadStep, PutFailsStep DEF IInv
  <1>2. /\ pc[r] = "new" /\ items' = items
        /\ \A key \in blobs' : key \notin blobs => key = r
    BY DEF Upload, PutFails, Put, Begin
  <1>3. CASE Upload(r)
    <2>1. pc'[r] = "rows" /\ req'[r].item = r
      BY <1>3, TypeParts DEF Upload, Begin, IInv, CallsOK
    <2>2. HasCause(r)'
      BY <2>1 DEF HasCause, HoldsBlob
    <2>3. QED
      BY <1>1, <1>2, <2>2, CausesUndisturbed DEF HoldsBlob
  <1>4. CASE PutFails(r)
    <2>1. <<"put", r>> \in mishaps'
      BY <1>4 DEF PutFails, Mishap
    <2>2. HasCause(r)'
      BY <2>1 DEF HasCause
    <2>3. QED
      BY <1>1, <1>2, <2>2, CausesUndisturbed DEF HoldsBlob
  <1>5. QED
    BY <1>3, <1>4

(***************************************************************************)
(* The steps of a call that holds a blob.                                  *)
(***************************************************************************)
LEMMA CausesHeld ==
  ASSUME OrphansHaveACause, FrameStep, NEW r \in Requests, OthersKeep(r),
         items \subseteq items', blobs' \subseteq blobs,
         \A key \in blobs' : req[r].item = key => HasCause(key)'
  PROVE  OrphansHaveACause'
  <1>1. \A x \in items : x.type = "DOCUMENT" => HasCause(x.body)'
    BY DEF HasCause
  <1>2. QED
    BY <1>1, CausesKeep

LEMMA OrphansHeld ==
  ASSUME IInv, OrphansHaveACause, NEW r \in Requests,
         \/ StoreDocument(r) \/ StoreRejected(r) \/ StoreUnacknowledged(r)
         \/ RefetchRejected(r) \/ RemoveBlob(r) \/ RemoveFails(r)
  PROVE  OrphansHaveACause'
  <1>1. FrameStep /\ OthersKeep(r)
    BY StoreDocumentStep, StoreRejectedStep, StoreUnacknowledgedStep, RefetchRejectedStep,
       RemoveBlobStep, RemoveFailsStep DEF IInv
  <1>2. items \subseteq items' /\ blobs' \subseteq blobs
    BY DEF StoreDocument, StoreRejected, StoreUnacknowledged, RefetchRejected, RemoveBlob,
       RemoveFails, CommitDocument, Removed
  <1>3. pc[r] = "rows" => req[r].item = r
    <2>1. pc[r] = "rows" => req[r] = Call(req[r].user, "DOCUMENT_STORED", r, {})
      BY DEF IInv, CallInv, CallOK
    <2>2. Call(req[r].user, "DOCUMENT_STORED", r, {}).item = r
      BY DEF Call
    <2>3. QED
      BY <2>1, <2>2
  <1>4. ASSUME NEW key \in blobs', req[r].item = key PROVE HasCause(key)'
    <2>1. CASE StoreDocument(r)
      <3>1. NewItem(r, req[r].user, "DOCUMENT") \in items' /\ key = r
        BY <1>3, <1>4, <2>1 DEF StoreDocument, CommitDocument
      <3>2. QED
        BY <3>1 DEF HasCause, NewItem
    <2>2. CASE StoreRejected(r)
      <3>1. pc'[r] = "undo" /\ req'[r].item = key
        BY <1>4, <2>2, TypeParts DEF StoreRejected, Goto, IInv, CallsOK
      <3>2. QED
        BY <3>1 DEF HasCause, HoldsBlob
    <2>3. CASE StoreUnacknowledged(r)
      <3>1. <<"ack", key>> \in mishaps'
        BY <1>3, <1>4, <2>3 DEF StoreUnacknowledged, Mishap
      <3>2. QED
        BY <3>1 DEF HasCause
    <2>4. CASE RefetchRejected(r)
      <3>1. <<"refetch", key>> \in mishaps'
        BY <1>3, <1>4, <2>4 DEF RefetchRejected, Mishap
      <3>2. QED
        BY <3>1 DEF HasCause
    <2>5. CASE RemoveBlob(r)
      BY <1>4, <2>5 DEF RemoveBlob, Removed
    <2>6. CASE RemoveFails(r)
      <3>1. <<"removal", key>> \in mishaps'
        BY <1>4, <2>6 DEF RemoveFails, Mishap
      <3>2. QED
        BY <3>1 DEF HasCause
    <2>7. QED
      BY <2>1, <2>2, <2>3, <2>4, <2>5, <2>6
  <1>5. QED
    BY <1>1, <1>2, <1>4, CausesHeld

LEMMA OrphansCrash ==
  ASSUME IInv, OrphansHaveACause, NEW r \in Requests, Crash(r)
  PROVE  OrphansHaveACause'
  <1>1. FrameStep /\ OthersKeep(r) /\ items' = items /\ blobs' = blobs
    BY CrashStep DEF IInv, Crash
  <1>2. CASE HoldsBlob(r)
    <2>1. <<"crash", req[r].item>> \in mishaps'
      BY <1>2 DEF Crash, Mishap
    <2>2. \A key \in blobs' : req[r].item = key => HasCause(key)'
      BY <2>1 DEF HasCause
    <2>3. QED
      BY <1>1, <2>2, CausesHeld
  <1>3. CASE ~HoldsBlob(r)
    BY <1>1, <1>3, CausesUndisturbed
  <1>4. QED
    BY <1>2, <1>3

(***************************************************************************)
(* The steps that delete or edit an item.                                  *)
(***************************************************************************)
LEMMA OrphansDelete ==
  ASSUME IInv, OrphansHaveACause, NEW r \in Requests,
         DeleteItem(r) \/ EraseDocument(r) \/ EraseUnacknowledged(r)
  PROVE  OrphansHaveACause'
  <1>1. FrameStep /\ OthersKeep(r)
    BY DeleteItemStep, EraseDocumentStep, EraseUnacknowledgedStep DEF IInv
  <1>2. /\ pc[r] \in {"new", "erase"} /\ blobs' = blobs
    BY DEF DeleteItem, EraseDocument, EraseUnacknowledged, Begin
  <1>3. ASSUME NEW x \in items, x.type = "DOCUMENT" PROVE HasCause(x.body)'
    <2>1. x.body = x.id
      BY <1>3 DEF IInv, ItemInv, ItemOK
    <2>2. CASE x \in items'
      BY <1>3, <2>2 DEF HasCause
    <2>3. CASE x \notin items'
      <3>1. CASE DeleteItem(r)
        <4>1. Entry("CREDENTIAL_DELETED", req'[r].user, x.id, r) \in audit'
          BY <1>3, <2>3, <3>1, TypeParts DEF DeleteItem, Without, Begin, IInv, CallsOK
        <4>2. QED
          BY <2>1, <4>1 DEF HasCause, DeletedAs, Entry
      <3>2. CASE EraseDocument(r)
        <4>1. pc'[r] = "drop" /\ req'[r].item = x.id
          BY <1>3, <2>3, <3>2, TypeParts DEF EraseDocument, Without, Goto, IInv, CallsOK
        <4>2. QED
          BY <2>1, <4>1 DEF HasCause, HoldsBlob
      <3>3. CASE EraseUnacknowledged(r)
        <4>1. <<"ack", x.id>> \in mishaps'
          BY <1>3, <2>3, <3>3 DEF EraseUnacknowledged, Without, Mishap
        <4>2. QED
          BY <2>1, <4>1 DEF HasCause
      <3>4. QED
        BY <3>1, <3>2, <3>3
    <2>4. QED
      BY <2>2, <2>3
  <1>4. QED
    BY <1>1, <1>2, <1>3, CausesKeep DEF HoldsBlob

LEMMA OrphansPatch ==
  ASSUME IInv, OrphansHaveACause, NEW r \in Requests, PatchItem(r)
  PROVE  OrphansHaveACause'
  <1>1. FrameStep /\ OthersKeep(r)
    BY PatchItemStep DEF IInv
  <1>2. PICK fields \in (SUBSET {"title", "body"}) \ {{}}, x \in items :
          /\ pc[r] = "new" /\ blobs' = blobs
          /\ items' = Without(x.id) \cup {Patched(x, fields, r)}
    BY DEF PatchItem, Owned, Begin
  <1> DEFINE y == Patched(x, fields, r)
  <1>3. x \in Item
    BY TypeParts DEF IInv, TablesOK
  <1>4. y.type = x.type /\ (y.body = x.body \/ x.type = "CREDENTIAL")
    BY <1>2, <1>3, ItemType
  <1> HIDE DEF y
  <1>5. items' = Without(x.id) \cup {y}
    BY <1>2 DEF y
  <1>6. ASSUME NEW z \in items, z.type = "DOCUMENT" PROVE HasCause(z.body)'
    <2>1. z \in items' \/ z = x
      BY <1>2, <1>5, <1>6 DEF Without, IInv, UniqueIds
    <2>2. \E w \in items' : w.type = "DOCUMENT" /\ w.body = z.body
      BY <1>4, <1>5, <1>6, <2>1
    <2>3. QED
      BY <2>2 DEF HasCause
  <1>7. QED
    BY <1>1, <1>2, <1>6, CausesKeep DEF HoldsBlob

LEMMA OrphansStep ==
  ASSUME IInv, OrphansHaveACause, Next
  PROVE  OrphansHaveACause'
  <1>1. PICK r \in Requests :
          \/ AddCredential(r) \/ PatchItem(r) \/ DeleteItem(r)
          \/ GetCredential(r) \/ ListCredentials(r)
          \/ GetDocument(r) \/ ListDocuments(r) \/ LogRead(r) \/ Respond(r)
          \/ Upload(r) \/ PutFails(r) \/ StoreDocument(r) \/ StoreRejected(r)
          \/ StoreUnacknowledged(r) \/ RefetchRejected(r)
          \/ FindDocument(r) \/ EraseDocument(r) \/ EraseUnacknowledged(r)
          \/ RemoveBlob(r) \/ RemoveFails(r)
          \/ Reject(r) \/ Crash(r)
    BY DEF Next
  <1>2. QED
    BY <1>1, OrphansQuiet, OrphansUpload, OrphansHeld, OrphansCrash, OrphansDelete, OrphansPatch

(***************************************************************************)
(* A blob nobody can reach goes back to a crash, to a call that rejected,  *)
(* or to a document deleted through the credentials route: the upload and  *)
(* the deletion leave none behind on their own.                            *)
(***************************************************************************)
THEOREM OrphansExplained == Spec => []OrphansHaveACause
  <1>1. Init => OrphansHaveACause
    BY DEF Init, OrphansHaveACause
  <1>2. IInv /\ OrphansHaveACause /\ [Next]_vars => OrphansHaveACause'
    <2>1. ASSUME OrphansHaveACause, UNCHANGED vars PROVE OrphansHaveACause'
      BY <2>1 DEF OrphansHaveACause, Reachable, HoldsBlob, DeletedAs, vars
    <2>2. QED
      BY <2>1, OrphansStep
  <1>3. QED
    BY Invariance, <1>1, <1>2, PTL DEF Spec

------------------------------------------------------------------------------
(***************************************************************************)
(* Vault implements VaultLedger, for any number of accounts and calls.     *)
(***************************************************************************)
LEMMA LedgerInit == Init => Ledger!Init
  BY DEF Init, Ledger!Init, Shelf

(***************************************************************************)
(* The shelf follows the items.                                            *)
(***************************************************************************)
LEMMA ShelfKeeps ==
  ASSUME NEW x, items' = items \cup {x}
  PROVE  Shelf' = Shelf \cup {Ledger!Item(x.owner, x.id, x.type)}
  BY DEF Shelf, Ledger!Item

LEMMA ShelfDiscards ==
  ASSUME IInv, NEW x \in items, items' = Without(x.id)
  PROVE  /\ Ledger!Item(x.owner, x.id, x.type) \in Shelf
         /\ Shelf' = Shelf \ {Ledger!Item(x.owner, x.id, x.type)}
  BY DEF Shelf, Ledger!Item, Without, IInv, UniqueIds

LEMMA ShelfStays ==
  ASSUME IInv, NEW x \in items, NEW y,
         y.id = x.id, y.owner = x.owner, y.type = x.type,
         items' = Without(x.id) \cup {y}
  PROVE  Shelf' = Shelf
  <1>1. items = Without(x.id) \cup {x}
    BY DEF Without, IInv, UniqueIds
  <1>2. QED
    BY <1>1 DEF Shelf

LEMMA UnusedNumber ==
  ASSUME IInv, NEW r \in Requests, ~Past(r)
  PROVE  Ledger!Unused(r)
  BY DEF IInv, LogInv, Storing, Ledger!Unused

LEMMA LineIsEntry ==
  ASSUME NEW action, NEW u, NEW i, NEW by
  PROVE  Ledger!Line(action, u, i, by) = Entry(action, u, i, by)
  BY DEF Ledger!Line, Entry

LEMMA StoredLine ==
  ASSUME NEW i \in Requests, NEW u, NEW type, Origin(i, u, type)
  PROVE  Ledger!Line(StoredAs(type), u, i, i) \in audit
  BY DEF Origin, Log, Entry, Call, Ledger!Line

(***************************************************************************)
(* One lemma for each kind of step.                                        *)
(***************************************************************************)
LEMMA KeepStep ==
  ASSUME IInv, NEW r \in Requests, ~Past(r), NEW u \in Users, NEW type \in Types,
         items' = items \cup {NewItem(r, u, type)},
         audit' = audit \cup {Entry(StoredAs(type), u, r, r)}
  PROVE  Ledger!Next
  <1>1. Shelf' = Shelf \cup {Ledger!Item(u, r, type)}
    BY ShelfKeeps, ItemType
  <1>2. Ledger!Stored(type) = StoredAs(type)
    BY DEF Ledger!Stored, StoredAs
  <1>3. Ledger!Keep(u, r, type, r)
    BY <1>1, <1>2, UnusedNumber, LineIsEntry DEF Ledger!Keep
  <1>4. QED
    BY <1>3 DEF Ledger!Next, Types

LEMMA AddKeeps ==
  ASSUME IInv, NEW r \in Requests, AddCredential(r)
  PROVE  Ledger!Next
  <1>1. PICK u \in Users :
          /\ items' = items \cup {NewItem(r, u, "CREDENTIAL")}
          /\ audit' = audit \cup {Entry("CREDENTIAL_ADDED", u, r, r)}
    BY DEF AddCredential
  <1>2. ~Past(r)
    BY DEF AddCredential, Begin, Past
  <1>3. StoredAs("CREDENTIAL") = "CREDENTIAL_ADDED" /\ "CREDENTIAL" \in Types
    BY DEF StoredAs, Types
  <1>4. QED
    BY <1>1, <1>2, <1>3, KeepStep

LEMMA StoreKeeps ==
  ASSUME IInv, NEW r \in Requests, StoreDocument(r) \/ StoreUnacknowledged(r)
  PROVE  Ledger!Next
  <1> DEFINE u == req[r].user
  <1>1. /\ pc[r] = "rows"
        /\ items' = items \cup {NewItem(r, u, "DOCUMENT")}
        /\ audit' = audit \cup {Log(r)}
    BY DEF StoreDocument, StoreUnacknowledged, CommitDocument
  <1>2. req[r] = Call(u, "DOCUMENT_STORED", r, {})
    BY <1>1 DEF IInv, CallInv, CallOK
  <1>3. Log(r) = Entry("DOCUMENT_STORED", u, r, r)
    BY <1>2 DEF Log, Call
  <1>4. u \in Users
    BY <1>1, TypeParts, HeldCall DEF IInv
  <1> HIDE DEF u
  <1>5. ~Past(r) /\ StoredAs("DOCUMENT") = "DOCUMENT_STORED" /\ "DOCUMENT" \in Types
    BY <1>1 DEF Past, StoredAs, Types
  <1>6. QED
    BY <1>1, <1>3, <1>4, <1>5, KeepStep

LEMMA PatchEdits ==
  ASSUME IInv, NEW r \in Requests, PatchItem(r)
  PROVE  [Ledger!Next]_<<Shelf, audit>>
  <1>1. PICK u \in Users, fields \in (SUBSET {"title", "body"}) \ {{}}, x \in items :
          /\ x \in Owned(u)
          /\ items' = Without(x.id) \cup {Patched(x, fields, r)}
          /\ audit' = audit \cup PatchEntries(x, u, r)
    BY DEF PatchItem, Owned
  <1>2. x \in Item /\ x.id \in Requests /\ x.owner = u
    BY <1>1, FoundIsOwn
  <1>3. Shelf' = Shelf
    BY <1>1, <1>2, ItemType, ShelfStays
  <1>4. CASE x.type = "CREDENTIAL"
    <2>1. Ledger!Item(u, x.id, "CREDENTIAL") \in Shelf
      BY <1>2, <1>4 DEF Shelf, Ledger!Item
    <2>2. audit' = audit \cup {Ledger!Line("CREDENTIAL_UPDATED", u, x.id, r)}
      BY <1>1, <1>4, LineIsEntry DEF PatchEntries
    <2>3. Ledger!Edit(u, x.id, r)
      BY <1>3, <2>1, <2>2 DEF Ledger!Edit
    <2>4. QED
      BY <1>2, <2>3 DEF Ledger!Next
  <1>5. CASE x.type # "CREDENTIAL"
    BY <1>1, <1>3, <1>5 DEF PatchEntries
  <1>6. QED
    BY <1>4, <1>5

LEMMA DeleteDiscards ==
  ASSUME IInv, NEW r \in Requests, DeleteItem(r)
  PROVE  Ledger!Next
  <1>1. PICK u \in Users, x \in items :
          /\ x \in Owned(u)
          /\ items' = Without(x.id)
          /\ audit' = audit \cup {Entry("CREDENTIAL_DELETED", u, x.id, r)}
    BY DEF DeleteItem, Owned
  <1>2. x.id \in Requests /\ x.owner = u /\ x.type \in Types
    BY <1>1, FoundIsOwn DEF Item
  <1>3. Ledger!Discard(u, x.id, x.type, r)
    BY <1>1, <1>2, ShelfDiscards, LineIsEntry DEF Ledger!Discard
  <1>4. QED
    BY <1>2, <1>3 DEF Ledger!Next, Types

(***************************************************************************)
(* The deletion of a document trusts the item it found before: it is still *)
(* a document of the same user, or it is gone.                             *)
(***************************************************************************)
LEMMA EraseDiscards ==
  ASSUME IInv, NEW r \in Requests, EraseDocument(r) \/ EraseUnacknowledged(r)
  PROVE  [Ledger!Next]_<<Shelf, audit>>
  <1>1. CASE items' = items /\ audit' = audit
    BY <1>1 DEF Shelf
  <1>2. CASE /\ Present(req[r].item) /\ items' = Without(req[r].item)
             /\ audit' = audit \cup {Log(r)}
    <2>1. PICK x \in items : x.id = req[r].item
      BY <1>2 DEF Present
    <2>2. /\ pc[r] = "erase" /\ req[r].action = "DOCUMENT_DELETED"
          /\ Origin(x.id, req[r].user, "DOCUMENT")
      BY <2>1 DEF EraseDocument, EraseUnacknowledged, IInv, CallInv, CallOK
    <2>3. Origin(x.id, x.owner, x.type) /\ x.type \in Types /\ x.id \in Requests
      BY TypeParts DEF IInv, ItemInv, ItemOK, TablesOK, Item
    <2>4. Call(req[r].user, StoredAs("DOCUMENT"), x.id, {}) = Call(x.owner, StoredAs(x.type), x.id, {})
      BY <2>2, <2>3 DEF Origin
    <2>5. x.owner = req[r].user /\ x.type = "DOCUMENT"
      BY <2>3, <2>4 DEF Call, StoredAs, Types
    <2>6. Log(r) = Entry("DOCUMENT_DELETED", x.owner, x.id, r) /\ x.owner \in Users
      BY <2>1, <2>2, <2>5, TypeParts, HeldCall DEF Log, IInv
    <2>7. Ledger!Discard(x.owner, x.id, "DOCUMENT", r)
      BY <1>2, <2>1, <2>5, <2>6, ShelfDiscards, LineIsEntry DEF Ledger!Discard
    <2>8. QED
      BY <2>3, <2>6, <2>7 DEF Ledger!Next
  <1>3. QED
    BY <1>1, <1>2 DEF EraseDocument, EraseUnacknowledged

LEMMA LogLooks ==
  ASSUME IInv, NEW r \in Requests, LogRead(r)
  PROVE  Ledger!Next
  <1> DEFINE u == req[r].user
             i == req[r].item
             action == req[r].action
  <1>1. /\ pc[r] = "log" /\ items' = items
        /\ audit' = audit \cup {Entry(action, u, i, r)}
    BY DEF LogRead, ReadEntry, Log
  <1>2. Reading(r) /\ u \in Users /\ i \in Requests
    BY <1>1, TypeParts, HeldCall DEF IInv, CallInv, CallOK
  <1>3. \/ action = "CREDENTIAL_RETRIEVED" /\ Origin(i, u, "CREDENTIAL")
        \/ action = "DOCUMENT_RETRIEVED" /\ Origin(i, u, "DOCUMENT")
        \/ action \in {"CREDENTIALS_LISTED", "DOCUMENTS_LISTED"} /\ i = r
    BY <1>2 DEF Reading
  <1> HIDE DEF u, i, action
  <1>4. Shelf' = Shelf
    BY <1>1 DEF Shelf
  <1>5. StoredAs("CREDENTIAL") = "CREDENTIAL_ADDED" /\ StoredAs("DOCUMENT") = "DOCUMENT_STORED"
    BY DEF StoredAs
  <1>6. Ledger!Look(u, i, r)
    BY <1>1, <1>2, <1>3, <1>4, <1>5, StoredLine, LineIsEntry DEF Ledger!Look
  <1>7. QED
    BY <1>2, <1>6 DEF Ledger!Next

LEMMA SilentSteps ==
  ASSUME NEW r \in Requests,
         \/ GetCredential(r) \/ ListCredentials(r) \/ GetDocument(r) \/ ListDocuments(r)
         \/ Respond(r) \/ Upload(r) \/ PutFails(r) \/ StoreRejected(r)
         \/ RefetchRejected(r) \/ FindDocument(r) \/ RemoveBlob(r) \/ RemoveFails(r)
         \/ Reject(r) \/ Crash(r)
  PROVE  UNCHANGED <<Shelf, audit>>
  BY DEF GetCredential, ListCredentials, GetDocument, ListDocuments, Read, Respond, Upload,
     PutFails, StoreRejected, RefetchRejected, FindDocument, RemoveBlob, RemoveFails, Reject,
     Crash, Shelf

LEMMA LedgerNext == IInv /\ [Next]_vars => [Ledger!Next]_<<Shelf, audit>>
  <1> SUFFICES ASSUME IInv, [Next]_vars PROVE [Ledger!Next]_<<Shelf, audit>>
    OBVIOUS
  <1>1. CASE UNCHANGED vars
    BY <1>1 DEF vars, Shelf
  <1>2. CASE Next
    <2>1. PICK r \in Requests :
            \/ AddCredential(r) \/ PatchItem(r) \/ DeleteItem(r)
            \/ GetCredential(r) \/ ListCredentials(r)
            \/ GetDocument(r) \/ ListDocuments(r) \/ LogRead(r) \/ Respond(r)
            \/ Upload(r) \/ PutFails(r) \/ StoreDocument(r) \/ StoreRejected(r)
            \/ StoreUnacknowledged(r) \/ RefetchRejected(r)
            \/ FindDocument(r) \/ EraseDocument(r) \/ EraseUnacknowledged(r)
            \/ RemoveBlob(r) \/ RemoveFails(r)
            \/ Reject(r) \/ Crash(r)
      BY <1>2 DEF Next
    <2>2. QED
      BY <2>1, AddKeeps, StoreKeeps, PatchEdits, DeleteDiscards, EraseDiscards, LogLooks,
         SilentSteps
  <1>3. QED
    BY <1>1, <1>2

(***************************************************************************)
(* Vault implements VaultLedger: however the calls interleave and fail, an *)
(* item comes, is edited, looked at and goes in one step with its entry,   *)
(* by its owner's hand only, and its number is given out once.             *)
(***************************************************************************)
THEOREM VaultImplementsLedger == Spec => LedgerSpec
  BY LedgerInit, LedgerNext, Invariance, PTL DEF Spec, LedgerSpec, Ledger!Spec
=============================================================================
