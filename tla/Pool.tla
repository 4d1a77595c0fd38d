-------------------------------- MODULE Pool --------------------------------
(***************************************************************************)
(* The one connection pool behind every port (db/pool.js), shared by the   *)
(* requests of a backend process: which request holds which connection,    *)
(* who waits for one, and what each does with it.                          *)
(*                                                                         *)
(* pool.execute takes a connection for one statement.  transaction holds   *)
(* one from getConnection to its finally block.  A login and a             *)
(* confirmation record the device inside their transaction through the     *)
(* audit log without a context, which is a pool.execute: they wait for a   *)
(* second connection while they hold the first.                            *)
(***************************************************************************)
EXTENDS Integers, Sequences, FiniteSets

CONSTANTS
  Conns,      \* connectionLimit connections
  Requests,   \* the requests that may be under way at once
  MaxLogins,  \* bound on the logins and confirmations among them
  None        \* nobody

ASSUME PoolAssumption ==
  /\ IsFiniteSet(Conns) /\ IsFiniteSet(Requests)
  /\ MaxLogins \in Nat
  /\ None \notin Requests \cup {"read", "write", "login"}

VARIABLES
  owner,  \* who holds a connection
  queue,  \* mysql2's queue of waiting getConnection calls, first come first served
  kind,   \* what a request is, None when it is idle
  step    \* what a request awaits

vars == <<owner, queue, kind, step>>

Kinds == {"read", "write", "login"}

(***************************************************************************)
(* lookup: the first statement, isRevoked or findByEmail.  ready: between  *)
(* that and the transaction.  tx: getConnection, then the statements on    *)
(* it.  sighting: onDeviceSeen.  entry: what follows the sighting, commit  *)
(* included.  committed, clear: resetFailedAttempts after the transaction. *)
(***************************************************************************)
Steps == {"idle", "lookup", "ready", "tx", "sighting", "entry", "rollback",
          "committed", "clear"}

Held(r) == {c \in Conns : owner[c] = r}

Free == {c \in Conns : owner[c] = None}

Waiting(r) == \E i \in DOMAIN queue : queue[i] = r

Logins == {r \in Requests : kind[r] = "login"}

Init ==
  /\ owner = [c \in Conns |-> None]
  /\ queue = <<>>
  /\ kind = [r \in Requests |-> None]
  /\ step = [r \in Requests |-> "idle"]

-----------------------------------------------------------------------------
(***************************************************************************)
(* mysql2: a free connection is given at once, otherwise the caller is     *)
(* queued, without limit and without a timeout; a connection given back    *)
(* goes to the first in the queue.                                         *)
(***************************************************************************)
Ask(r) ==
  \/ /\ \E c \in Free : owner' = [owner EXCEPT ![c] = r]
     /\ UNCHANGED queue
  \/ /\ Free = {}
     /\ queue' = Append(queue, r)
     /\ UNCHANGED owner

Release(c) ==
  \/ /\ queue = <<>>
     /\ owner' = [owner EXCEPT ![c] = None]
     /\ UNCHANGED queue
  \/ /\ queue # <<>>
     /\ owner' = [owner EXCEPT ![c] = Head(queue)]
     /\ queue' = Tail(queue)

Goto(r, s) ==
  /\ step' = [step EXCEPT ![r] = s]
  /\ kind' = [kind EXCEPT ![r] = IF s = "idle" THEN None ELSE @]

GiveBack(r) == \E c \in Held(r) : Release(c)

Keep(r) == UNCHANGED <<owner, queue>>   \* faulty variant: release() only in the try block

EndRollback(r) == GiveBack(r)

-----------------------------------------------------------------------------
(***************************************************************************)
(* A request begins with a statement of its own, which may reject.  A read *)
(* is that statement, and several outside a transaction are as many reads; *)
(* the others go on to a transaction.                                      *)
(***************************************************************************)
Arrive(r) ==
  /\ step[r] = "idle"
  /\ \E k \in Kinds :
       /\ k = "login" => Cardinality(Logins) < MaxLogins
       /\ kind' = [kind EXCEPT ![r] = k]
  /\ step' = [step EXCEPT ![r] = "lookup"]
  /\ Ask(r)

LookUp(r) ==
  /\ step[r] = "lookup" /\ ~Waiting(r)
  /\ GiveBack(r)
  /\ \/ Goto(r, "idle")
     \/ kind[r] # "read" /\ Goto(r, "ready")

(* getConnection, and what happens when a new connection cannot be opened.  *)
GetConnection(r) ==
  /\ step[r] = "ready"
  /\ \/ Ask(r) /\ Goto(r, "tx")
     \/ Free # {} /\ Goto(r, "idle") /\ UNCHANGED <<owner, queue>>

(***************************************************************************)
(* The transaction.  Every append but the device sighting is given the     *)
(* transaction's own connection.                                           *)
(***************************************************************************)
EveryAppendBorrows(r) == TRUE     \* faulty variant: an entry logged without context: tx

Borrows(r) == kind[r] = "login"

SeeDevice(r) ==
  /\ step[r] = "tx" /\ ~Waiting(r)
  /\ Borrows(r)
  /\ \/ Ask(r) /\ Goto(r, "sighting")
     \/ Free # {} /\ Goto(r, "rollback") /\ UNCHANGED <<owner, queue>>

Sighted(r) ==
  /\ step[r] = "sighting" /\ ~Waiting(r)
  /\ GiveBack(r)
  /\ Goto(r, "entry") \/ Goto(r, "rollback")

Commit(r) ==
  /\ \/ step[r] = "tx" /\ ~Waiting(r) /\ ~Borrows(r)
     \/ step[r] = "entry"
  /\ GiveBack(r)
  /\ Goto(r, IF kind[r] = "login" THEN "committed" ELSE "idle")

(* A statement, or the commit, rejects.                                     *)
Throw(r) ==
  /\ \/ step[r] = "tx" /\ ~Waiting(r)
     \/ step[r] = "entry"
  /\ Goto(r, "rollback")
  /\ UNCHANGED <<owner, queue>>

(* Whether the rollback resolves or rejects, finally releases.              *)
Rollback(r) ==
  /\ step[r] = "rollback"
  /\ EndRollback(r)
  /\ Goto(r, "idle")

(* resetFailedAttempts, which may reject.                                   *)
ClearNotAwaited == "idle"         \* faulty variant: the answer is sent without awaiting it

Clearing == "clear"

ClearFailures(r) ==
  /\ step[r] = "committed"
  /\ \/ Ask(r) /\ Goto(r, Clearing)
     \/ Free # {} /\ Goto(r, "idle") /\ UNCHANGED <<owner, queue>>

Cleared(r) ==
  /\ step[r] = "clear" /\ ~Waiting(r)
  /\ GiveBack(r)
  /\ Goto(r, "idle")

-----------------------------------------------------------------------------
Proceed(r) ==
  \/ LookUp(r) \/ GetConnection(r) \/ SeeDevice(r) \/ Sighted(r) \/ Commit(r)
  \/ Throw(r) \/ Rollback(r) \/ ClearFailures(r) \/ Cleared(r)

Next == \E r \in Requests : Arrive(r) \/ Proceed(r)

Spec == Init /\ [][Next]_vars

(***************************************************************************)
(* A statement that has a connection is answered or rejected, and the      *)
(* event loop runs what awaits it.  Nothing more: no request is obliged to *)
(* come, and a queued one proceeds only when a connection is given to it.  *)
(***************************************************************************)
FairSpec == Spec /\ \A r \in Requests : WF_vars(Proceed(r))

-----------------------------------------------------------------------------
(***************************************************************************)
(* Types of the pool and the requests; nobody waits in the queue twice.    *)
(***************************************************************************)
TypeOK ==
  /\ owner \in [Conns -> Requests \cup {None}]
  /\ queue \in Seq(Requests)
  /\ \A i, j \in DOMAIN queue : queue[i] = queue[j] => i = j
  /\ kind \in [Requests -> Kinds \cup {None}]
  /\ step \in [Requests -> Steps]

(***************************************************************************)
(* "Always releases the connection back to the pool, including when        *)
(* commit/rollback itself throws": whatever rejects and in whatever order  *)
(* connections change hands, a request holds as many as it is using, none  *)
(* once it is done, and none lies idle while somebody waits.               *)
(***************************************************************************)
Needed(s) ==
  IF s \in {"idle", "ready", "committed"} THEN 0 ELSE IF s = "sighting" THEN 2 ELSE 1

Uses(r) == Needed(step[r]) - (IF Waiting(r) THEN 1 ELSE 0)

NothingLeaks ==
  /\ \A r \in Requests : Cardinality(Held(r)) = Uses(r)
  /\ queue # <<>> => Free = {}

(***************************************************************************)
(* As long as there are fewer logins than connections, the pool never      *)
(* locks up: while somebody waits, somebody who holds a connection does    *)
(* not.                                                                    *)
(***************************************************************************)
NeverStuck ==
  queue # <<>> => \E c \in Conns : owner[c] # None /\ ~Waiting(owner[c])

(***************************************************************************)
(* And then every request comes to its end, although nothing bounds the    *)
(* queue or the time spent in it.                                          *)
(***************************************************************************)
EveryRequestEnds == \A r \in Requests : step[r] # "idle" ~> step[r] = "idle"
=============================================================================
