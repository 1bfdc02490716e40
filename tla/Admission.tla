----------------------------- MODULE Admission -----------------------------
(***************************************************************************)
(* Admission of notifications against the notifications table: the single *)
(* create path of NotificationService.Create with its idempotency check    *)
(* and conflict read-back, and NotificationService.CreateBatch with the    *)
(* transaction of NotificationRepository.CreateBatch, run by concurrent    *)
(* HTTP requests; the reply each request gets through HandleError/JSON.     *)
(*                                                                         *)
(* The table is `db`, a set of committed rows; idempotency_key carries a   *)
(* UNIQUE constraint.  A batch's rows are inserted one statement at a time *)
(* into its open transaction `tx[b]`, invisible to readers until commit.   *)
(* PostgreSQL makes an insert whose key is held by another open            *)
(* transaction wait for it, reports a duplicate key once the holder has    *)
(* committed, and breaks a cycle of such waits by failing one of the       *)
(* transactions; a failed statement aborts its transaction at once.        *)
(* Requests pass validation; content, channel and templates are left out. *)
(***************************************************************************)
EXTENDS Naturals, Sequences, FiniteSets

CONSTANTS
  Singles,      \* concurrent POST /notifications requests
  Batches,      \* concurrent POST /notifications/batch requests
  KeyOf,        \* KeyOf[r]: idempotency key of single request r, or NoKey
  BatchKeys,    \* BatchKeys[b]: the keys of batch b's items, in order
  Keys,         \* idempotency keys
  NoKey,        \* a nil IdempotencyKey
  EnqueueFails  \* whether a Redis Enqueue/EnqueueBatch may return an error

ASSUME NoKey \notin Keys /\ EnqueueFails \in BOOLEAN
ASSUME \A b \in Batches : BatchKeys[b] \in Seq(Keys \cup {NoKey})

VARIABLES
  db,      \* committed rows [id, key, batch, status]
  tx,      \* tx[b]: rows inserted by batch b's open transaction
  tokens,  \* ids of rows whose QueueItem reached the priority queue
  spc,     \* single request: "check", "insert", "readback", "enqueue",
           \* "update" or "done"
  bpc,     \* batch request: "insert", "commit", "enqueue" or "done"
  bi,      \* bi[b]: index of batch b's next item to insert
  reply    \* reply[q]: the HTTP reply to request q, or NoReply

vars == <<db, tx, tokens, spc, bpc, bi, reply>>

Requests == Singles \cup Batches

NoBatch == "none"

(* The row id of single r is <<r, 1>>; of item i of batch b, <<b, i>>.   *)
SingleId(r) == <<r, 1>>

ItemIds(b) == { <<b, i>> : i \in 1..Len(BatchKeys[b]) }

RowIds == { SingleId(r) : r \in Singles } \cup UNION { ItemIds(b) : b \in Batches }

Row == [id : RowIds, key : Keys \cup {NoKey}, batch : Batches \cup {NoBatch},
        status : {"pending", "queued"}]

(* A reply: the HTTP status and the records in its body with the status   *)
(* each is reported in.                                                    *)
Reply == [code : {201, 404, 409, 500},
          body : SUBSET (RowIds \X {"pending", "queued"})]

NoReply == [code |-> 0, body |-> {}]

TypeOK ==
  /\ db \subseteq Row
  /\ tx \in [Batches -> SUBSET Row]
  /\ tokens \subseteq RowIds
  /\ spc \in [Singles -> {"check", "insert", "readback", "enqueue", "update", "done"}]
  /\ bpc \in [Batches -> {"insert", "commit", "enqueue", "done"}]
  /\ \A b \in Batches : bi[b] \in 1..Len(BatchKeys[b]) + 1
  /\ reply \in [Requests -> Reply \cup {NoReply}]

(* Mutant: the idempotency conflict answered as a bad request.            *)
HandleErrorConflictAs400(err) ==
  CASE err = "ErrNotFound"            -> 404
    [] err = "ErrIdempotencyConflict" -> 400
    [] OTHER                          -> 500

(* HandleError: the HTTP status a domain error is answered with.          *)
HandleError(err) ==
  CASE err = "ErrNotFound"            -> 404
    [] err = "ErrIdempotencyConflict" -> 409
    [] OTHER                          -> 500

(* GetByIdempotencyKey: the committed rows holding key k (at most one).   *)
WithKey(k) == { r \in db : r.key = k }

(* A key is taken by committed rows or by rows of transaction b itself.   *)
Taken(k, b) == k # NoKey /\ \E r \in db \cup tx[b] : r.key = k

(* An open transaction other than b holds key k, so an insert of k waits. *)
HeldElsewhere(k, b) == k # NoKey /\ \E b2 \in Batches \ {b} : \E r \in tx[b2] : r.key = k

Init ==
  /\ db = {}
  /\ tx = [b \in Batches |-> {}]
  /\ tokens = {}
  /\ spc = [r \in Singles |-> "check"]
  /\ bpc = [b \in Batches |-> "insert"]
  /\ bi = [b \in Batches |-> 1]
  /\ reply = [q \in Requests |-> NoReply]

-----------------------------------------------------------------------------
(* Create, idempotency check: a committed row with the key is returned    *)
(* unchanged with 201; otherwise the request goes on to persist.           *)
SingleCheck(r) ==
  /\ spc[r] = "check"
  /\ IF KeyOf[r] # NoKey /\ WithKey(KeyOf[r]) # {}
       THEN LET e == CHOOSE x \in WithKey(KeyOf[r]) : TRUE
            IN /\ reply' = [reply EXCEPT ![r] = [code |-> 201, body |-> {<<e.id, e.status>>}]]
               /\ spc' = [spc EXCEPT ![r] = "done"]
       ELSE /\ spc' = [spc EXCEPT ![r] = "insert"]
            /\ UNCHANGED reply
  /\ UNCHANGED <<db, tx, tokens, bpc, bi>>

(* Mutant: a duplicate-key error from the insert is returned to the caller *)
(* instead of being answered with the winning record.                      *)
SingleInsertNoReadback(r) ==
  /\ spc[r] = "insert"
  /\ ~HeldElsewhere(KeyOf[r], NoBatch)
  /\ IF KeyOf[r] # NoKey /\ WithKey(KeyOf[r]) # {}
       THEN /\ reply' = [reply EXCEPT ![r] = [code |-> HandleError("ErrIdempotencyConflict"), body |-> {}]]
            /\ spc' = [spc EXCEPT ![r] = "done"]
            /\ UNCHANGED db
       ELSE /\ db' = db \cup {[id |-> SingleId(r), key |-> KeyOf[r], batch |-> NoBatch, status |-> "pending"]}
            /\ spc' = [spc EXCEPT ![r] = "enqueue"]
            /\ UNCHANGED reply
  /\ UNCHANGED <<tx, tokens, bpc, bi>>

(* Create, persist: repo.Create inserts the pending row.  The insert waits *)
(* while an open batch transaction holds its key; a duplicate key is       *)
(* ErrIdempotencyConflict, after which the winner is read back.            *)
SingleInsert(r) ==
  /\ spc[r] = "insert"
  /\ ~HeldElsewhere(KeyOf[r], NoBatch)
  /\ IF KeyOf[r] # NoKey /\ WithKey(KeyOf[r]) # {}
       THEN /\ spc' = [spc EXCEPT ![r] = "readback"]
            /\ UNCHANGED db
       ELSE /\ db' = db \cup {[id |-> SingleId(r), key |-> KeyOf[r], batch |-> NoBatch, status |-> "pending"]}
            /\ spc' = [spc EXCEPT ![r] = "enqueue"]
  /\ UNCHANGED <<tx, tokens, bpc, bi, reply>>

(* Create, conflict: return GetByIdempotencyKey's answer as the reply.    *)
SingleReadback(r) ==
  /\ spc[r] = "readback"
  /\ reply' = [reply EXCEPT ![r] =
       IF WithKey(KeyOf[r]) # {}
         THEN LET e == CHOOSE x \in WithKey(KeyOf[r]) : TRUE
              IN [code |-> 201, body |-> {<<e.id, e.status>>}]
         ELSE [code |-> HandleError("ErrNotFound"), body |-> {}]]
  /\ spc' = [spc EXCEPT ![r] = "done"]
  /\ UNCHANGED <<db, tx, tokens, bpc, bi>>

(* enqueueNotification, first half: Enqueue the QueueItem and MarkAsQueued *)
(* the in-memory record.  An Enqueue error is only logged: the request is  *)
(* answered with the record as it is, pending.                              *)
SingleEnqueue(r) ==
  /\ spc[r] = "enqueue"
  /\ \/ /\ tokens' = tokens \cup {SingleId(r)}
        /\ spc' = [spc EXCEPT ![r] = "update"]
        /\ UNCHANGED reply
     \/ /\ EnqueueFails
        /\ reply' = [reply EXCEPT ![r] = [code |-> 201, body |-> {<<SingleId(r), "pending">>}]]
        /\ spc' = [spc EXCEPT ![r] = "done"]
        /\ UNCHANGED tokens
  /\ UNCHANGED <<db, tx, bpc, bi>>

(* enqueueNotification, second half: repo.Update writes the queued copy,   *)
(* and Create answers 201 with it.                                          *)
SingleUpdate(r) ==
  /\ spc[r] = "update"
  /\ db' = {x \in db : x.id # SingleId(r)}
           \cup {[id |-> SingleId(r), key |-> KeyOf[r], batch |-> NoBatch, status |-> "queued"]}
  /\ reply' = [reply EXCEPT ![r] = [code |-> 201, body |-> {<<SingleId(r), "queued">>}]]
  /\ spc' = [spc EXCEPT ![r] = "done"]
  /\ UNCHANGED <<tx, tokens, bpc, bi>>

-----------------------------------------------------------------------------
(* CreateBatch, one INSERT inside the transaction.  It waits while another *)
(* open transaction holds the key.  A duplicate key (committed, or earlier *)
(* in this batch) aborts the transaction, rolled back by the deferred      *)
(* Rollback, and the whole request fails with ErrIdempotencyConflict.     *)
BatchInsert(b) ==
  /\ bpc[b] = "insert"
  /\ LET k == BatchKeys[b][bi[b]]
     IN /\ ~HeldElsewhere(k, b)
        /\ IF Taken(k, b)
             THEN /\ tx' = [tx EXCEPT ![b] = {}]
                  /\ reply' = [reply EXCEPT ![b] = [code |-> HandleError("ErrIdempotencyConflict"), body |-> {}]]
                  /\ bpc' = [bpc EXCEPT ![b] = "done"]
                  /\ UNCHANGED bi
             ELSE /\ tx' = [tx EXCEPT ![b] = @ \cup
                              {[id |-> <<b, bi[b]>>, key |-> k, batch |-> b, status |-> "pending"]}]
                  /\ bi' = [bi EXCEPT ![b] = @ + 1]
                  /\ bpc' = [bpc EXCEPT ![b] = IF bi[b] = Len(BatchKeys[b]) THEN "commit" ELSE "insert"]
                  /\ UNCHANGED reply
  /\ UNCHANGED <<db, tokens, spc>>

(* The key a waiting batch needs next.                                     *)
NextKey(b) == BatchKeys[b][bi[b]]

(* Two batches each wait for a key the other holds: PostgreSQL's deadlock  *)
(* detector fails b's INSERT; the error is neither a duplicate key nor     *)
(* mapped, so the transaction is rolled back and the request gets 500.     *)
BatchDeadlockVictim(b) ==
  /\ bpc[b] = "insert"
  /\ \E b2 \in Batches \ {b} :
       /\ bpc[b2] = "insert"
       /\ \E x \in tx[b2] : x.key = NextKey(b) /\ x.key # NoKey
       /\ \E x \in tx[b] : x.key = NextKey(b2) /\ x.key # NoKey
  /\ tx' = [tx EXCEPT ![b] = {}]
  /\ reply' = [reply EXCEPT ![b] = [code |-> HandleError("deadlock detected"), body |-> {}]]
  /\ bpc' = [bpc EXCEPT ![b] = "done"]
  /\ UNCHANGED <<db, tokens, spc, bi>>

(* CreateBatch, Commit: every row of the batch becomes visible at once.   *)
BatchCommit(b) ==
  /\ bpc[b] = "commit"
  /\ db' = db \cup tx[b]
  /\ tx' = [tx EXCEPT ![b] = {}]
  /\ bpc' = [bpc EXCEPT ![b] = "enqueue"]
  /\ UNCHANGED <<tokens, spc, bi, reply>>

(* NotificationService.CreateBatch after persisting: one EnqueueBatch of  *)
(* every pending item; on success the returned records are set to queued  *)
(* in memory only, on an error (logged) they are returned pending.  The   *)
(* handler answers 201 with them.                                           *)
BatchEnqueue(b) ==
  /\ bpc[b] = "enqueue"
  /\ \/ /\ tokens' = tokens \cup ItemIds(b)
        /\ reply' = [reply EXCEPT ![b] = [code |-> 201, body |-> ItemIds(b) \X {"queued"}]]
     \/ /\ EnqueueFails
        /\ reply' = [reply EXCEPT ![b] = [code |-> 201, body |-> ItemIds(b) \X {"pending"}]]
        /\ UNCHANGED tokens
  /\ bpc' = [bpc EXCEPT ![b] = "done"]
  /\ UNCHANGED <<db, tx, spc, bi>>

(* Every request has been answered; the server waits for more.            *)
Served ==
  /\ \A r \in Singles : spc[r] = "done"
  /\ \A b \in Batches : bpc[b] = "done"
  /\ UNCHANGED vars

Next ==
  \/ \E r \in Singles :
       SingleCheck(r) \/ SingleInsert(r) \/ SingleReadback(r)
         \/ SingleEnqueue(r) \/ SingleUpdate(r)
  \/ \E b \in Batches :
       BatchInsert(b) \/ BatchDeadlockVictim(b) \/ BatchCommit(b) \/ BatchEnqueue(b)
  \/ Served

Spec == Init /\ [][Next]_vars

-----------------------------------------------------------------------------
(* Spec section 8 and section 4.4 steps 1 and 5: a create carrying an      *)
(* idempotency key is answered with the one record holding that key,       *)
(* whether the key was found by the check or a concurrent request won the *)
(* insert (the duplicate-key read-back in NotificationService.Create).    *)
KeyedCreateReturnsOriginal ==
  \A r \in Singles :
    spc[r] = "done" /\ KeyOf[r] # NoKey =>
      /\ reply[r].code = 201
      /\ { x[1] : x \in reply[r].body } = { e.id : e \in WithKey(KeyOf[r]) }

=============================================================================
