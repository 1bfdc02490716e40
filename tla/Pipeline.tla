------------------------------ MODULE Pipeline ------------------------------
(***************************************************************************)
(* The delivery pipeline of one channel: the notification store           *)
(* (PostgreSQL), the channel's priority queue (a Redis sorted set), the    *)
(* single-notification admission path, cancellation, the scheduler sweep   *)
(* and the channel's worker pool.                                          *)
(*                                                                         *)
(* Every actor works the way the Go code does: it reads a full row into a  *)
(* local copy (GetByID, GetScheduledNotifications), changes the copy       *)
(* (MarkAsQueued, MarkAsProcessing, ...) and writes the whole copy back    *)
(* with NotificationRepository.Update, an unconditional UPDATE ... WHERE   *)
(* id = $1.  Each database and Redis call is one atomic step; the steps    *)
(* of different actors interleave freely.                                  *)
(*                                                                         *)
(* Data abstraction: a row keeps status, retry_count and whether sent_at / *)
(* external_id are set; recipient, content, metadata and timestamps are    *)
(* left out.  A queue member is the JSON of {id, channel, priority,        *)
(* retry_count}; its score is weight(priority) + now, so the queue is kept *)
(* as a sequence in score order within a priority class.                   *)
(***************************************************************************)
EXTENDS Naturals, FiniteSets, Sequences, SequencesExt

CONSTANTS
  Notifications,   \* notification ids the clients create
  Workers,         \* worker goroutines of this channel's pool
  Priorities,      \* priorities clients may request
  ScheduledAt,     \* whether requests carry a future scheduled_at
  Responses,       \* HTTP status codes the provider answers (0: no answer)
  MaxRetries,      \* RetryConfig.MaxCount
  BatchSize,       \* SchedulerService.batchSize
  MaxRestarts      \* bound on shutdown-and-restart cycles of the process

ASSUME MaxRetries \in Nat \ {0} /\ BatchSize \in Nat \ {0} /\ MaxRestarts \in Nat
ASSUME Priorities \subseteq {"high", "normal", "low"} /\ ScheduledAt \subseteq BOOLEAN
ASSUME Responses \subseteq 0..599

VARIABLES
  row,         \* the notifications table: id -> row ("none" = no row)
  prio,        \* priority chosen at creation (never updated afterwards)
  sched,       \* the request carried a future scheduled_at
  due,         \* scheduled_at <= now
  queue,       \* the channel's sorted set, in dequeue order per class
  wpc,         \* worker program counter
  witem,       \* the QueueItem a worker popped
  wcopy,       \* the worker's in-memory *Notification
  wresp,       \* the provider result a worker is handling
  cpc,         \* Create request progress per notification
  kpc,         \* Cancel request progress per notification
  kcopy,       \* the Cancel handler's in-memory *Notification
  spc,         \* scheduler progress
  sbatch,      \* rows the scheduler read: id -> copy
  calls,       \* history: provider calls made for each notification
  delivered,   \* history: the provider has taken the notification
  phase,       \* "running", or "stopping" after SIGTERM until the new process
  restarts     \* shutdowns so far

vars == <<row, prio, sched, due, queue, wpc, witem, wcopy, wresp, cpc,
          kpc, kcopy, spc, sbatch, calls, delivered,
          phase, restarts>>

store  == <<row, prio, sched, due>>
wvars  == <<wpc, witem, wcopy, wresp>>
hist   == <<calls, delivered>>
proc   == <<phase, restarts>>

(* The process serves requests, ticks and runs workers only until SIGTERM. *)
Running == phase = "running"

Lifecycle == INSTANCE NotificationLifecycle
               WITH Ids <- Notifications,
                    status <- [n \in Notifications |-> row[n].status]

Statuses == Lifecycle!Statuses

(* retry_count passes max_retries when a failed record is processed again: *)
(* a sweep cut short between its ZADD and its Updates leaves the rows      *)
(* scheduled, the next process enqueues them once more, and the worker     *)
(* skips only sent, delivered and cancelled records.  Each restart gives a *)
(* record at most one such extra token, and so one more increment.        *)
Row == [status : Statuses, retry : 0..MaxRetries + MaxRestarts, sent : BOOLEAN]
Token == [id : Notifications, prio : Priorities, retry : 0..MaxRetries - 1]

(* NewNotification: a fresh record, retry_count 0, no sent_at.            *)
FreshRow(s) == [status |-> s, retry |-> 0, sent |-> FALSE]

NoRow == FreshRow("none")

(* The Mark... methods of *Notification on the in-memory copy; the error *)
(* message and UpdatedAt are left out.                                    *)
MarkAsQueued(r)     == [r EXCEPT !.status = "queued"]
MarkAsProcessing(r) == [r EXCEPT !.status = "processing"]
MarkAsSent(r)       == [r EXCEPT !.status = "sent", !.sent = TRUE]
MarkAsFailed(r)     == [r EXCEPT !.status = "failed"]
MarkAsCancelled(r)  == [r EXCEPT !.status = "cancelled"]
IncrementRetry(r)   == [r EXCEPT !.retry = @ + 1]

(* The answers of the provider contract that mean it took the request.    *)
SuccessCodes == {200, 202}

(* WebhookProvider.Send and the test handleSendError applies to its       *)
(* error: client.Do failing gives a retryable ProviderError(0); a body    *)
(* that cannot be read gives a plain error, which handleSendError retries; *)
(* 200 and 202 succeed (an unparsable body gets a generated message id);  *)
(* any other code is a ProviderError, retryable iff >= 500 or 429.         *)
SendResult(c, readOk) ==
  CASE c = 0 \/ ~readOk             -> "retryable"
    [] c \in SuccessCodes           -> "ok"
    [] c >= 500 \/ c = 429          -> "retryable"
    [] OTHER                        -> "fatal"

(* Whether the provider took the request, for an exchange ending in c:    *)
(* when client.Do times out the provider may already have accepted it.    *)
Took(c) == IF c = 0 THEN BOOLEAN ELSE {c \in SuccessCodes}

(* Notification.CanCancel                                                  *)
CanCancel(r) == r.status \in {"pending", "scheduled", "queued"}

(* Priority.Weight: lower score is dequeued first.                         *)
Weight(p) == CASE p = "high" -> 0 [] p = "normal" -> 1000000
                  [] p = "low" -> 2000000

(* ZADD: a member already present only gets the new (later) score.         *)
ZAdd(q, t) == Append(Remove(q, t), t)

(* ZPOPMIN: a token of the lowest weight.  Within a weight the float64     *)
(* score ties for arrivals closer than its spacing (ChannelQueue), and     *)
(* this model has no clock, so any token of that weight may come first.    *)
PopIndices(q) ==
  {i \in 1..Len(q) : \A j \in 1..Len(q) : Weight(q[i].prio) <= Weight(q[j].prio)}

(* A worker's item before its first Dequeue and after processNext.        *)
NoItem == [id |-> "none", prio |-> "normal", retry |-> 0]

TokenOf(n, r) == [id |-> n, prio |-> prio[n], retry |-> r.retry]

-----------------------------------------------------------------------------
(***************************************************************************)
(* Admission: NotificationService.Create without an idempotency key, the  *)
(* request valid.  repo.Create inserts the row; a pending record is then  *)
(* enqueued and its in-memory copy, marked queued, written back.          *)
(***************************************************************************)
Create(n, p, s) ==
  /\ row[n].status = "none"
  /\ row' = [row EXCEPT ![n] = FreshRow(IF s THEN "scheduled" ELSE "pending")]
  /\ prio' = [prio EXCEPT ![n] = p]
  /\ sched' = [sched EXCEPT ![n] = s]
  /\ cpc' = [cpc EXCEPT ![n] = IF s THEN "done" ELSE "enqueue"]
  /\ UNCHANGED <<due, queue, wvars, kpc, kcopy, spc, sbatch, hist, proc>>

(* enqueueNotification: queue.Enqueue of the item built from the copy.    *)
CreateEnqueue(n) ==
  /\ cpc[n] = "enqueue"
  /\ queue' = ZAdd(queue, TokenOf(n, FreshRow("pending")))
  /\ cpc' = [cpc EXCEPT ![n] = "update"]
  /\ UNCHANGED <<store, wvars, kpc, kcopy, spc, sbatch, hist, proc>>

(* enqueueNotification: MarkAsQueued on the copy, then repo.Update.       *)
CreateMarkQueued(n) ==
  /\ cpc[n] = "update"
  /\ row' = [row EXCEPT ![n] = MarkAsQueued(FreshRow("pending"))]
  /\ cpc' = [cpc EXCEPT ![n] = "done"]
  /\ UNCHANGED <<prio, sched, due, queue, wvars, kpc, kcopy, spc, sbatch, hist, proc>>

(***************************************************************************)
(* NotificationService.Cancel: GetByID, CanCancel, MarkAsCancelled,        *)
(* Update.  A client learns the id from Create's response, so a Cancel of  *)
(* n starts only after Create of n returned.                               *)
(***************************************************************************)
CancelRead(n) ==
  /\ kpc[n] = "idle" /\ cpc[n] = "done"
  /\ IF CanCancel(row[n])
       THEN /\ kpc' = [kpc EXCEPT ![n] = "write"]
            /\ kcopy' = [kcopy EXCEPT ![n] = row[n]]
       ELSE /\ kpc' = [kpc EXCEPT ![n] = "done"]     \* ErrCannotCancel
            /\ UNCHANGED kcopy
  /\ UNCHANGED <<store, queue, wvars, cpc, spc, sbatch, hist, proc>>

CancelWrite(n) ==
  /\ kpc[n] = "write"
  /\ row' = [row EXCEPT ![n] = MarkAsCancelled(kcopy[n])]
  /\ kpc' = [kpc EXCEPT ![n] = "done"]
  /\ kcopy' = [kcopy EXCEPT ![n] = NoRow]
  /\ UNCHANGED <<prio, sched, due, queue, wvars, cpc, spc, sbatch, hist, proc>>

(* Time passes a record's scheduled_at.                                    *)
TimePasses(n) ==
  /\ row[n].status # "none" /\ sched[n] /\ ~due[n]
  /\ due' = [due EXCEPT ![n] = TRUE]
  /\ UNCHANGED <<row, prio, sched, queue, wvars, cpc, kpc, kcopy, spc,
                 sbatch, hist, proc>>

(***************************************************************************)
(* SchedulerService.processScheduledNotifications, one call per sweep:    *)
(* GetScheduledNotifications (status = scheduled AND scheduled_at <= now,  *)
(* at most batchSize rows), one EnqueueBatch pipeline, then MarkAsQueued   *)
(* and Update on each copy in turn.  An empty scan changes nothing.        *)
(***************************************************************************)
DueRows == {n \in Notifications : row[n].status = "scheduled" /\ due[n]}

(* Variant of SchedulerScan that drops "scheduled_at <= $1".               *)
SchedulerScanIgnoringTime ==
  /\ Running /\ spc = "idle"
  /\ \E S \in SUBSET {n \in Notifications : row[n].status = "scheduled"} :
       /\ S # {}
       /\ sbatch' = [n \in S |-> row[n]]
  /\ spc' = "enqueue"
  /\ UNCHANGED <<store, queue, wvars, cpc, kpc, kcopy, hist, proc>>

(* run: the ticker's case; after Stop closes stopChan no sweep starts.   *)
SchedulerScan ==
  /\ Running /\ spc = "idle"
  /\ DueRows # {}
  /\ \E S \in SUBSET DueRows :
       /\ Cardinality(S) = IF Cardinality(DueRows) <= BatchSize
                             THEN Cardinality(DueRows) ELSE BatchSize
       /\ sbatch' = [n \in S |-> row[n]]
  /\ spc' = "enqueue"
  /\ UNCHANGED <<store, queue, wvars, cpc, kpc, kcopy, hist, proc>>

SchedulerEnqueue ==
  /\ spc = "enqueue"
  /\ \E order \in SetToSeqs(DOMAIN sbatch) :
       queue' = FoldLeft(LAMBDA q, n : ZAdd(q, TokenOf(n, sbatch[n])), queue, order)
  /\ spc' = "update"
  /\ UNCHANGED <<store, wvars, cpc, kpc, kcopy, sbatch, hist, proc>>

SchedulerMarkQueued(n) ==
  /\ spc = "update" /\ n \in DOMAIN sbatch
  /\ row' = [row EXCEPT ![n] = MarkAsQueued(sbatch[n])]
  /\ sbatch' = [m \in DOMAIN sbatch \ {n} |-> sbatch[m]]
  /\ spc' = IF DOMAIN sbatch = {n} THEN "idle" ELSE "update"
  /\ UNCHANGED <<prio, sched, due, queue, wvars, cpc, kpc, kcopy, hist, proc>>

-----------------------------------------------------------------------------
(***************************************************************************)
(* Processor.processNext / processNotification / handleSendError, one     *)
(* worker goroutine per element of Workers.  rateLimiter.Wait is left to  *)
(* the RateLimiter module; an empty Dequeue only sleeps.                  *)
(***************************************************************************)

(* repo.Update of the worker's copy r.                                    *)
WriteBack(w, r) == row' = [row EXCEPT ![witem[w].id] = r]

(* processNext returns: the goroutine's locals go out of scope.           *)
Release(w) ==
  /\ wpc' = [wpc EXCEPT ![w] = "idle"]
  /\ witem' = [witem EXCEPT ![w] = NoItem]
  /\ wcopy' = [wcopy EXCEPT ![w] = NoRow]
  /\ wresp' = [wresp EXCEPT ![w] = "ok"]

Dequeue(w) ==
  /\ wpc[w] = "idle" /\ queue # <<>>
  /\ \E i \in PopIndices(queue) :
       /\ witem' = [witem EXCEPT ![w] = queue[i]]
       /\ queue' = RemoveAt(queue, i)
  /\ wpc' = [wpc EXCEPT ![w] = "get"]
  /\ UNCHANGED <<store, wcopy, wresp, cpc, kpc, kcopy, spc, sbatch, hist, proc>>

(* GetByID, then drop a record that is sent, delivered or cancelled.      *)
GetNotification(w) ==
  /\ wpc[w] = "get"
  /\ LET r == row[witem[w].id] IN
       IF r.status \in {"sent", "delivered", "cancelled"}
         THEN Release(w)
         ELSE /\ wpc' = [wpc EXCEPT ![w] = "mark"]
              /\ wcopy' = [wcopy EXCEPT ![w] = r]
              /\ UNCHANGED <<witem, wresp>>
  /\ UNCHANGED <<store, queue, cpc, kpc, kcopy, spc, sbatch, hist, proc>>

MarkProcessing(w) ==
  /\ wpc[w] = "mark"
  /\ wcopy' = [wcopy EXCEPT ![w] = MarkAsProcessing(@)]
  /\ WriteBack(w, wcopy'[w])
  /\ wpc' = [wpc EXCEPT ![w] = "send"]
  /\ UNCHANGED <<prio, sched, due, queue, witem, wresp, cpc, kpc, kcopy, spc,
                 sbatch, hist, proc>>

(* provider.Send: the external call; its result is handled next.          *)
ProviderSend(w) ==
  /\ wpc[w] = "send"
  /\ \E c \in Responses, readOk \in BOOLEAN :
       LET n == witem[w].id
           out == SendResult(c, readOk)
       IN /\ wresp' = [wresp EXCEPT ![w] = out]
          /\ calls' = [calls EXCEPT ![n] = @ + 1]
          /\ \E took \in Took(c) :
               delivered' = [delivered EXCEPT ![n] = @ \/ took]
  /\ wpc' = [wpc EXCEPT ![w] = "result"]
  /\ UNCHANGED <<store, queue, witem, wcopy, cpc, kpc, kcopy, spc, sbatch, proc>>

HandleSent(w) ==
  /\ wpc[w] = "result" /\ wresp[w] = "ok"
  /\ WriteBack(w, MarkAsSent(wcopy[w]))
  /\ Release(w)
  /\ UNCHANGED <<prio, sched, due, queue, cpc, kpc, kcopy, spc, sbatch, hist, proc>>

HandleNonRetryable(w) ==
  /\ wpc[w] = "result" /\ wresp[w] = "fatal"
  /\ WriteBack(w, MarkAsFailed(wcopy[w]))
  /\ Release(w)
  /\ UNCHANGED <<prio, sched, due, queue, cpc, kpc, kcopy, spc, sbatch, hist, proc>>

HandleRetryableNoRequeue(w) ==
  /\ wpc[w] = "result" /\ wresp[w] = "retryable"
  /\ LET c == IncrementRetry(wcopy[w]) IN
       IF c.retry >= MaxRetries
         THEN WriteBack(w, MarkAsFailed(c))
         ELSE WriteBack(w, [c EXCEPT !.status = "queued"])
  /\ Release(w)
  /\ UNCHANGED <<prio, sched, due, queue, cpc, kpc, kcopy, spc, sbatch, hist, proc>>

(* IncrementRetry; failed at MaxCount, otherwise queued before the sleep. *)
HandleRetryable(w) ==
  /\ wpc[w] = "result" /\ wresp[w] = "retryable"
  /\ LET c == IncrementRetry(wcopy[w]) IN
       IF c.retry >= MaxRetries
         THEN /\ WriteBack(w, MarkAsFailed(c))
              /\ Release(w)
         ELSE /\ WriteBack(w, [c EXCEPT !.status = "queued"])
              /\ wcopy' = [wcopy EXCEPT ![w] = [c EXCEPT !.status = "queued"]]
              /\ wpc' = [wpc EXCEPT ![w] = "backoff"]
              /\ UNCHANGED <<witem, wresp>>
  /\ UNCHANGED <<prio, sched, due, queue, cpc, kpc, kcopy, spc, sbatch, hist, proc>>

(* After the backoff delay: queue.Enqueue of the item with the new count. *)
Requeue(w) ==
  /\ wpc[w] = "backoff"
  /\ queue' = ZAdd(queue, TokenOf(witem[w].id, wcopy[w]))
  /\ Release(w)
  /\ UNCHANGED <<store, cpc, kpc, kcopy, spc, sbatch, hist, proc>>

-----------------------------------------------------------------------------
(***************************************************************************)
(* Graceful shutdown (main) and the next start of the process.  The store *)
(* and the Redis queue outlive the process; goroutine state does not.     *)
(***************************************************************************)

(* SIGTERM: server.Shutdown refuses new requests and waits for the        *)
(* in-flight ones; schedulerService.Stop closes stopChan, so no sweep     *)
(* starts but the current one goes on under the root context;             *)
(* processor.Stop cancels the workers' context.                           *)
Shutdown ==
  /\ Running /\ restarts < MaxRestarts
  /\ \A n \in Notifications : cpc[n] \in {"idle", "done"} /\ kpc[n] # "write"
  /\ phase' = "stopping"
  /\ restarts' = restarts + 1
  /\ UNCHANGED <<store, queue, wvars, cpc, kpc, kcopy, spc, sbatch, hist>>

(* A worker whose context is cancelled in the middle of processNext: the  *)
(* GetByID or Update it is about to make, or the backoff select, returns *)
(* ctx.Err(), and worker returns.  The popped token is not given back and *)
(* nothing is written, so the row keeps what the worker last wrote.       *)
WorkerCancelled(w) ==
  /\ phase = "stopping" /\ wpc[w] \in {"get", "mark", "result", "backoff"}
  /\ Release(w)
  /\ UNCHANGED <<store, queue, cpc, kpc, kcopy, spc, sbatch, hist, proc>>

(* The provider call in flight when the context is cancelled: the request *)
(* context aborts client.Do, which may be before or after the provider   *)
(* took the request; handleSendError's Update then fails on the same      *)
(* context and the worker returns.                                        *)
SendAborted(w) ==
  /\ phase = "stopping" /\ wpc[w] = "send"
  /\ \E took \in BOOLEAN :
       LET n == witem[w].id IN
       /\ calls' = [calls EXCEPT ![n] = @ + (IF took THEN 1 ELSE 0)]
       /\ delivered' = [delivered EXCEPT ![n] = @ \/ took]
  /\ Release(w)
  /\ UNCHANGED <<store, queue, cpc, kpc, kcopy, spc, sbatch, proc>>

(* processor.Stop returns once the workers have; main cancels the root    *)
(* context, which cuts a scheduler sweep short, and exits.  The new       *)
(* process runs processor.Start, schedulerService.Start (whose run sweeps *)
(* at once) and the HTTP server.                                          *)
Restart ==
  /\ phase = "stopping"
  /\ \A w \in Workers : wpc[w] = "idle"
  /\ phase' = "running"
  /\ spc' = "idle"
  /\ sbatch' = [n \in {} |-> NoRow]
  /\ UNCHANGED <<store, queue, wvars, cpc, kpc, kcopy, hist, restarts>>

-----------------------------------------------------------------------------
Init ==
  /\ row = [n \in Notifications |-> NoRow]
  /\ prio = [n \in Notifications |-> "normal"]
  /\ sched = [n \in Notifications |-> FALSE]
  /\ due = [n \in Notifications |-> FALSE]
  /\ queue = <<>>
  /\ wpc = [w \in Workers |-> "idle"]
  /\ witem = [w \in Workers |-> NoItem]
  /\ wcopy = [w \in Workers |-> NoRow]
  /\ wresp = [w \in Workers |-> "ok"]
  /\ cpc = [n \in Notifications |-> "idle"]
  /\ kpc = [n \in Notifications |-> "idle"]
  /\ kcopy = [n \in Notifications |-> NoRow]
  /\ spc = "idle"
  /\ sbatch = [n \in {} |-> NoRow]
  /\ calls = [n \in Notifications |-> 0]
  /\ delivered = [n \in Notifications |-> FALSE]
  /\ phase = "running"
  /\ restarts = 0

(* The worker loop: processNext while the context is live.               *)
WorkerStep(w) ==
  \/ /\ Running
     /\ \/ Dequeue(w) \/ GetNotification(w) \/ MarkProcessing(w)
        \/ ProviderSend(w) \/ HandleSent(w) \/ HandleNonRetryable(w)
        \/ HandleRetryable(w) \/ Requeue(w)
  \/ WorkerCancelled(w) \/ SendAborted(w)

(* A request starts only while the server accepts connections.            *)
ClientStep(n) ==
  \/ Running /\ \E p \in Priorities, s \in ScheduledAt : Create(n, p, s)
  \/ CreateEnqueue(n) \/ CreateMarkQueued(n)
  \/ Running /\ CancelRead(n)
  \/ CancelWrite(n)

SchedulerStep ==
  SchedulerScan \/ SchedulerEnqueue \/ \E n \in Notifications : SchedulerMarkQueued(n)

Next ==
  \/ \E w \in Workers : WorkerStep(w)
  \/ \E n \in Notifications : ClientStep(n) \/ TimePasses(n)
  \/ SchedulerStep
  \/ Shutdown \/ Restart

(* Worker goroutines loop until shutdown, the scheduler ticks every       *)
(* interval, HTTP handlers run to completion, the clock advances and a    *)
(* stopped service is started again.  SIGTERM itself is not fair.         *)
Fairness ==
  /\ \A w \in Workers : WF_vars(WorkerStep(w))
  /\ \A n \in Notifications : WF_vars(CreateEnqueue(n) \/ CreateMarkQueued(n))
  /\ \A n \in Notifications : WF_vars(CancelWrite(n)) /\ WF_vars(TimePasses(n))
  /\ WF_vars(SchedulerStep)
  /\ WF_vars(Restart)

Spec == Init /\ [][Next]_vars /\ Fairness

-----------------------------------------------------------------------------
TypeOK ==
  /\ row \in [Notifications -> Row]
  /\ prio \in [Notifications -> Priorities \cup {"normal"}]
  /\ sched \in [Notifications -> BOOLEAN] /\ due \in [Notifications -> BOOLEAN]
  /\ queue \in Seq(Token)
  /\ wpc \in [Workers -> {"idle", "get", "mark", "send", "result", "backoff"}]
  /\ wcopy \in [Workers -> Row]
  /\ wresp \in [Workers -> {"ok", "retryable", "fatal"}]
  /\ cpc \in [Notifications -> {"idle", "enqueue", "update", "done"}]
  /\ kpc \in [Notifications -> {"idle", "write", "done"}]
  /\ spc \in {"idle", "enqueue", "update"}
  /\ calls \in [Notifications -> Nat]
  /\ delivered \in [Notifications -> BOOLEAN]
  /\ phase \in {"running", "stopping"} /\ restarts \in 0..MaxRestarts

(* Spec section 3, invariant 4, and section 8: retry_count <= max_retries *)
(* at all times.  The scheduler's enqueue-before-update order can leave a *)
(* record scheduled with its token already in the queue; sections 4.5 and *)
(* 9 call the duplicate token this gives benign, as workers dedup by status.*)
(* This states that the record's retry_count never passes max_retries,    *)
(* however the tokens of one record are interleaved.                      *)
RetryCountWithinMax == \A n \in Notifications : row[n].retry <= MaxRetries

(* Spec section 4.5: a scheduled notification reaches the provider only   *)
(* after its scheduled_at has passed (scheduler scan and admission path). *)
NotSentBeforeScheduledTime ==
  \A n \in Notifications : sched[n] /\ ~due[n] => calls[n] = 0

(* Spec section 5 and its glossary (at-least-once: a notification reaches *)
(* the provider "never zero times, absent permanent failure"): every      *)
(* notification that is created is eventually taken by the provider,     *)
(* failed by a worker (non-retryable answer or max retries) or cancelled, *)
(* through retries, backoffs, stale full-row writes and the scheduler's   *)
(* promotion of scheduled records.                                         *)
DeliveredAtLeastOnce ==
  \A n \in Notifications :
    <>(row[n].status # "none") =>
      <>(delivered[n] \/ row[n].status \in {"failed", "cancelled"})

=============================================================================
