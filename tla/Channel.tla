------------------------------- MODULE Channel -------------------------------
(***************************************************************************)
(* One channel's worker goroutines at the head of Processor.processNext    *)
(* (src/unnamed/part_007): rateLimiter.Wait, then queue.Dequeue, and on an *)
(* empty queue a 100 ms sleep before the loop starts again.  The limiter   *)
(* and the sorted set are the RateLimiter and ChannelQueue modules; what   *)
(* follows the dequeue (GetByID, the provider call, the writes) is in      *)
(* Pipeline.  Producers (admission, scheduler, retries) enqueue at any     *)
(* time.  The limiter counts in fractions of its one-second window and the *)
(* queue in 2^-52 of a score; both read the same wall clock, but no        *)
(* property relates the two, so each advances on its own.                  *)
(***************************************************************************)
EXTENDS Integers, FiniteSets, Functions

CONSTANTS Workers, Limit, Window, MaxTime, MaxAdmits, DistinctStamps,
          Items, Priorities, Times

VARIABLES now, window, expiry, lastRead, pc, stamp, admits, total,
          clock, zset, prioOf, arrival,
          wq     \* per worker: "wait" (in rateLimiter.Wait) or "pop"

L == INSTANCE RateLimiter
Q == INSTANCE ChannelQueue

lvars == <<now, window, expiry, lastRead, pc, stamp, admits, total>>
qvars == <<clock, zset, prioOf, arrival>>
vars == <<lvars, qvars, wq>>

TypeOK == L!TypeOK /\ Q!TypeOK /\ wq \in [Workers -> {"wait", "pop"}]

Init == L!Init /\ Q!QInit /\ wq = [w \in Workers |-> "wait"]

(* processNext step 1: Wait polls Allow until it returns true.            *)
WaitCount(w) == wq[w] = "wait" /\ L!AllowCount(w) /\ UNCHANGED <<qvars, wq>>

WaitAdd(w) == L!AllowAdd(w) /\ UNCHANGED <<qvars, wq>>

WaitReturns(w) ==
  /\ L!AllowExpire(w)
  /\ wq' = [wq EXCEPT ![w] = "pop"]
  /\ UNCHANGED qvars

(* processNext step 2: ZPOPMIN; the item goes on to processNotification   *)
(* and the worker, for the limiter and the queue, back to Wait.           *)
Dequeue(w) ==
  /\ wq[w] = "pop"
  /\ \E m \in Items : Q!PopMin(m)
  /\ wq' = [wq EXCEPT ![w] = "wait"]
  /\ UNCHANGED lvars

(* An empty queue: sleep 100 ms and return; the admission is spent.       *)
DequeueEmpty(w) ==
  /\ wq[w] = "pop"
  /\ DOMAIN zset = {}
  /\ wq' = [wq EXCEPT ![w] = "wait"]
  /\ UNCHANGED <<lvars, qvars>>

(* Queue.Enqueue and EnqueueBatch, by any producer.                       *)
Produce ==
  /\ \/ \E m \in Items, p \in Priorities : Q!Enqueue(m, p)
     \/ \E m1, m2 \in Items, p1, p2 \in Priorities, t \in Times :
          Q!EnqueueBatch(m1, p1, m2, p2, t)
  /\ UNCHANGED <<lvars, wq>>

TimePasses ==
  \/ L!Tick /\ UNCHANGED <<qvars, wq>>
  \/ \E t \in Times : Q!Tick(t) /\ UNCHANGED <<lvars, wq>>

Next ==
  \/ \E w \in Workers :
       WaitCount(w) \/ WaitAdd(w) \/ WaitReturns(w) \/ Dequeue(w) \/ DequeueEmpty(w)
  \/ Produce
  \/ TimePasses

Spec == Init /\ [][Next]_vars

-----------------------------------------------------------------------------
(* The properties of the two components, checked in their composition.    *)
(* See RateLimiter and ChannelQueue for what each one states.              *)
MarkersBounded == L!MarkersBounded

FIFOBeyondResolution == Q!FIFOBeyondResolution

=============================================================================
