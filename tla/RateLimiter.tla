---------------------------- MODULE RateLimiter ----------------------------
(***************************************************************************)
(* The per-channel sliding-window rate limiter (src/unnamed/part_006,     *)
(* RateLimiter.Allow and Wait), used by every worker goroutine of one     *)
(* channel before each dequeue (Processor.processNext).                    *)
(*                                                                         *)
(* The Redis key ratelimit:<channel> is a sorted set whose members are    *)
(* the decimal string of now.UnixNano() and whose scores are the same     *)
(* number, so a member is identified by its timestamp: the window is a    *)
(* set of timestamps.  Allow makes three round trips, and the workers of  *)
(* a channel interleave between them:                                      *)
(*   1. a pipeline of ZREMRANGEBYSCORE 0 (now-1s) and ZCARD, then the      *)
(*      comparison with the limit;                                          *)
(*   2. ZADD of the timestamp read in step 1;                               *)
(*   3. EXPIRE of the key 2s from the time of that call.                    *)
(* Time is a discrete clock in units of the clock's resolution; Window is  *)
(* rateLimitWindow in those units.  When DistinctStamps is TRUE no two     *)
(* reads of the clock return the same value (a nanosecond clock); when     *)
(* FALSE, reads by different goroutines may coincide (a coarse clock).     *)
(***************************************************************************)
EXTENDS Integers, FiniteSets, Functions

CONSTANTS
  Workers,         \* worker goroutines of one channel
  Limit,           \* limitPerSec
  Window,          \* rateLimitWindow, in clock units
  MaxTime,         \* bound on the clock
  MaxAdmits,       \* bound on the number of admissions (needed only when
                   \* reads of the clock may coincide)
  DistinctStamps   \* whether two reads of the clock always differ

ASSUME Limit \in Nat \ {0} /\ Window \in Nat \ {0} /\ MaxTime \in Nat
ASSUME MaxAdmits \in Nat /\ DistinctStamps \in BOOLEAN

VARIABLES
  now,       \* the clock
  window,    \* members of the sorted set (each member is its own score)
  expiry,    \* the key's TTL deadline, or NoExpiry when the key has none
  lastRead,  \* latest value any goroutine read from the clock
  pc,        \* per worker: "idle" (in Wait), "add" (after the count), "expire"
  stamp,     \* per worker: the `now` local of its current Allow call
  admits,    \* history: admits[t] = Allow calls with now = t that returned true
  total      \* history: number of admissions so far

vars == <<now, window, expiry, lastRead, pc, stamp, admits, total>>

Times == 0..MaxTime

NoExpiry == -1

NoStamp == -1

(* Each worker that passed its count while total < MaxAdmits still adds.  *)
AdmitsBound == MaxAdmits + Cardinality(Workers) - 1

TypeOK ==
  /\ now \in Times
  /\ window \subseteq Times
  /\ expiry \in (0..MaxTime + 2 * Window) \cup {NoExpiry}
  /\ lastRead \in Times \cup {NoStamp}
  /\ pc \in [Workers -> {"idle", "add", "expire"}]
  /\ stamp \in [Workers -> Times \cup {NoStamp}]
  /\ admits \in [Times -> 0..AdmitsBound]
  /\ total \in 0..AdmitsBound

(* Redis drops a sorted set that becomes empty, and its TTL with it.       *)
KeyAfter(w, e) == IF w = {} THEN NoExpiry ELSE e

Init ==
  /\ now = 0
  /\ window = {}
  /\ expiry = NoExpiry
  /\ lastRead = NoStamp
  /\ pc = [w \in Workers |-> "idle"]
  /\ stamp = [w \in Workers |-> NoStamp]
  /\ admits = [t \in Times |-> 0]
  /\ total = 0

(* The clock advances; once it reaches the key's TTL deadline, Redis       *)
(* deletes the key with every marker in it.                                *)
Tick ==
  /\ now < MaxTime
  /\ now' = now + 1
  /\ IF expiry # NoExpiry /\ now' >= expiry
       THEN window' = {} /\ expiry' = NoExpiry
       ELSE UNCHANGED <<window, expiry>>
  /\ UNCHANGED <<lastRead, pc, stamp, admits, total>>

(* Mutant: the limit compared with > instead of >=.                        *)
AllowCountOffByOne(w) ==
  /\ pc[w] = "idle"
  /\ total < MaxAdmits
  /\ DistinctStamps => now > lastRead
  /\ LET kept == {s \in window : s > now - Window}
     IN /\ window' = kept
        /\ expiry' = KeyAfter(kept, expiry)
        /\ IF Cardinality(kept) > Limit
             THEN UNCHANGED <<pc, stamp>>
             ELSE /\ pc' = [pc EXCEPT ![w] = "add"]
                  /\ stamp' = [stamp EXCEPT ![w] = now]
  /\ lastRead' = now
  /\ UNCHANGED <<now, admits, total>>

(* Allow, first round trip: read the clock, evict the markers with score   *)
(* <= now - Window and count the rest.  At the limit Allow returns false   *)
(* and Wait polls again on its next ticker; otherwise it goes on to ZADD.  *)
AllowCount(w) ==
  /\ pc[w] = "idle"
  /\ total < MaxAdmits
  /\ DistinctStamps => now > lastRead
  /\ LET kept == {s \in window : s > now - Window}
     IN /\ window' = kept
        /\ expiry' = KeyAfter(kept, expiry)
        /\ IF Cardinality(kept) >= Limit
             THEN UNCHANGED <<pc, stamp>>
             ELSE /\ pc' = [pc EXCEPT ![w] = "add"]
                  /\ stamp' = [stamp EXCEPT ![w] = now]
  /\ lastRead' = now
  /\ UNCHANGED <<now, admits, total>>

(* Allow, second round trip: ZADD of the marker whose member and score are *)
(* the timestamp read in the first; an equal member is not added twice.    *)
(* A ZADD to a missing key creates it without a TTL.                       *)
AllowAdd(w) ==
  /\ pc[w] = "add"
  /\ window' = window \cup {stamp[w]}
  /\ pc' = [pc EXCEPT ![w] = "expire"]
  /\ UNCHANGED <<now, expiry, lastRead, stamp, admits, total>>

(* Mutant: the TTL given in the wrong unit (2s read as 2000s).             *)
AllowExpireWrongUnit(w) ==
  /\ pc[w] = "expire"
  /\ expiry' = IF window = {} THEN NoExpiry ELSE now + 2 * Window * 1000
  /\ pc' = [pc EXCEPT ![w] = "idle"]
  /\ stamp' = [stamp EXCEPT ![w] = NoStamp]
  /\ admits' = [admits EXCEPT ![stamp[w]] = @ + 1]
  /\ total' = total + 1
  /\ UNCHANGED <<now, window, lastRead>>

(* Allow, third round trip: EXPIRE the key 2 * Window from now (a no-op if *)
(* the key has meanwhile expired), its error ignored; Allow returns true,  *)
(* Wait returns and the worker goes on to dequeue.                         *)
AllowExpire(w) ==
  /\ pc[w] = "expire"
  /\ expiry' = IF window = {} THEN NoExpiry ELSE now + 2 * Window
  /\ pc' = [pc EXCEPT ![w] = "idle"]
  /\ stamp' = [stamp EXCEPT ![w] = NoStamp]
  /\ admits' = [admits EXCEPT ![stamp[w]] = @ + 1]
  /\ total' = total + 1
  /\ UNCHANGED <<now, window, lastRead>>

Next ==
  \/ Tick
  \/ \E w \in Workers : AllowCount(w) \/ AllowAdd(w) \/ AllowExpire(w)

Spec == Init /\ [][Next]_vars

-----------------------------------------------------------------------------
(* Admissions whose Allow call read the clock in the window ending at t.   *)
AdmittedIn(t) ==
  SumFunctionOnSet(admits, {s \in Times : t - Window < s /\ s <= t})

(* Spec section 8: in every window of one second, at most limitPerSec      *)
(* admissions (and so provider calls) per channel.  Allow's count and its  *)
(* ZADD are separate round trips, so this is what the atomicity gap of     *)
(* the design notes puts at risk.                                           *)
WindowLimit == \A t \in Times : AdmittedIn(t) <= Limit

(* The sorted set stays small: every ZADD follows a count that found      *)
(* fewer than limitPerSec markers, and each goroutine has at most one      *)
(* ZADD outstanding, so the key never holds more than limitPerSec - 1      *)
(* markers plus one per worker of the channel, whatever stale timestamps    *)
(* late ZADDs bring and whenever the TTL deletes the key.                  *)
MarkersBounded == Cardinality(window) <= Limit + Cardinality(Workers) - 1

=============================================================================
