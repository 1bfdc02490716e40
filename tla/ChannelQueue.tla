---------------------------- MODULE ChannelQueue ----------------------------
(***************************************************************************)
(* The Redis sorted set queue:<channel> of one channel (src/unnamed/       *)
(* part_006, Queue.Enqueue, EnqueueBatch and Dequeue) with its float64     *)
(* score                                                                    *)
(*     float64(item.Priority.Weight()) + float64(time.Now().UnixNano())/1e18*)
(*                                                                          *)
(* Time is counted in units of 2^-52 of the score, about 222 ns: the       *)
(* spacing of float64 values in [1, 2), where UnixNano/1e18 lies from 2001  *)
(* to 2033; the first division rounds the nanosecond clock to that grid.   *)
(* The clock variable is (UnixNano/1e18 - 1) * 2^52.  Adding the weight    *)
(* rounds the sum to nearest, ties to even, at the spacing of the binade    *)
(* the weight puts it in: 2^19 units (about 0.12 s) for normal and 2^20     *)
(* (about 0.23 s) for low.  A weight times 2^52 is a multiple of 2^20, so   *)
(* the rounding depends on the clock alone and a score is the pair          *)
(* <<weight, rounded clock>>, compared lexicographically (the fraction      *)
(* stays below 2, far under the distance between weights).                *)
(* ZPOPMIN takes the lowest score and, among equal scores, the member       *)
(* whose bytes sort first; a member is the JSON of the QueueItem, which     *)
(* begins with the notification's random UUID, so that order is a fixed     *)
(* but arbitrary ranking of the items.                                      *)
(***************************************************************************)
EXTENDS Integers, FiniteSets, FiniteSetsExt, Functions, TLC

CONSTANTS
  Items,        \* queue members (QueueItems), each enqueued at most once
  Priorities,   \* priorities the items may carry
  Times         \* the clock readings the model visits, in clock units

ASSUME Priorities \subseteq {"high", "normal", "low"} /\ Priorities # {}
ASSUME Times \subseteq Nat /\ Times # {}

VARIABLES
  clock,    \* the clock, in units of 2^-52 of the score
  zset,     \* member -> its score, for the members in the sorted set
  prioOf,   \* member -> its priority, once enqueued
  arrival   \* member -> the clock value its score was computed from

qvars == <<clock, zset, prioOf, arrival>>

(* Position of each member's bytes in lexicographic order.  Any item can   *)
(* be enqueued at any time, so one fixed ranking gives every relation      *)
(* between arrival order and UUID order.                                    *)
Rank == CHOOSE f \in Bijection(Items, 1..Cardinality(Items)) : TRUE

(* Priority.Weight, with its default for an unknown priority.             *)
Weight(p) == CASE p = "high" -> 0 [] p = "normal" -> 1000000
                  [] p = "low" -> 2000000 [] OTHER -> 1000000

RECURSIVE Log2(_)
(* The exponent of the largest power of two not above x (x >= 1).          *)
Log2(x) == IF x < 2 THEN 0 ELSE 1 + Log2(x \div 2)

(* Spacing, in clock units, of the float64 values weight + [1, 2).        *)
Ulp(p) == 2 ^ Log2(Weight(p) + 1)

(* Round t to a multiple of q (a power of two), to nearest, ties to even. *)
RoundToEven(t, q) ==
  LET r == t \div q
      m == t % q
  IN q * (IF 2 * m > q \/ (2 * m = q /\ r % 2 = 1) THEN r + 1 ELSE r)

(* One millisecond in clock units (1e6 ns / 222.04 ns).                    *)
MilliUnits == 4504

(* Mutant: the score built from UnixMilli()/1e15, a millisecond clock.     *)
ScoreMillis(p, t) == <<Weight(p), RoundToEven((t \div MilliUnits) * MilliUnits, Ulp(p))>>

(* Queue.Enqueue / EnqueueBatch: the score of an item of priority p       *)
(* enqueued when the clock reads t.                                        *)
Score(p, t) == <<Weight(p), RoundToEven(t, Ulp(p))>>

(* Sorted-set order: by score, then by member bytes.                       *)
Before(m, n) ==
  \/ zset[m][1] < zset[n][1]
  \/ zset[m][1] = zset[n][1] /\ zset[m][2] < zset[n][2]
  \/ zset[m] = zset[n] /\ Rank[m] < Rank[n]

TypeOK ==
  /\ clock \in Times
  /\ DOMAIN zset \subseteq Items
  /\ \A m \in DOMAIN zset : zset[m][1] \in {Weight(p) : p \in Priorities}
                              /\ zset[m][2] \in Nat
  /\ DOMAIN zset \subseteq DOMAIN arrival /\ DOMAIN prioOf = DOMAIN arrival

QInit ==
  /\ clock = Min(Times)
  /\ zset = <<>>
  /\ prioOf = <<>>
  /\ arrival = <<>>

(* Time passes between two calls, up to the later reading t.              *)
Tick(t) ==
  /\ t > clock
  /\ clock' = t
  /\ UNCHANGED <<zset, prioOf, arrival>>

(* Queue.Enqueue: marshal the item, compute its score from time.Now()      *)
(* and ZADD it.                                                             *)
Enqueue(m, p) ==
  /\ m \notin DOMAIN arrival
  /\ zset' = zset @@ (m :> Score(p, clock))
  /\ prioOf' = prioOf @@ (m :> p)
  /\ arrival' = arrival @@ (m :> clock)
  /\ UNCHANGED clock

(* Queue.EnqueueBatch of two items: the loop reads time.Now() once per     *)
(* item, the clock may move to t between the two reads, and one pipeline  *)
(* ZADDs both, so no pop sees one without the other.                       *)
EnqueueBatch(m1, p1, m2, p2, t) ==
  /\ m1 # m2 /\ {m1, m2} \cap DOMAIN arrival = {}
  /\ t >= clock
  /\ zset' = zset @@ (m1 :> Score(p1, clock)) @@ (m2 :> Score(p2, t))
  /\ prioOf' = prioOf @@ (m1 :> p1) @@ (m2 :> p2)
  /\ arrival' = arrival @@ (m1 :> clock) @@ (m2 :> t)
  /\ clock' = t

(* Queue.Dequeue: ZPOPMIN 1, the member m that sorts first.                *)
PopMin(m) ==
  /\ m \in DOMAIN zset
  /\ \A n \in DOMAIN zset \ {m} : Before(m, n)
  /\ zset' = [n \in DOMAIN zset \ {m} |-> zset[n]]
  /\ UNCHANGED <<clock, prioOf, arrival>>

QNext ==
  \/ \E t \in Times : Tick(t)
  \/ \E m \in Items, p \in Priorities : Enqueue(m, p)
  \/ \E m1, m2 \in Items, p1, p2 \in Priorities, t \in Times :
       EnqueueBatch(m1, p1, m2, p2, t)
  \/ \E m \in Items : PopMin(m)

-----------------------------------------------------------------------------
(* Popped(m): the step removes m from the sorted set.                      *)
Popped(m) == m \in DOMAIN zset /\ m \notin DOMAIN zset'

(* Spec section 4.2 promises FIFO within a class through the timestamp     *)
(* fraction; the float64 sum keeps it only for arrivals more than one      *)
(* spacing of the class's binade apart (0.12 s for normal, 0.23 s for low, *)
(* 222 ns for high).  ZPOPMIN never takes an item while one of its class   *)
(* that arrived more than that earlier is still queued.  Arrivals closer    *)
(* than that tie and leave in the order of their UUIDs.                     *)
FIFOBeyondResolution ==
  [][\A m \in Items : Popped(m) =>
       \A n \in DOMAIN zset' :
         prioOf[n] = prioOf[m] => arrival[n] + Ulp(prioOf[m]) >= arrival[m]]_qvars

=============================================================================
