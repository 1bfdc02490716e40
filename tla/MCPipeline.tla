----------------------------- MODULE MCPipeline -----------------------------
(***************************************************************************)
(* Model-checking instance of Pipeline.                                     *)
(* Notifications and Workers are model values bound in the .cfg files.    *)
(***************************************************************************)
EXTENDS Pipeline, TLC

(* The workers of one pool are interchangeable goroutines.                 *)
WorkerSymmetry == Permutations(Workers)

(* Workers are interchangeable, and so are notifications: no definition   *)
(* of Pipeline names one, and the invariants quantify over all of them.   *)
PoolSymmetry ==
  { p @@ q : p \in Permutations(Workers), q \in Permutations(Notifications) }

(* Provider calls per notification the exploration follows.  Once a sweep *)
(* is cut short two tokens of one record can be in flight, and the two    *)
(* workers' full-row writes can keep resetting retry_count, so without    *)
(* this bound the number of calls, and of states, has no limit.            *)
CallBound == 4

CallsWithinBound == \A n \in Notifications : calls[n] <= CallBound

=============================================================================
