------------------------ MODULE NotificationLifecycle ------------------------
(***************************************************************************)
(* The abstract lifecycle a notification promises (spec.md section 3):     *)
(* each notification's status moves only along the edges of the           *)
(* lifecycle state machine, and sent, delivered, failed and cancelled are  *)
(* terminal.  "none" stands for "no record yet".                           *)
(*                                                                         *)
(* The edge pending -> processing is not drawn in the diagram but is       *)
(* required by section 4.6: a worker takes any record it pops that is not  *)
(* sent, delivered or cancelled into processing, and batch-created records *)
(* stay pending while they sit in the queue.  For the same reason         *)
(* scheduled -> processing is allowed: section 4.5 has the scheduler      *)
(* enqueue before it writes queued, so a worker may pop the token while   *)
(* the record is still scheduled.                                          *)
(***************************************************************************)
CONSTANT Ids

VARIABLE status

Statuses == {"none", "pending", "scheduled", "queued", "processing",
             "sent", "delivered", "failed", "cancelled"}

Terminal == {"sent", "delivered", "failed", "cancelled"}

Transitions ==
  { <<"none", "pending">>,        <<"none", "scheduled">>,
    <<"pending", "queued">>,      <<"pending", "processing">>,
    <<"scheduled", "queued">>,    <<"scheduled", "processing">>,
    <<"queued", "processing">>,
    <<"processing", "sent">>,     <<"processing", "failed">>,
    <<"processing", "queued">>,   <<"sent", "delivered">> }
  \cup { <<s, "cancelled">> : s \in {"pending", "scheduled", "queued"} }

Init == status = [n \in Ids |-> "none"]

Move(n) ==
  \E s \in Statuses :
    /\ <<status[n], s>> \in Transitions
    /\ status' = [status EXCEPT ![n] = s]

Next == \E n \in Ids : Move(n)

Spec == Init /\ [][Next]_status

=============================================================================
