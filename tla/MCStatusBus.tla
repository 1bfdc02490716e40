---------------------------- MODULE MCStatusBus ----------------------------
(* Model-checking instance of StatusBus.  One notification n1 (batch b1,   *)
(* channel sms) is worked on twice: attempt o1 goes processing and then    *)
(* back to queued on a retryable error (handleSendError), attempt o2 goes  *)
(* processing and then sent (processNotification).                         *)
EXTENDS StatusBus

N1 == [id |-> "n1", batch |-> "b1", channel |-> "sms"]

MCOf == [o \in Objects |-> N1]

MCPlan == << <<"o1", "processing">>, <<"o1", "queued">>,
             <<"o2", "processing">>, <<"o2", "sent">> >>

EmptyLists == [ids |-> {}, batches |-> {}, channels |-> {}]

(* A subscription by channel, and one that names other things only.      *)
ByChannel == [EmptyLists EXCEPT !.channels = {"sms"}]
Elsewhere == [ids |-> {"n2"}, batches |-> {"b2"}, channels |-> {"email"}]

MCFilters == {ByChannel, Elsewhere}

=============================================================================
