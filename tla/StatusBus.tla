----------------------------- MODULE StatusBus -----------------------------
(***************************************************************************)
(* The status fan-out (src/internal/handler/websocket.go): publishers call *)
(* WebSocketHub.BroadcastStatus with a *domain.Notification, the hub       *)
(* goroutine (Run) takes each update from the bounded broadcast channel,   *)
(* marshals it and copies it into the bounded send buffer of every         *)
(* registered client whose filter accepts it; each client's writePump      *)
(* writes its buffer to the connection and its readPump applies subscribe  *)
(* and unsubscribe messages and unregisters the client when the            *)
(* connection fails.                                                        *)
(*                                                                         *)
(* The publisher is one worker goroutine running Plan: each step mutates   *)
(* the in-memory notification Plan[i][1] to status Plan[i][2] (MarkAs...)   *)
(* and publishes the pointer, as processNotification and handleSendError   *)
(* do; a retry attempt works on a fresh object read by GetByID.  The       *)
(* update carries the pointer, not a copy: the hub's json.Marshal reads    *)
(* the object concurrently with the publisher's later writes (a data race) *)
(* and, by the Go memory model, may observe any value written to it since  *)
(* the publication.                                                         *)
(***************************************************************************)
EXTENDS Naturals, Sequences, FiniteSets

CONSTANTS
  Clients,    \* WebSocket connections
  Objects,    \* in-memory *domain.Notification values held by publishers
  Of,         \* Of[o]: the notification [id, batch, channel] object o holds
  Plan,       \* the publisher's steps: <<object, status it sets>>
  Filters,    \* the ClientFilter values subscribers send
  NoFilter,   \* a nil c.filter
  BusCap,     \* capacity of the hub's broadcast channel (256)
  BufCap      \* capacity of a client's send channel (256)

ASSUME Plan \in Seq(Objects \X STRING) /\ NoFilter \notin Filters
ASSUME BusCap \in Nat \ {0} /\ BufCap \in Nat \ {0}

VARIABLES
  obj,        \* obj[o]: the status field of object o
  ppc,        \* index of the publisher's next Plan step
  bus,        \* the broadcast channel: publication indices (pointers)
  busDropped, \* publications BroadcastStatus dropped on a full channel
  cstate,     \* per client: "new", "open" (registered) or "closed"
  filter,     \* per client: c.filter
  early,      \* per client: registered and filter last set before any publication
  buf,        \* per client: its send channel, messages [pub, status]
  recv,       \* per client: messages written to the connection
  skipped     \* per client: messages the hub skipped on a full buffer

vars == <<obj, ppc, bus, busDropped, cstate, filter, early, buf, recv, skipped>>

Pubs == 1..Len(Plan)

Message == [pub : Pubs, status : STRING]

(* Mutant: the channel list is never consulted.                          *)
ShouldReceiveNoChannel(f, n) ==
  \/ f = NoFilter
  \/ n.id \in f.ids
  \/ n.batch \in f.batches
  \/ f.ids = {} /\ f.batches = {} /\ f.channels = {}

(* shouldReceive: a nil filter takes everything; otherwise the update is   *)
(* taken when one of the non-empty lists names its id, its batch (when it  *)
(* has one) or its channel; a filter whose lists are all empty takes       *)
(* everything.                                                              *)
ShouldReceive(f, n) ==
  \/ f = NoFilter
  \/ n.id \in f.ids
  \/ n.batch \in f.batches
  \/ n.channel \in f.channels
  \/ f.ids = {} /\ f.batches = {} /\ f.channels = {}

(* The values a marshal of publication i may observe: what the publisher   *)
(* wrote to the same object at step i or at any later step already taken. *)
Observable(i) ==
  { Plan[j][2] : j \in { k \in i..(ppc - 1) : Plan[k][1] = Plan[i][1] } }

Init ==
  /\ obj = [o \in Objects |-> "queued"]
  /\ ppc = 1
  /\ bus = <<>>
  /\ busDropped = {}
  /\ cstate = [c \in Clients |-> "new"]
  /\ filter = [c \in Clients |-> NoFilter]
  /\ early = [c \in Clients |-> TRUE]
  /\ buf = [c \in Clients |-> <<>>]
  /\ recv = [c \in Clients |-> <<>>]
  /\ skipped = [c \in Clients |-> 0]

(* The publisher's next step: mutate the object, then BroadcastStatus,     *)
(* which never blocks: on a full broadcast channel the update is dropped.  *)
Publish ==
  /\ ppc <= Len(Plan)
  /\ obj' = [obj EXCEPT ![Plan[ppc][1]] = Plan[ppc][2]]
  /\ IF Len(bus) < BusCap
       THEN bus' = Append(bus, ppc) /\ UNCHANGED busDropped
       ELSE busDropped' = busDropped \cup {ppc} /\ UNCHANGED bus
  /\ ppc' = ppc + 1
  /\ UNCHANGED <<cstate, filter, early, buf, recv, skipped>>

(* Run, broadcast case: take the oldest update, marshal the object it      *)
(* points to, and offer the message to every registered client whose       *)
(* filter accepts it; a full client buffer skips the message.              *)
HubDispatch ==
  /\ bus # <<>>
  /\ \E v \in Observable(Head(bus)) :
       LET m == [pub |-> Head(bus), status |-> v]
           takes(c) == cstate[c] = "open"
                       /\ ShouldReceive(filter[c], Of[Plan[Head(bus)][1]])
           fits(c) == Len(buf[c]) < BufCap
       IN /\ buf' = [c \in Clients |->
                       IF takes(c) /\ fits(c) THEN Append(buf[c], m) ELSE buf[c]]
          /\ skipped' = [c \in Clients |->
                       IF takes(c) /\ ~fits(c) THEN skipped[c] + 1 ELSE skipped[c]]
  /\ bus' = Tail(bus)
  /\ UNCHANGED <<obj, ppc, busDropped, cstate, filter, early, recv>>

(* HandleWebSocket and Run's register case: a new client with a nil filter *)
(* and an empty send buffer joins the hub's client set.                    *)
Register(c) ==
  /\ cstate[c] = "new"
  /\ cstate' = [cstate EXCEPT ![c] = "open"]
  /\ early' = [early EXCEPT ![c] = (ppc = 1)]
  /\ UNCHANGED <<obj, ppc, bus, busDropped, filter, buf, recv, skipped>>

(* readPump: a "subscribe" message replaces c.filter, an "unsubscribe"     *)
(* message sets it to nil.                                                  *)
SetFilter(c, f) ==
  /\ cstate[c] = "open"
  /\ filter' = [filter EXCEPT ![c] = f]
  /\ early' = [early EXCEPT ![c] = (ppc = 1)]
  /\ UNCHANGED <<obj, ppc, bus, busDropped, cstate, buf, recv, skipped>>

(* readPump's read fails: it unregisters the client, the hub removes it    *)
(* and closes its send channel, and the connection is closed, so what is   *)
(* still buffered is never written.                                         *)
Disconnect(c) ==
  /\ cstate[c] = "open"
  /\ cstate' = [cstate EXCEPT ![c] = "closed"]
  /\ buf' = [buf EXCEPT ![c] = <<>>]
  /\ UNCHANGED <<obj, ppc, bus, busDropped, filter, early, recv, skipped>>

(* writePump: take a message and the messages queued behind it, and write  *)
(* them to the connection as one frame.                                     *)
WritePump(c) ==
  /\ cstate[c] = "open"
  /\ buf[c] # <<>>
  /\ recv' = [recv EXCEPT ![c] = @ \o buf[c]]
  /\ buf' = [buf EXCEPT ![c] = <<>>]
  /\ UNCHANGED <<obj, ppc, bus, busDropped, cstate, filter, early, skipped>>

Next ==
  \/ Publish
  \/ HubDispatch
  \/ \E c \in Clients :
       \/ Register(c)
       \/ \E f \in Filters \cup {NoFilter} : SetFilter(c, f)
       \/ Disconnect(c)
       \/ WritePump(c)

(* The publisher, the hub goroutine and each writePump keep running while  *)
(* they have work; clients connect, subscribe and leave as they choose.    *)
Fairness ==
  /\ WF_vars(Publish)
  /\ WF_vars(HubDispatch)
  /\ \A c \in Clients : WF_vars(WritePump(c))

Spec == Init /\ [][Next]_vars /\ Fairness

-----------------------------------------------------------------------------
(* The subscription semantics of spec section 4.7: a nil filter receives   *)
(* everything; a set filter receives an update iff it matches at least one *)
(* criterion of at least one non-empty list.                                *)
SpecAccepts(f, n) ==
  \/ f = NoFilter
  \/ n.id \in f.ids \/ n.batch \in f.batches \/ n.channel \in f.channels

LastStatus(s) == s[Len(s)].status

FinalStatus == Plan[Len(Plan)][2]

(* A client that has watched, with a filter the spec says accepts the      *)
(* notification, since before the first publication, and lost nothing to  *)
(* a full buffer or a full broadcast channel.                               *)
Watching(c) ==
  /\ cstate[c] = "open"
  /\ early[c]
  /\ \A o \in Objects : SpecAccepts(filter[c], Of[o])
  /\ skipped[c] = 0
  /\ busDropped = {}

(* The fan-out's promise to a subscriber: the final status of the          *)
(* notification is eventually the last thing written to every client that *)
(* watched it throughout, through the broadcast channel, the hub's filter *)
(* test and the client's writePump.                                         *)
FinalStatusDelivered ==
  <>[](\A c \in Clients :
         Watching(c) => recv[c] # <<>> /\ LastStatus(recv[c]) = FinalStatus)

(* Spec section 4.7: an update carries the notification as published, and  *)
(* publication order is preserved into each subscriber's buffer: every     *)
(* message a client receives has the status its publication set.           *)
EnvelopeFaithful ==
  \A c \in Clients : \A k \in 1..Len(recv[c]) :
    recv[c][k].status = Plan[recv[c][k].pub][2]

=============================================================================
