---------------------------- MODULE BayeuxClient ----------------------------
(***************************************************************************)
(* The Bayeux client of src/src/bayeux.c: the handshake, the long-polling  *)
(* connect loop, the outbox and the timers that drive them.                *)
(*                                                                         *)
(* The client is single threaded.  A handler runs to completion inside one *)
(* libevent loop, so a handler is one action, except on_batch_recv: it     *)
(* handles the messages of a response one after the other and may call     *)
(* back into the application, which may call the client again from there.  *)
(* The variable loop says where the thread is.                             *)
(*                                                                         *)
(* The transport and the server are the environment.  Every transport_send *)
(* opens an HTTP exchange (open counts them) and may put messages on the   *)
(* wire; the response to an exchange is an array of messages, each of      *)
(* which may answer a message of the wire.  What the array holds is chosen *)
(* as it is read.  Time is not modelled: a pending timer may fire at any   *)
(* moment.                                                                 *)
(***************************************************************************)
EXTENDS MsgQueue

CONSTANTS
  Channels,          \* names of channels the application uses
  Calls,             \* the calls it makes: which of CallTypes
  ClientIds,         \* client ids the server may assign
  NULL,              \* "no client id yet"
  Advices,           \* values of the server's advice.reconnect
  HandshakeOutcomes, \* what a handshake response may say
  StrayIds,          \* whether replies may carry an id that is read as MSG_ID_INVALID
  ObjectsApart,      \* whether the model tells apart the objects of one type
  MaxCalled,         \* bound: no call is made with this many messages queued
  MaxQueued,         \* bound: no timer queues a handshake behind this many
  MaxOpen,           \* bound: HTTP exchanges open at a time
  MaxIds,            \* bound: message ids handed out
  MaxBatches         \* bound: batch ids handed out

Reconnects == {"handshake", "none", "retry"}
CallTypes == {"publish", "subscribe", "unsubscribe"}
Types == {"connect", "handshake"} \cup CallTypes

ASSUME ClientAssumption ==
  /\ NULL \notin ClientIds
  /\ Calls \subseteq CallTypes
  /\ Advices \subseteq Reconnects
  /\ HandshakeOutcomes \subseteq {"success", "failure", "malformed"}
  /\ StrayIds \in BOOLEAN /\ ObjectsApart \in BOOLEAN
  /\ MaxCalled \in Nat /\ MaxQueued \in Nat /\ MaxOpen \in Nat /\ MaxIds \in Nat /\ MaxBatches \in Nat

VARIABLES
  outbox,                \* client->outbox
  batch_id, message_id,  \* the next ids to hand out
  state,                 \* client->state
  reconnect,             \* client->advice.reconnect
  id,                    \* client->id
  handshake_msg_index,   \* slot of the handshake to send, or -1
  connect_msg_in_flight,
  channels,              \* names in client->channels
  ev_timeout_connect, ev_timeout_flush, ev_timeout_handshake, \* timer pending?
  loop,                  \* where the thread is, see TypeOK
  wire,                  \* messages sent and not yet answered
  open                   \* exchanges without a response yet

session == <<state, reconnect, id, handshake_msg_index, connect_msg_in_flight>>
counters == <<batch_id, message_id>>
timers == <<ev_timeout_connect, ev_timeout_flush, ev_timeout_handshake>>
vars == <<outbox, counters, session, channels, timers, loop, wire, open>>

\* A message of the outbox: what it is, and which json_object it is.
Objects == [type : Types, object : Nat]
Envelopes == [id : 0 .. MSG_ID_INVALID - 1, type : Types, clientId : ClientIds \cup {NULL}]

TypeOK ==
  /\ IsQueue(outbox, Objects, Types)
  /\ batch_id \in 0 .. BATCH_ID_INVALID - 1
  /\ message_id \in 0 .. MSG_ID_INVALID - 1
  /\ state \in {"UNCONNECTED", "CONNECTING", "CONNECTED"}
  /\ reconnect \in Reconnects
  /\ id \in ClientIds \cup {NULL}
  /\ handshake_msg_index \in -1 .. outbox.written - 1
  /\ connect_msg_in_flight \in BOOLEAN
  /\ channels \subseteq Channels
  /\ ev_timeout_connect \in BOOLEAN
  /\ ev_timeout_flush \in BOOLEAN
  /\ ev_timeout_handshake \in BOOLEAN
  /\ loop \in {"idle",      \* in the event loop, or not in the client at all
               "batch",     \* in on_batch_recv, between two messages
               "callback",  \* in the application's event callback
               "destroyed", "faulted"}
  /\ wire \subseteq Envelopes
  /\ open \in Nat

\* bayeux_client_create.  No timer is started and nothing is queued.
Init ==
  /\ outbox = EmptyQueue
  /\ batch_id = 0 /\ message_id = 0
  /\ state = "UNCONNECTED" /\ reconnect = "retry" /\ id = NULL
  /\ handshake_msg_index = -1 /\ connect_msg_in_flight = FALSE
  /\ channels = {}
  /\ ev_timeout_connect = FALSE /\ ev_timeout_flush = FALSE /\ ev_timeout_handshake = FALSE
  /\ loop = "idle" /\ wire = {} /\ open = 0

-----------------------------------------------------------------------------
(* Queueing messages: issue_handshake and issue_connect *)

\* Faulty: not checking for a connect in flight.
ConnectDueAgain == reconnect # "none"

HandshakeDue == state = "UNCONNECTED" /\ reconnect # "none"
ConnectDue == reconnect # "none" /\ ~connect_msg_in_flight

\* json_object_new_object: an object that no slot refers to, live or left over,
\* so that slots with the same object hold the same message.  Only FlushedIsHeld
\* asks which object a slot holds; the runs of other properties leave that out.
Fresh(q) ==
  IF ObjectsApart
  THEN CHOOSE n \in 0 .. q.written : \A i \in 0 .. q.written - 1 : q.msgs[i].object # n
  ELSE 0
PushNew(q, type) == Push(q, [type |-> type, object |-> Fresh(q)], type)

PushIf(due, q, type) == IF due THEN PushNew(q, type) ELSE q

\* The outbox after issue_handshake, and after issue_connect, which begins
\* with issue_handshake.
WithHandshake == PushIf(HandshakeDue, outbox, "handshake")
WithConnect == PushIf(ConnectDue, WithHandshake, "connect")

\* Faulty: noting the slot after the push.
IssueHandshakeNextSlot ==
  /\ state' = IF HandshakeDue THEN "CONNECTING" ELSE state
  /\ handshake_msg_index' = IF HandshakeDue THEN outbox.count + 1 ELSE handshake_msg_index
  /\ UNCHANGED <<reconnect, id>>

IssueHandshake ==
  /\ state' = IF HandshakeDue THEN "CONNECTING" ELSE state
  /\ handshake_msg_index' = IF HandshakeDue THEN outbox.count ELSE handshake_msg_index
  /\ UNCHANGED <<reconnect, id>>

IssueConnect ==
  /\ IssueHandshake
  /\ connect_msg_in_flight' = (connect_msg_in_flight \/ ConnectDue)

OnEvTimeoutConnect ==
  /\ loop = "idle" /\ ev_timeout_connect
  /\ HandshakeDue => outbox.count < MaxQueued
  /\ outbox' = WithConnect
  /\ IssueConnect
  /\ ev_timeout_connect' = FALSE
  /\ ev_timeout_flush' = (ev_timeout_flush \/ HandshakeDue \/ ConnectDue)
  /\ UNCHANGED <<counters, channels, ev_timeout_handshake, loop, wire, open>>

OnEvTimeoutHandshake ==
  /\ loop = "idle" /\ ev_timeout_handshake
  /\ HandshakeDue => outbox.count < MaxQueued
  /\ outbox' = WithHandshake
  /\ IssueHandshake
  /\ ev_timeout_handshake' = FALSE
  /\ ev_timeout_flush' = (ev_timeout_flush \/ HandshakeDue)
  /\ UNCHANGED <<connect_msg_in_flight, counters, channels, ev_timeout_connect, loop, wire, open>>

-----------------------------------------------------------------------------
(* The application's calls, from outside the client or from a callback *)

Enqueue(type) ==
  /\ type \in Calls
  /\ loop \in {"idle", "callback"}
  /\ outbox.count < MaxCalled
  /\ outbox' = PushNew(WithConnect, type)
  /\ IssueConnect
  /\ ev_timeout_flush' = TRUE
  /\ UNCHANGED <<counters, ev_timeout_connect, ev_timeout_handshake, loop, wire, open>>

Publish == Enqueue("publish") /\ UNCHANGED channels

Subscribe(channel) == Enqueue("subscribe") /\ channels' = channels \cup {channel}

\* The callback stays registered on its channel.
Unsubscribe == Enqueue("unsubscribe") /\ UNCHANGED channels

\* bayeux_client_destroy, called from outside the client.
Destroy ==
  /\ loop = "idle"
  /\ loop' = "destroyed"
  /\ outbox' = DestroyedQueue
  /\ handshake_msg_index' = -1 /\ connect_msg_in_flight' = FALSE
  /\ ev_timeout_connect' = FALSE /\ ev_timeout_flush' = FALSE /\ ev_timeout_handshake' = FALSE
  /\ wire' = {} /\ open' = 0
  /\ UNCHANGED <<counters, state, reconnect, id, channels>>

-----------------------------------------------------------------------------
(* Sending: on_ev_timeout_flush *)

\* Faulty: not holding messages back for the handshake; sending it again.
OutgoingUngated == Unsent(outbox)
OutgoingAgain == IF handshake_msg_index # -1 THEN {handshake_msg_index} ELSE Unsent(outbox)

\* The slots whose messages the next flush sends: the one at
\* handshake_msg_index and no other, or all that are not in flight.
Outgoing ==
  IF handshake_msg_index # -1
  THEN {i \in {handshake_msg_index} : outbox.msg_ids[i] = MSG_ID_INVALID}
  ELSE Unsent(outbox)

\* A flush of the whole outbox takes a batch id even when all is in flight.
BatchIdUsed == IF handshake_msg_index # -1 THEN Outgoing # {} ELSE outbox.count > 0

EnvelopeOf(i) ==
  [id |-> IdAfter(message_id, Rank(Outgoing, i), MSG_ID_INVALID),
   type |-> outbox.msgs[i].type, clientId |-> id]

\* transport_send follows whether or not there was something to send.
OnEvTimeoutFlush ==
  /\ loop = "idle" /\ ev_timeout_flush
  /\ open < MaxOpen /\ batch_id < MaxBatches /\ message_id + Cardinality(Outgoing) <= MaxIds
  /\ outbox' = AssignIds(outbox, Outgoing, message_id, batch_id)
  /\ message_id' = IdAfter(message_id, Cardinality(Outgoing), MSG_ID_INVALID)
  /\ batch_id' = IF BatchIdUsed THEN IdAfter(batch_id, 1, BATCH_ID_INVALID) ELSE batch_id
  /\ wire' = wire \cup {EnvelopeOf(i) : i \in Outgoing}
  /\ open' = open + 1
  /\ ev_timeout_flush' = FALSE
  /\ UNCHANGED <<session, channels, ev_timeout_connect, ev_timeout_handshake, loop>>

-----------------------------------------------------------------------------
(* Receiving: check_curl_multi, on_batch_recv and on_msg_recv *)

\* The response of an exchange is an array of messages.
BatchBegins ==
  /\ loop = "idle" /\ open > 0
  /\ loop' = "batch"
  /\ open' = open - 1
  /\ UNCHANGED <<outbox, counters, session, channels, timers, wire>>

\* There is no response, or it is not JSON: the parser is given NULL, or
\* gives on_batch_recv one, and the process dies on it.
ExchangeFails ==
  /\ loop = "idle" /\ open > 0
  /\ loop' = "faulted"
  /\ UNCHANGED <<outbox, counters, session, channels, timers, wire, open>>

\* Faulty: scheduling no flush; scheduling it for two messages or more.
BatchEndsUnscheduled ==
  /\ loop = "batch"
  /\ loop' = "idle"
  /\ UNCHANGED <<outbox, counters, session, channels, timers, wire, open>>
BatchEndsOffByOne ==
  /\ loop = "batch"
  /\ loop' = "idle"
  /\ ev_timeout_flush' = (ev_timeout_flush \/ outbox.count > 1)
  /\ UNCHANGED <<outbox, counters, session, channels, ev_timeout_connect, ev_timeout_handshake, wire, open>>

BatchEnds ==
  /\ loop = "batch"
  /\ loop' = "idle"
  /\ ev_timeout_flush' = (ev_timeout_flush \/ outbox.count > 0)
  /\ UNCHANGED <<outbox, counters, session, channels, ev_timeout_connect, ev_timeout_handshake, wire, open>>

\* handle_advice.  The advice of an earlier message stays in force for a
\* message without one.
Advised(advice) == IF advice = "absent" THEN reconnect ELSE advice
StartOver(advice) == Advised(advice) = "handshake"
StateAdvised(advice) == IF StartOver(advice) THEN "UNCONNECTED" ELSE state

\* The reply e finds the message it answers, whose handler is func.  A stray
\* reply finds one that waits, and takes nothing off the wire.
Answers(e, func) ==
  LET at == FindByMsgId(outbox, e.id)
  IN  /\ loop = "batch"
      /\ at # -1
      /\ outbox.funcs[at] = func
      /\ outbox' = RemoveOrdered(outbox, at)
      /\ wire' = wire \ {e}

\* Faulty: the next connect is not scheduled.
RecvConnectUnscheduled(e, advice) ==
  /\ Answers(e, "connect")
  /\ reconnect' = Advised(advice)
  /\ state' = StateAdvised(advice)
  /\ connect_msg_in_flight' = FALSE
  /\ UNCHANGED <<counters, id, handshake_msg_index, channels, timers, loop, open>>

RecvConnect(e, advice) ==
  /\ Answers(e, "connect")
  /\ reconnect' = Advised(advice)
  /\ state' = StateAdvised(advice)
  /\ connect_msg_in_flight' = FALSE
  /\ ev_timeout_connect' = TRUE
  /\ UNCHANGED <<counters, id, handshake_msg_index, channels, ev_timeout_flush,
                 ev_timeout_handshake, loop, open>>

\* Faulty: after a refusal the next handshake is not scheduled.
RecvHandshakeUnscheduled(e, advice, outcome) ==
  /\ Answers(e, "handshake")
  /\ reconnect' = Advised(advice)
  /\ handshake_msg_index' = -1
  /\ \/ outcome = "success" /\ state' = "CONNECTED" /\ id' \in ClientIds
     \/ outcome = "failure" /\ state' = "UNCONNECTED" /\ UNCHANGED id
     \/ outcome = "malformed" /\ state' = StateAdvised(advice) /\ UNCHANGED id
  /\ ev_timeout_connect' = (ev_timeout_connect \/ StartOver(advice))
  /\ UNCHANGED <<counters, connect_msg_in_flight, channels, ev_timeout_flush,
                 ev_timeout_handshake, loop, open>>

RecvHandshake(e, advice, outcome) ==
  /\ Answers(e, "handshake")
  /\ reconnect' = Advised(advice)
  /\ handshake_msg_index' = -1
  /\ \/ /\ outcome = "success"
        /\ state' = "CONNECTED"
        /\ id' \in ClientIds
        /\ UNCHANGED ev_timeout_handshake
     \/ \* refused, or without a channel or client id: recv_handshake_error
        /\ outcome = "failure"
        /\ state' = "UNCONNECTED"
        /\ ev_timeout_handshake' = TRUE
        /\ UNCHANGED id
     \/ \* without a boolean 'successful'
        /\ outcome = "malformed"
        /\ state' = StateAdvised(advice)
        /\ UNCHANGED <<id, ev_timeout_handshake>>
  /\ ev_timeout_connect' = (ev_timeout_connect \/ StartOver(advice))
  /\ UNCHANGED <<counters, connect_msg_in_flight, channels, ev_timeout_flush, loop, open>>

\* recv_publish, recv_subscribe and recv_unsubscribe change nothing.
RecvAck(e, advice) ==
  /\ \E func \in CallTypes : Answers(e, func)
  /\ reconnect' = Advised(advice)
  /\ state' = StateAdvised(advice)
  /\ ev_timeout_connect' = (ev_timeout_connect \/ StartOver(advice))
  /\ UNCHANGED <<counters, id, handshake_msg_index, connect_msg_in_flight, channels,
                 ev_timeout_flush, ev_timeout_handshake, loop, open>>

\* A message that only its advice has an effect of.
AdviceOnly(advice) ==
  /\ loop = "batch"
  /\ reconnect' = Advised(advice)
  /\ state' = StateAdvised(advice)
  /\ ev_timeout_connect' = (ev_timeout_connect \/ StartOver(advice))
  /\ UNCHANGED <<outbox, counters, id, handshake_msg_index, connect_msg_in_flight, channels,
                 ev_timeout_flush, ev_timeout_handshake, open>>

\* The reply e to a message the outbox does not know.
RecvUnknown(e, advice) ==
  /\ FindByMsgId(outbox, e.id) = -1
  /\ AdviceOnly(advice)
  /\ wire' = wire \ {e}
  /\ UNCHANGED loop

\* An event, or a message without an id: an event on a channel with
\* subscriptions goes to their callbacks.
RecvEvent(channel, advice) ==
  /\ AdviceOnly(advice)
  /\ loop' = IF channel \in channels THEN "callback" ELSE loop
  /\ UNCHANGED wire

\* The last callback for the event returns to on_batch_recv.
CallbackReturns ==
  /\ loop = "callback"
  /\ loop' = "batch"
  /\ UNCHANGED <<outbox, counters, session, channels, timers, wire, open>>

-----------------------------------------------------------------------------
\* What a reply may be to: a message on the wire, or none of them when its id is
\* read as MSG_ID_INVALID ("ffffffff", "-1", too many digits).  That is what the
\* slot of a message holds that waits to be sent: the first of those is found,
\* handled as if it had been answered, and removed.
Stray == [id |-> MSG_ID_INVALID]
Answerable == wire \cup {e \in {Stray} : StrayIds}

Recv ==
  \E advice \in Advices \cup {"absent"} :
    \/ \E e \in Answerable :
         \/ RecvConnect(e, advice)
         \/ \E outcome \in HandshakeOutcomes : RecvHandshake(e, advice, outcome)
         \/ RecvAck(e, advice)
         \/ RecvUnknown(e, advice)
    \/ \E channel \in Channels : RecvEvent(channel, advice)

Application ==
  \/ Publish
  \/ \E channel \in Channels : Subscribe(channel)
  \/ Unsubscribe
  \/ Destroy

Next ==
  \/ Application
  \/ OnEvTimeoutConnect \/ OnEvTimeoutHandshake \/ OnEvTimeoutFlush
  \/ BatchBegins \/ BatchEnds \/ ExchangeFails
  \/ Recv
  \/ CallbackReturns

Spec == Init /\ [][Next]_vars

\* libevent runs every timer that has expired before it waits again; a
\* response is a finite array, so that the loop over it ends however often it
\* called back; and a callback returns.
LoopFairness ==
  /\ SF_vars(OnEvTimeoutConnect) /\ SF_vars(OnEvTimeoutHandshake) /\ SF_vars(OnEvTimeoutFlush)
  /\ SF_vars(BatchEnds) /\ WF_vars(CallbackReturns)

FairSpec == Spec /\ LoopFairness

\* A server that responds to every exchange and, in the end, to the handshake.
ServerFairness ==
  /\ SF_vars(BatchBegins)
  /\ SF_vars(\E e \in wire, advice \in Advices \cup {"absent"}, outcome \in HandshakeOutcomes :
               RecvHandshake(e, advice, outcome))

AnsweredSpec == FairSpec /\ ServerFairness

-----------------------------------------------------------------------------
(* Safety, whatever the server answers *)

Ended == loop \in {"destroyed", "faulted"}
LiveConnects == {i \in Live(outbox) : outbox.funcs[i] = "connect"}

\* connect_msg_in_flight is set exactly while a connect is in the outbox, and
\* there is never a second one: timers, calls, calls made from callbacks and
\* replies together keep one long poll going, not two.
SingleConnect ==
  /\ connect_msg_in_flight <=> LiveConnects # {}
  /\ \A i, j \in LiveConnects : i = j

\* The four arrays of the outbox stay aligned over pushes, flushes and
\* removals: the handler of a slot is the one for its message, and a slot has
\* a batch id exactly when it has a message id.
ParallelArrays ==
  \A i \in Live(outbox) :
    /\ outbox.funcs[i] = outbox.msgs[i].type
    /\ outbox.msg_ids[i] = MSG_ID_INVALID <=> outbox.batch_ids[i] = BATCH_ID_INVALID

\* No two messages of the outbox are in flight under one id, so a reply
\* identifies at most one of them.
UniqueIds ==
  \A i, j \in Live(outbox) :
    outbox.msg_ids[i] = outbox.msg_ids[j] /\ outbox.msg_ids[i] # MSG_ID_INVALID => i = j

\* A reply that finds a message in the outbox is handled by the handler of
\* the message that was really sent under that id.
RepliesRouted ==
  \A e \in wire :
    LET at == FindByMsgId(outbox, e.id) IN at # -1 => outbox.funcs[at] = e.type

\* A message of the outbox marked in flight is on the wire: removing the
\* answered message never leaves its id behind on another one, which would
\* then neither be sent nor be answered.
MarkedIsOnWire ==
  \A i \in Live(outbox) :
    outbox.msg_ids[i] # MSG_ID_INVALID => \E e \in wire : e.id = outbox.msg_ids[i]

\* What waits to be sent has a wake-up: outside of on_batch_recv, which
\* schedules a flush itself, a flush of a non-empty outbox that would send
\* something is pending.
NoLostWakeup ==
  loop = "idle" /\ outbox.count > 0 /\ Outgoing # {} => ev_timeout_flush

\* The client never sits on a queue with nothing left that would run it: a
\* non-empty outbox has a flush pending or an exchange whose response is due.
OutboxDriven ==
  loop = "idle" /\ outbox.count > 0 => ev_timeout_flush \/ open > 0

\* The client that has made its first call either has a connect queued or in
\* flight, or the timer for the next one is pending; and an unconnected one is
\* going to retry the handshake.
RetryArmed ==
  ~Ended /\ outbox.written > 0 =>
    /\ connect_msg_in_flight \/ ev_timeout_connect
    /\ state = "UNCONNECTED" => ev_timeout_connect \/ ev_timeout_handshake

\* Only the advice "none" ends this: after any other step, a refusal, advice to
\* start over, a timer or a call, what was going to retry is still going to.
RetryKept == [][reconnect' # "none" /\ RetryArmed => RetryArmed']_vars

-----------------------------------------------------------------------------
(* Safety with a server whose replies carry the ids of messages *)

\* Removing a message drops the outbox's reference to it, and the object is
\* freed.  What a flush sends is nevertheless the very object of a message that
\* is still held and still waits, even when handshake_msg_index has come to
\* denote a left-over slot.
FlushedIsHeld ==
  \A i \in Outgoing : \E j \in Unsent(outbox) : outbox.msgs[j] = outbox.msgs[i]

-----------------------------------------------------------------------------
(* Safety with a server that also accepts the first handshake and never     *)
(* asks for another one                                                     *)

\* Nothing but a handshake is sent before the client has the id that every
\* other message must carry.
ClientIdAdded ==
  \A e \in wire : e.type # "handshake" => e.clientId # NULL

\* Every message on the wire is marked in flight in the outbox, so that it is
\* not sent again and its reply finds it.
InFlightMarked ==
  ~Ended => \A e \in wire : \E i \in Live(outbox) : outbox.msg_ids[i] = e.id

\* handshake_msg_index, an index kept across removals, points at a live
\* handshake.
HandshakeIndexLive ==
  handshake_msg_index # -1 =>
    handshake_msg_index \in Live(outbox) /\ outbox.msgs[handshake_msg_index].type = "handshake"

-----------------------------------------------------------------------------
(* Liveness *)

\* The long-polling loop never dies out: after a reply, or after the first
\* call, there is again a connect in the outbox.
ConnectRenewed ==
  outbox.written > 0 /\ ~connect_msg_in_flight ~> connect_msg_in_flight \/ Ended

\* Whatever the application queues, before, during or after the handshake, is
\* sent once the server has answered that handshake.
WaitingIsSent ==
  Unsent(outbox) # {} ~> Unsent(outbox) = {} \/ Ended

-----------------------------------------------------------------------------
(* What the public header says, and the client does not do *)

\* bayeux.h says of timeout_ms that the client drops the connection and tries
\* to reconnect when no data comes from the server for that long: a connect in
\* flight does not stay there for ever, whatever the server does.
SilenceEndsConnect ==
  connect_msg_in_flight ~> ~connect_msg_in_flight \/ state = "UNCONNECTED" \/ Ended

=============================================================================
