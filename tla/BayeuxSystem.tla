---------------------------- MODULE BayeuxSystem ----------------------------
(***************************************************************************)
(* The client of BayeuxClient on the transport of Transport, in one event  *)
(* loop.  libevent runs one callback at a time, so that the client's       *)
(* timers and the application's calls come while the transport is in the   *)
(* event loop, and the transport hands a response over from inside         *)
(* check_curl_multi: while the client handles it the transport stands      *)
(* still.                                                                  *)
(*                                                                         *)
(* BayeuxClient counts the exchanges it has open and takes it for granted  *)
(* that each is answered once.  Here the answers come from the requests    *)
(* curl was given.  A request that could not be made is lost together with *)
(* its messages: the server never sees them.                               *)
(***************************************************************************)
EXTENDS Integers, FiniteSets

CONSTANTS
  MSG_ID_INVALID, BATCH_ID_INVALID, GrowBy,
  Channels, Calls, ClientIds, NULL, Advices, HandshakeOutcomes, StrayIds, ObjectsApart,
  MaxCalled, MaxQueued, MaxOpen, MaxIds, MaxBatches,
  Requests, Watches, Outcomes, RequestFails,
  MaxLost       \* bound: requests that cannot be made

VARIABLES
  outbox, batch_id, message_id, state, reconnect, id, handshake_msg_index,
  connect_msg_in_flight, channels, ev_timeout_connect, ev_timeout_flush,
  ev_timeout_handshake, loop, wire, open,
  conn, data, wanted, curl_timeout, sock, registered, ev_timer,
  active_conn_count, thread,
  lost          \* requests that could not be made: the ids of the messages of each

Client == INSTANCE BayeuxClient
Http == INSTANCE Transport

ASSUME SystemAssumption ==
  Client!QueueAssumption /\ Client!ClientAssumption /\ Http!TransportAssumption

client == <<outbox, batch_id, message_id, state, reconnect, id, handshake_msg_index,
            connect_msg_in_flight, channels, ev_timeout_connect, ev_timeout_flush,
            ev_timeout_handshake, loop, wire, open>>
transport == <<conn, data, wanted, curl_timeout, sock, registered, ev_timer,
               active_conn_count, thread>>
vars == <<client, transport, lost>>

Init == Client!Init /\ Http!Init /\ lost = {}

-----------------------------------------------------------------------------
\* on_ev_timeout_flush and transport_send: the request is made, or dropped.
OnEvTimeoutFlush ==
  /\ Client!OnEvTimeoutFlush
  /\ \/ (\E r \in Requests : Http!Send(r)) /\ UNCHANGED lost
     \/ Cardinality(lost) < MaxLost /\ Http!SendFails /\ lost' = lost \cup {{e.id : e \in wire' \ wire}}

\* The client's other timers, and calls from outside of it.
OnEvTimeout ==
  /\ thread = "idle"
  /\ Client!OnEvTimeoutConnect \/ Client!OnEvTimeoutHandshake
  /\ UNCHANGED <<transport, lost>>

Calling ==
  /\ thread = "idle" \/ loop = "callback"
  /\ \/ Client!Publish \/ Client!Unsubscribe
     \/ \E channel \in Channels : Client!Subscribe(channel)
  /\ UNCHANGED <<transport, lost>>

\* bayeux_client_destroy closes the transport.
Close == Client!Destroy /\ Http!Destroy /\ UNCHANGED lost

\* curl is driven while the client is not in a callback.
Drive ==
  /\ Http!OnEvTimer \/ Http!CheckEnds \/ \E r \in Requests : Http!OnEvEvent(r)
  /\ UNCHANGED <<client, lost>>

\* check_curl_multi calls on_batch_recv, which handles the messages of the
\* array one after the other and returns.
Report(r) ==
  /\ Http!Report(r)
  /\ IF data[r] = "array" THEN Client!BatchBegins ELSE Client!ExchangeFails
  /\ UNCHANGED lost

\* What was lost is not answered.
Recv ==
  /\ Client!Recv \/ Client!CallbackReturns
  /\ \A e \in wire \ wire' : e.id \notin UNION lost
  /\ UNCHANGED <<transport, lost>>

ReportReturns == Client!BatchEnds /\ Http!ReportReturns /\ UNCHANGED lost

Next ==
  \/ OnEvTimeoutFlush \/ OnEvTimeout \/ Calling \/ Close
  \/ Drive \/ Recv \/ ReportReturns
  \/ \E r \in Requests : Report(r)

Spec == Init /\ [][Next]_vars

\* The fairness of both parts: the event loop runs expired timers, loops and
\* callbacks end, and the server ends a transfer curl goes on with, and
\* accepts the handshake at last.
FairSpec ==
  /\ Spec
  /\ SF_vars(OnEvTimeoutFlush) /\ SF_vars(OnEvTimeout /\ ev_timeout_connect /\ ~ev_timeout_connect')
  /\ SF_vars(OnEvTimeout /\ ev_timeout_handshake /\ ~ev_timeout_handshake')
  /\ WF_vars(Recv /\ loop = "callback") /\ SF_vars(ReportReturns)
  /\ WF_vars(Drive /\ Http!OnEvTimer) /\ WF_vars(Drive /\ Http!CheckEnds)
  /\ \A r \in Requests :
       /\ WF_vars(Report(r))
       /\ SF_vars(Drive /\ conn[r] = "alive" /\ conn'[r] # "alive")
  /\ SF_vars(Recv /\ handshake_msg_index # -1 /\ handshake_msg_index' = -1)

-----------------------------------------------------------------------------
\* End to end, a non-empty outbox is always driven by something in the event
\* loop: the client's flush timer, or a transfer for which curl has an event
\* registered or its timer pending.  Only a dropped request leaves it alone.
OutboxDriven ==
  thread = "idle" /\ loop = "idle" /\ outbox.count > 0 /\ lost = {} =>
    \/ ev_timeout_flush
    \/ \E r \in Requests :
         conn[r] = "alive" /\ (ev_timer \/ \E what \in Watches : <<r, what>> \in registered)

\* What the application queues is sent, over the real transport: no response
\* is left in curl, and no timer of the transport stopped, that it waits for.
\* A handshake in a request that was dropped keeps them back for ever.
QueuedIsSent ==
  Client!Unsent(outbox) # {} ~>
    Client!Unsent(outbox) = {} \/ Client!Ended \/ (lost # {} /\ state # "CONNECTED")

\* After the first call the handshake is made: queued, sent alone, carried by
\* curl, reported and handled, while other messages wait for it.
HandshakeCompletes == outbox.count > 0 ~> state = "CONNECTED" \/ Client!Ended \/ lost # {}

=============================================================================
