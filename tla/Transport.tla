----------------------------- MODULE Transport ------------------------------
(***************************************************************************)
(* The HTTP long-polling transport of                                      *)
(* src/src/transport_http_long_polling.c, behind src/src/transport.c: the  *)
(* requests it hands to curl's multi interface, the libevent events that   *)
(* drive curl, and the loop that reports the answers.                      *)
(*                                                                         *)
(* curl, libevent and the server are external.  What is assumed of curl:   *)
(*  - it asks, through the socket callback, for each of its sockets to be  *)
(*    watched or forgotten, and through the timer callback for a call      *)
(*    after some time;                                                     *)
(*  - after every call into it, a transfer that has not ended has a socket *)
(*    watched, or curl is waiting for the time it asked for;               *)
(*  - adding a transfer asks for a call; once told that the time is over,  *)
(*    curl asks again if it has more to wait for;                          *)
(*  - a transfer that ends has its socket forgotten, and a message queued. *)
(* Each transfer has a socket of its own.  The time asked for is left out. *)
(***************************************************************************)
EXTENDS Integers, FiniteSets

CONSTANTS
  Requests,   \* connection records, each free or in use (bound: that many at a time)
  Watches,    \* what curl may ask to watch a socket for; {} is "forget it"
  Outcomes,   \* what a transfer can bring: "array", "other" text or JSON, or "none"
  RequestFails \* whether curl may refuse a transfer

Directions == {"in", "out"}

ASSUME TransportAssumption ==
  /\ IsFiniteSet(Requests)
  /\ {} \in Watches /\ Watches \subseteq SUBSET Directions
  /\ Outcomes \subseteq {"array", "other", "none"}
  /\ RequestFails \in BOOLEAN

VARIABLES
  conn,        \* state of each record
  data,        \* what a finished transfer brought
  wanted,      \* curl: what each socket is to be watched for
  curl_timeout,\* curl: waits for the time it asked for
  sock,        \* what the SocketInfo of each socket has its event for; {}: no SocketInfo
  registered,  \* libevent: pairs of a socket and what an event watches it for
  ev_timer,    \* libevent: timer pending
  active_conn_count,
  thread       \* in which callback of libevent the thread is

curl == <<wanted, curl_timeout>>
events == <<sock, registered, ev_timer>>
vars == <<conn, data, curl, events, active_conn_count, thread>>

Reported == {r \in Requests : conn[r] = "reported"}

TypeOK ==
  /\ conn \in [Requests -> {"free", "alive", "done", "reported"}]
  /\ \A r, q \in Reported : r = q
  /\ data \in [Requests -> {"array", "other", "none"}]
  /\ wanted \in [Requests -> SUBSET Directions] /\ sock \in [Requests -> SUBSET Directions]
  /\ registered \subseteq Requests \X SUBSET Directions
  /\ curl_timeout \in BOOLEAN /\ ev_timer \in BOOLEAN
  /\ active_conn_count \in Nat
  /\ thread \in {"idle",              \* in the event loop, or not in the transport
                 "event", "timer",    \* in check_curl_multi, for on_ev_event or on_ev_timer
                 "closed", "faulted"}

Alive == {r \in Requests : conn[r] = "alive"}

Init ==
  /\ conn = [r \in Requests |-> "free"] /\ data = [r \in Requests |-> "none"]
  /\ wanted = [r \in Requests |-> {}] /\ curl_timeout = FALSE
  /\ sock = [r \in Requests |-> {}] /\ registered = {} /\ ev_timer = FALSE
  /\ active_conn_count = 0
  /\ thread = "idle"

-----------------------------------------------------------------------------
(* What curl does to the transport while it is called *)

\* Faulty: the old event stays.
SocketSetAdds(changed) ==
  registered' = registered \cup {<<r, wanted'[r]>> : r \in {c \in changed : wanted'[c] # {}}}

\* on_curl_multi_socket for the sockets whose watching changes: socket_create
\* and socket_set register an event in place of the one there was,
\* socket_destroy deletes it.
SocketSet(changed) ==
  registered' = (registered \ {<<r, sock[r]>> : r \in changed})
                  \cup {<<r, wanted'[r]>> : r \in {c \in changed : wanted'[c] # {}}}

\* curl wants the sockets of S to be watched for something else.
Sockets(S) ==
  /\ \E want \in [S -> Watches] :
       wanted' = [r \in Requests |-> IF r \in S THEN want[r] ELSE wanted[r]]
  /\ sock' = wanted'
  /\ SocketSet({r \in Requests : wanted'[r] # wanted[r]})

\* on_curl_multi_timer, or no call of it.  pending is whether ev_timer is so
\* far.  Time -1, "no timer", also adds ev_timer: it then expires at once.
Timer(pending, waiting) ==
  \/ ev_timer' = pending /\ curl_timeout' = waiting
  \/ ev_timer' = TRUE /\ curl_timeout' \in BOOLEAN

\* What is assumed of curl at the end of a call.
CurlWaits == \A r \in Requests : conn'[r] = "alive" /\ wanted'[r] = {} => curl_timeout'

\* curl_multi_socket_action on the transfers of S, some of which end.
SocketAction(S) ==
  \E ended \in SUBSET S : \E brought \in [ended -> Outcomes] :
    /\ conn' = [r \in Requests |-> IF r \in ended THEN "done" ELSE conn[r]]
    /\ data' = [r \in Requests |-> IF r \in ended THEN brought[r] ELSE data[r]]
    /\ Sockets(S)
    /\ \A r \in ended : wanted'[r] = {}
    /\ active_conn_count' = Cardinality(Alive \ ended)

-----------------------------------------------------------------------------
\* transport_send.  When the easy handle cannot be made the record is freed again;
\* when it cannot be added that is only logged, and the record left to itself.
\* Either way curl does not have the transfer, and nobody is told.
Send(r) ==
  /\ thread = "idle" /\ conn[r] = "free"
  /\ conn' = [conn EXCEPT ![r] = "alive"]
  /\ ev_timer' = TRUE /\ curl_timeout' = TRUE
  /\ UNCHANGED <<data, wanted, sock, registered, active_conn_count, thread>>

SendFails ==
  /\ RequestFails /\ thread = "idle"
  /\ UNCHANGED <<conn, data, curl, events, active_conn_count, thread>>

OnEvEvent(r) ==
  /\ thread = "idle"
  /\ \E what \in Watches : <<r, what>> \in registered
  /\ SocketAction({r} \cap Alive)
  /\ Timer(ev_timer, curl_timeout) /\ CurlWaits
  /\ thread' = "event"

OnEvTimer ==
  /\ thread = "idle" /\ ev_timer
  /\ \E S \in SUBSET Alive : SocketAction(S)
  /\ Timer(FALSE, FALSE) /\ CurlWaits
  /\ thread' = "timer"

-----------------------------------------------------------------------------
(* check_curl_multi *)

\* Faulty: taking the next message while the callback for one runs.
InCheckReentered == thread \in {"event", "timer"}

InCheck == thread \in {"event", "timer"} /\ Reported = {}

\* Takes a message of curl's queue, removes the transfer and calls back.  The
\* parser dies on no data; what is not an array kills the callback.
Report(r) ==
  /\ InCheck /\ conn[r] = "done"
  /\ conn' = [conn EXCEPT ![r] = "reported"]
  /\ thread' = IF data[r] = "array" THEN thread ELSE "faulted"
  /\ Timer(ev_timer, curl_timeout)
  /\ UNCHANGED <<data, wanted, sock, registered, active_conn_count>>
  /\ CurlWaits

\* The callback returns and the record is freed.
ReportReturns ==
  /\ thread \in {"event", "timer"}
  /\ \E r \in Reported : /\ conn' = [conn EXCEPT ![r] = "free"]
                         /\ data' = [data EXCEPT ![r] = "none"]
  /\ UNCHANGED <<curl, events, active_conn_count, thread>>

\* Faulty: stopping the timer although transfers go on; not reading all messages.
CheckEndsStops ==
  /\ InCheck /\ \A r \in Requests : conn[r] # "done"
  /\ thread' = "idle"
  /\ ev_timer' = (ev_timer /\ thread # "event")
  /\ UNCHANGED <<conn, data, curl, sock, registered, active_conn_count>>
CheckEndsEarly ==
  /\ InCheck
  /\ thread' = "idle"
  /\ ev_timer' = (ev_timer /\ (thread = "event" => active_conn_count > 0))
  /\ UNCHANGED <<conn, data, curl, sock, registered, active_conn_count>>

\* The queue is empty.  on_ev_event stops the timer after the last transfer.
CheckEnds ==
  /\ InCheck /\ \A r \in Requests : conn[r] # "done"
  /\ thread' = "idle"
  /\ ev_timer' = (ev_timer /\ (thread = "event" => active_conn_count > 0))
  /\ UNCHANGED <<conn, data, curl, sock, registered, active_conn_count>>

-----------------------------------------------------------------------------
\* transport_close.  Whether curl_multi_cleanup has sockets forgotten is up to
\* curl; transfers under way are dropped.
Destroy ==
  /\ thread = "idle"
  /\ thread' = "closed"
  /\ conn' = [r \in Requests |-> "free"] /\ data' = [r \in Requests |-> "none"]
  /\ wanted' = [r \in Requests |-> {}] /\ curl_timeout' = FALSE
  /\ registered' \in SUBSET registered
  /\ sock' = [r \in Requests |-> {}]
  /\ ev_timer' = FALSE
  /\ active_conn_count' = 0

Next ==
  \/ \E r \in Requests : Send(r) \/ OnEvEvent(r) \/ Report(r)
  \/ SendFails \/ OnEvTimer \/ ReportReturns \/ CheckEnds \/ Destroy

Spec == Init /\ [][Next]_vars

\* libevent runs an expired timer; the loop of check_curl_multi and its
\* callback end; and the server answers: a transfer that curl is called for
\* again and again ends at last.
FairSpec ==
  /\ Spec
  /\ WF_vars(OnEvTimer) /\ WF_vars(ReportReturns) /\ WF_vars(CheckEnds)
  /\ \A r \in Requests :
       /\ WF_vars(Report(r))
       /\ SF_vars((OnEvEvent(r) \/ OnEvTimer) /\ conn'[r] # "alive")

-----------------------------------------------------------------------------
Ended == thread \in {"closed", "faulted"}

\* A transfer under way can always go on: while the thread is in the event
\* loop, an event on its socket is registered or the timer is pending,
\* although on_ev_event stops the timer that all transfers share, on a count
\* that was taken before the callbacks ran.
TransferHasWakeup ==
  thread = "idle" => \A r \in Alive : ev_timer \/ \E what \in Watches : <<r, what>> \in registered

\* The thread does not go back to the event loop with a message left in curl's
\* queue: curl announces each only once, so that it would not be reported.
NothingLeftUnread ==
  thread = "idle" => \A r \in Requests : conn[r] \in {"free", "alive"}

\* A socket has one event, for what curl asked last, and a forgotten one none:
\* replacing the event leaves no earlier one behind, which would go on firing.
SocketEventMatches ==
  thread # "closed" => registered = {<<r, wanted[r]>> : r \in {q \in Requests : wanted[q] # {}}}

\* Every request handed to curl is reported to the callback, and its record
\* freed, as long as the transport is not closed.
EveryRequestReported ==
  \A r \in Requests : conn[r] = "alive" ~> conn[r] = "free" \/ Ended
=============================================================================
