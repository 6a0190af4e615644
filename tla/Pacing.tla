------------------------------- MODULE Pacing -------------------------------
(***************************************************************************)
(* When the client of src/src/bayeux.c connects and tries the handshake    *)
(* again: the server's advice, and the durations BayeuxClient leaves out.  *)
(* A running timer is the time it has left, in microseconds; a timer that  *)
(* has none left fires, at once or later, but is never late for ever.      *)
(* The unit is scaled: a millisecond has UsPerMs microseconds and a second *)
(* MsPerS milliseconds, both 1000 in the code.                             *)
(*                                                                         *)
(* Of messages only connects and handshakes are kept, each as whether one  *)
(* is under way.  There can be several handshakes, so that after a reply   *)
(* to one there may or may not be another.  Nor does the model say which   *)
(* exchange a message comes with: after the first call one may come at any *)
(* time.                                                                   *)
(***************************************************************************)
EXTENDS Integers, Sequences

CONSTANTS
  UsPerMs, MsPerS,
  Strings,          \* what the server may say for advice.reconnect
  Intervals,        \* what it may say for advice.interval, in milliseconds
  Interval, Timeout,\* opts->interval_ms and opts->timeout_ms
  Steps,            \* microseconds that may pass at a time
  NULL              \* no advice; a timer that is not pending

UsPerS == UsPerMs * MsPerS

ASSUME PacingAssumption ==
  /\ UsPerMs \in Nat \ {0} /\ MsPerS \in Nat \ {0}
  /\ Intervals \subseteq Int /\ Interval \in Int /\ Timeout \in Int
  /\ Steps \subseteq Nat \ {0}
  /\ NULL \notin Strings \cup Int

VARIABLES
  reconnect, interval_ms, timeout_ms,  \* client->advice
  state,
  connect_msg_in_flight,
  handshake_in_outbox,                       \* whether recv_handshake is among the funcs
  ev_timeout_connect, ev_timeout_handshake,  \* microseconds left, or NULL
  called,    \* whether the application has called, so that there is an exchange
  advised    \* the reconnect advice in force, as the server said it (not in the code)

advice == <<reconnect, interval_ms, timeout_ms, advised>>
vars == <<advice, state, connect_msg_in_flight, handshake_in_outbox, called,
          ev_timeout_connect, ev_timeout_handshake>>

-----------------------------------------------------------------------------
\* EReconnect, and the table of its names.
RECONNECT_HANDSHAKE == 0
RECONNECT_NONE == 1
RECONNECT_RETRY == 2

\* Faulty: a name more than there are values.
StrsLonger == <<"handshake", "none", "retry", "other">>

s_reconnect_strs == <<"handshake", "none", "retry">>

\* The values of the enumeration with that name: one or none.
Named(string) == {i - 1 : i \in {j \in DOMAIN s_reconnect_strs : s_reconnect_strs[j] = string}}

\* A struct timeval in microseconds.
Micro(tv) == tv.sec * UsPerS + tv.usec

\* The delays of schedule_connect and of recv_handshake_error.  The two parts
\* add up to the interval, whichever way the division of a negative one rounds;
\* a timer with a negative delay is due at once.
ConnectDelay(ms) == Micro([sec |-> ms \div UsPerS, usec |-> ms % UsPerS])
HandshakeDelay(ms) == Micro([sec |-> ms, usec |-> 0])

Init ==
  /\ reconnect = RECONNECT_RETRY /\ interval_ms = Interval /\ timeout_ms = Timeout
  /\ advised = "retry"
  /\ state = "UNCONNECTED" /\ connect_msg_in_flight = FALSE /\ handshake_in_outbox = FALSE
  /\ called = FALSE
  /\ ev_timeout_connect = NULL /\ ev_timeout_handshake = NULL

-----------------------------------------------------------------------------
\* The advice of a message: an unknown string changes nothing.
Advice(string, ms) ==
  /\ IF Named(string) = {} THEN UNCHANGED <<reconnect, advised>>
     ELSE reconnect' \in Named(string) /\ advised' = string
  /\ interval_ms' = IF ms = NULL THEN interval_ms ELSE ms
  /\ UNCHANGED timeout_ms

\* Faulty: starting the timer again although it is pending.
ScheduleConnectAgain(due) ==
  ev_timeout_connect' = IF due THEN ConnectDelay(interval_ms') ELSE ev_timeout_connect

\* schedule_connect, if it is called.
ScheduleConnect(due) ==
  ev_timeout_connect' =
    IF due /\ ev_timeout_connect = NULL THEN ConnectDelay(interval_ms') ELSE ev_timeout_connect

\* handle_advice asks for a connect, and for a handshake first, for every
\* message that comes while the advice "handshake" is in force.
StartOver == reconnect' = RECONNECT_HANDSHAKE
StateAdvised == IF StartOver THEN "UNCONNECTED" ELSE state

\* A message that is neither the reply to a connect nor to a handshake.
RecvOther(string, ms) ==
  /\ called
  /\ Advice(string, ms)
  /\ state' = StateAdvised
  /\ ScheduleConnect(StartOver)
  /\ UNCHANGED <<connect_msg_in_flight, handshake_in_outbox, ev_timeout_handshake, called>>

RecvConnect(string, ms) ==
  /\ connect_msg_in_flight
  /\ Advice(string, ms)
  /\ state' = StateAdvised
  /\ connect_msg_in_flight' = FALSE
  /\ ScheduleConnect(TRUE)
  /\ UNCHANGED <<handshake_in_outbox, ev_timeout_handshake, called>>

\* The reply to a handshake.  A refusal starts the handshake timer, pending
\* or not; a malformed reply is discarded.
RecvHandshake(string, ms, outcome) ==
  /\ handshake_in_outbox
  /\ handshake_in_outbox' \in BOOLEAN
  /\ Advice(string, ms)
  /\ state' = CASE outcome = "success" -> "CONNECTED"
                [] outcome = "failure" -> "UNCONNECTED"
                [] outcome = "malformed" -> StateAdvised
  /\ ScheduleConnect(StartOver)
  /\ ev_timeout_handshake' =
       IF outcome = "failure" THEN HandshakeDelay(timeout_ms) ELSE ev_timeout_handshake
  /\ UNCHANGED <<connect_msg_in_flight, called>>

-----------------------------------------------------------------------------
\* Faulty: a handshake although the server wants no more.
HandshakeDueAlways == state = "UNCONNECTED"

HandshakeDue == state = "UNCONNECTED" /\ reconnect # RECONNECT_NONE
IssueHandshake ==
  /\ state' = IF HandshakeDue THEN "CONNECTING" ELSE state
  /\ handshake_in_outbox' = (handshake_in_outbox \/ HandshakeDue)

\* issue_connect, for a call of the application.
IssueConnect ==
  /\ IssueHandshake
  /\ connect_msg_in_flight' = (connect_msg_in_flight \/ reconnect # RECONNECT_NONE)
  /\ called' = TRUE
  /\ UNCHANGED <<advice, ev_timeout_connect, ev_timeout_handshake>>

\* Faulty: a connect without the handshake that has to go before it.
OnEvTimeoutConnectOnly ==
  /\ ev_timeout_connect # NULL /\ ev_timeout_connect <= 0
  /\ connect_msg_in_flight' = (connect_msg_in_flight \/ reconnect # RECONNECT_NONE)
  /\ ev_timeout_connect' = NULL
  /\ UNCHANGED <<advice, state, handshake_in_outbox, ev_timeout_handshake, called>>

OnEvTimeoutConnect ==
  /\ ev_timeout_connect # NULL /\ ev_timeout_connect <= 0
  /\ IssueHandshake
  /\ connect_msg_in_flight' = (connect_msg_in_flight \/ reconnect # RECONNECT_NONE)
  /\ ev_timeout_connect' = NULL
  /\ UNCHANGED <<advice, ev_timeout_handshake, called>>

OnEvTimeoutHandshake ==
  /\ ev_timeout_handshake # NULL /\ ev_timeout_handshake <= 0
  /\ IssueHandshake
  /\ ev_timeout_handshake' = NULL
  /\ UNCHANGED <<advice, connect_msg_in_flight, ev_timeout_connect, called>>

\* Time passes for the timers that are pending.
Left(timer, us) ==
  IF timer = NULL THEN NULL ELSE IF timer < us THEN 0 ELSE timer - us

Elapse(us) ==
  /\ ev_timeout_connect' = Left(ev_timeout_connect, us)
  /\ ev_timeout_handshake' = Left(ev_timeout_handshake, us)
  /\ UNCHANGED <<advice, state, connect_msg_in_flight, handshake_in_outbox, called>>

-----------------------------------------------------------------------------
Next ==
  \/ \E string \in Strings \cup {NULL}, ms \in Intervals \cup {NULL} :
       \/ RecvOther(string, ms) \/ RecvConnect(string, ms)
       \/ \E outcome \in {"success", "failure", "malformed"} : RecvHandshake(string, ms, outcome)
  \/ IssueConnect \/ OnEvTimeoutConnect \/ OnEvTimeoutHandshake
  \/ \E us \in Steps : Elapse(us)

Spec == Init /\ [][Next]_vars

\* Time goes on, and libevent runs a timer whose time is over.
FairSpec ==
  /\ Spec
  /\ WF_vars(\E us \in Steps : Elapse(us))
  /\ WF_vars(OnEvTimeoutConnect) /\ WF_vars(OnEvTimeoutHandshake)

-----------------------------------------------------------------------------
TypeOK ==
  /\ reconnect \in 0 .. 2
  /\ state \in {"UNCONNECTED", "CONNECTING", "CONNECTED"}
  /\ connect_msg_in_flight \in BOOLEAN /\ handshake_in_outbox \in BOOLEAN
  /\ called \in BOOLEAN
  /\ ev_timeout_connect \in Int \cup {NULL} /\ ev_timeout_handshake \in Int \cup {NULL}

\* Once the last thing the server said, of what the client understands, is
\* "none", neither a call nor a timer that was started before sends another
\* handshake or connect: the enumeration and the table of its names are in
\* step, and every way to send one looks at the advice first.
NoneStopsLoop ==
  [][advised = "none" => /\ handshake_in_outbox' => handshake_in_outbox
                         /\ connect_msg_in_flight' => connect_msg_in_flight]_vars

\* A server that asks to start over gets its handshake, whatever becomes of
\* the handshakes under way, unless it changes its mind and wants no more.
StartsOver ==
  advised = "handshake" /\ state = "UNCONNECTED" ~> state # "UNCONNECTED" \/ advised = "none"

\* The connect timer always runs out, however often the server repeats its
\* advice meanwhile and whatever interval it then asks for.
ConnectTimerRunsOut == ev_timeout_connect # NULL ~> ev_timeout_connect = NULL

=============================================================================
