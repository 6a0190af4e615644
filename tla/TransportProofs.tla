-------------------------- MODULE TransportProofs ---------------------------
(***************************************************************************)
(* Theorems about Transport, for any number of requests and whatever curl  *)
(* asks for within the contract that the header of Transport lists.        *)
(***************************************************************************)
EXTENDS Transport, FiniteSetTheorems, TLAPS

-----------------------------------------------------------------------------
(* The inductive invariant *)

\* While check_curl_multi runs, the count curl gave is still that of the
\* transfers under way: callbacks run in between, but none of them sends.
CountKept == thread \in {"event", "timer"} => active_conn_count = Cardinality(Alive)

\* curl's contract as it survives the callbacks: a transfer has its socket
\* watched or curl waits for its time, and then the timer that all transfers
\* share is pending.
CurlDriven ==
  /\ \A r \in Alive : wanted[r] = {} => curl_timeout
  /\ Alive # {} /\ curl_timeout => ev_timer

\* Each SocketInfo has the event that curl asked for last.
SocketsMatch ==
  /\ wanted \in [Requests -> Watches]
  /\ sock = wanted
  /\ SocketEventMatches

Inv == TypeOK /\ NothingLeftUnread /\ CountKept /\ CurlDriven /\ SocketsMatch

-----------------------------------------------------------------------------
(* The calls into curl *)

\* The transfers under way are finitely many, and so are those of any set of
\* connection records.
LEMMA FiniteAlive ==
  ASSUME NEW S \in SUBSET Requests
  PROVE  IsFiniteSet(S) /\ Cardinality(S) \in Nat /\ (Cardinality(S) = 0 <=> S = {})
<1>1. IsFiniteSet(S)
  BY FS_Subset, TransportAssumption
<1> QED BY <1>1, FS_CardinalityType, FS_EmptySet

\* curl_multi_socket_action ends some transfers and starts none, and the
\* sockets and their events agree again after it.
LEMMA SocketActionEffect ==
  ASSUME Inv, thread = "idle", NEW S \in SUBSET Alive, SocketAction(S), thread' # "closed"
  PROVE  /\ conn' \in [Requests -> {"free", "alive", "done"}]
         /\ data' \in [Requests -> {"array", "other", "none"}]
         /\ Alive' \subseteq Alive
         /\ active_conn_count' = Cardinality(Alive')
         /\ SocketsMatch'
<1>0. /\ conn \in [Requests -> {"free", "alive"}] /\ data \in [Requests -> {"array", "other", "none"}]
      /\ wanted \in [Requests -> Watches] /\ sock = wanted
      /\ registered = {<<r, wanted[r]>> : r \in {q \in Requests : wanted[q] # {}}}
  BY DEF Inv, TypeOK, NothingLeftUnread, SocketsMatch, SocketEventMatches
<1>1. PICK ended \in SUBSET S : \E brought \in [ended -> Outcomes] :
        /\ conn' = [r \in Requests |-> IF r \in ended THEN "done" ELSE conn[r]]
        /\ data' = [r \in Requests |-> IF r \in ended THEN brought[r] ELSE data[r]]
        /\ Sockets(S)
        /\ \A r \in ended : wanted'[r] = {}
        /\ active_conn_count' = Cardinality(Alive \ ended)
  BY DEF SocketAction
<1>2. conn' \in [Requests -> {"free", "alive", "done"}]
  BY <1>0, <1>1
<1>3. data' \in [Requests -> {"array", "other", "none"}]
  BY <1>0, <1>1, TransportAssumption
<1>4. Alive' = Alive \ ended
  BY <1>1 DEF Alive
<1>5. wanted' \in [Requests -> Watches] /\ sock' = wanted'
  BY <1>0, <1>1 DEF Sockets
<1>6. SocketEventMatches'
  <2> DEFINE changed == {r \in Requests : wanted'[r] # wanted[r]}
  <2>1. registered' = (registered \ {<<r, sock[r]>> : r \in changed})
                        \cup {<<r, wanted'[r]>> : r \in {c \in changed : wanted'[c] # {}}}
    BY <1>1 DEF Sockets, SocketSet
  <2>2. registered' = {<<r, wanted'[r]>> : r \in {q \in Requests : wanted'[q] # {}}}
    BY <1>0, <2>1
  <2> QED BY <2>2 DEF SocketEventMatches
<1> QED BY <1>1, <1>2, <1>3, <1>4, <1>5, <1>6 DEF SocketsMatch

\* The callbacks keep the shared timer in step with what curl waits for.
LEMMA TimerDriven ==
  ASSUME NEW STATE pending, pending \in BOOLEAN, NEW STATE waiting, waiting \in BOOLEAN,
         CurlWaits, Timer(pending, waiting),
         Alive' # {} => (waiting => pending)
  PROVE  CurlDriven' /\ ev_timer' \in BOOLEAN /\ curl_timeout' \in BOOLEAN
<1>1. \A r \in Alive' : wanted'[r] = {} => curl_timeout'
  BY Zenon DEF CurlWaits, Alive
<1>2. Alive' # {} /\ curl_timeout' => ev_timer'
  BY Zenon DEF Timer
<1>3. ev_timer' \in BOOLEAN /\ curl_timeout' \in BOOLEAN
  BY Zenon DEF Timer
<1> QED BY <1>1, <1>2, <1>3 DEF CurlDriven

\* What on_ev_event and on_ev_timer leave behind when they have called curl.
LEMMA CalledInv ==
  ASSUME thread' \in {"event", "timer"},
         conn' \in [Requests -> {"free", "alive", "done"}],
         data' \in [Requests -> {"array", "other", "none"}],
         active_conn_count' = Cardinality(Alive'),
         SocketsMatch', CurlDriven', ev_timer' \in BOOLEAN, curl_timeout' \in BOOLEAN
  PROVE  Inv'
<1>1. Alive' \in SUBSET Requests
  BY DEF Alive
<1>2. Cardinality(Alive') \in Nat
  BY <1>1, FiniteAlive
<1>3. wanted' \in [Requests -> SUBSET Directions] /\ sock' \in [Requests -> SUBSET Directions]
  BY TransportAssumption DEF SocketsMatch
<1>4. registered' \subseteq Requests \X SUBSET Directions
  BY <1>3 DEF SocketsMatch, SocketEventMatches
<1>5. TypeOK'
  BY <1>2, <1>3, <1>4 DEF TypeOK, Reported
<1> QED BY <1>5 DEF Inv, NothingLeftUnread, CountKept

-----------------------------------------------------------------------------
(* The steps *)

LEMMA SendStep ==
  ASSUME Inv, NEW r \in Requests, Send(r)
  PROVE  Inv'
<1>1. TypeOK'
  BY DEF Inv, TypeOK, Send, Reported
<1>2. SocketsMatch'
  BY DEF Inv, SocketsMatch, SocketEventMatches, Send
<1> QED BY <1>1, <1>2 DEF Inv, NothingLeftUnread, CountKept, CurlDriven, Send, TypeOK

LEMMA OnEvEventStep ==
  ASSUME Inv, NEW r \in Requests, OnEvEvent(r)
  PROVE  Inv'
<1>0. /\ thread = "idle" /\ thread' = "event" /\ SocketAction({r} \cap Alive)
      /\ Timer(ev_timer, curl_timeout) /\ CurlWaits
  BY DEF OnEvEvent
<1>1. /\ conn' \in [Requests -> {"free", "alive", "done"}]
      /\ data' \in [Requests -> {"array", "other", "none"}]
      /\ Alive' \subseteq Alive
      /\ active_conn_count' = Cardinality(Alive')
      /\ SocketsMatch'
  BY <1>0, SocketActionEffect
<1>2. CurlDriven' /\ ev_timer' \in BOOLEAN /\ curl_timeout' \in BOOLEAN
  <2>1. ev_timer \in BOOLEAN /\ curl_timeout \in BOOLEAN
    BY DEF Inv, TypeOK
  <2>2. Alive' # {} => (curl_timeout => ev_timer)
    BY <1>1 DEF Inv, CurlDriven
  <2> QED BY <1>0, <2>1, <2>2, TimerDriven
<1> QED BY <1>0, <1>1, <1>2, CalledInv

LEMMA OnEvTimerStep ==
  ASSUME Inv, OnEvTimer
  PROVE  Inv'
<1>0. /\ thread = "idle" /\ thread' = "timer"
      /\ Timer(FALSE, FALSE) /\ CurlWaits
  BY DEF OnEvTimer
<1>1. PICK S \in SUBSET Alive : SocketAction(S)
  BY DEF OnEvTimer
<1>2. /\ conn' \in [Requests -> {"free", "alive", "done"}]
      /\ data' \in [Requests -> {"array", "other", "none"}]
      /\ Alive' \subseteq Alive
      /\ active_conn_count' = Cardinality(Alive')
      /\ SocketsMatch'
  BY <1>0, <1>1, SocketActionEffect
<1>3. CurlDriven' /\ ev_timer' \in BOOLEAN /\ curl_timeout' \in BOOLEAN
  BY <1>0, TimerDriven
<1> QED BY <1>0, <1>2, <1>3, CalledInv

LEMMA ReportStep ==
  ASSUME Inv, NEW r \in Requests, Report(r)
  PROVE  Inv'
<1>0. /\ thread \in {"event", "timer"} /\ Reported = {} /\ conn[r] = "done"
      /\ conn' = [conn EXCEPT ![r] = "reported"]
      /\ thread' \in {thread, "faulted"}
      /\ Timer(ev_timer, curl_timeout) /\ CurlWaits
      /\ UNCHANGED <<data, wanted, sock, registered, active_conn_count>>
  BY DEF Report, InCheck
<1>1. conn \in [Requests -> {"free", "alive", "done", "reported"}]
  BY DEF Inv, TypeOK
<1>2. Alive' = Alive /\ Reported' = {r}
  BY <1>0, <1>1 DEF Alive, Reported
<1>3. CurlDriven' /\ ev_timer' \in BOOLEAN /\ curl_timeout' \in BOOLEAN
  <2>1. ev_timer \in BOOLEAN /\ curl_timeout \in BOOLEAN
    BY DEF Inv, TypeOK
  <2>2. Alive' # {} => (curl_timeout => ev_timer)
    BY <1>2 DEF Inv, CurlDriven
  <2> QED BY <1>0, <2>1, <2>2, TimerDriven
<1>4. TypeOK'
  BY <1>0, <1>1, <1>2, <1>3 DEF Inv, TypeOK
<1>5. SocketsMatch'
  BY <1>0 DEF Inv, SocketsMatch, SocketEventMatches
<1> QED BY <1>0, <1>2, <1>3, <1>4, <1>5 DEF Inv, NothingLeftUnread, CountKept

LEMMA ReportReturnsStep ==
  ASSUME Inv, ReportReturns
  PROVE  Inv'
<1>0. PICK r \in Reported : /\ conn' = [conn EXCEPT ![r] = "free"]
                            /\ data' = [data EXCEPT ![r] = "none"]
  BY DEF ReportReturns
<1>1. /\ thread \in {"event", "timer"}
      /\ UNCHANGED <<wanted, curl_timeout, sock, registered, ev_timer, active_conn_count, thread>>
  BY DEF ReportReturns, curl, events
<1>2. /\ conn \in [Requests -> {"free", "alive", "done", "reported"}]
      /\ data \in [Requests -> {"array", "other", "none"}]
      /\ r \in Requests /\ conn[r] = "reported"
  BY DEF Inv, TypeOK, Reported
<1>3. Alive' = Alive /\ Reported' \subseteq Reported
  BY <1>0, <1>2 DEF Alive, Reported
<1>4. TypeOK'
  BY <1>0, <1>1, <1>2, <1>3 DEF Inv, TypeOK
<1>5. SocketsMatch' /\ CurlDriven' /\ CountKept'
  BY <1>1, <1>3 DEF Inv, SocketsMatch, SocketEventMatches, CurlDriven, CountKept
<1> QED BY <1>1, <1>4, <1>5 DEF Inv, NothingLeftUnread

\* on_ev_event stops the timer only when curl had no transfer left: then none
\* is under way now, and the next one that is sent starts the timer again.
LEMMA CheckEndsStep ==
  ASSUME Inv, CheckEnds
  PROVE  Inv'
<1>0. /\ thread \in {"event", "timer"} /\ Reported = {} /\ \A r \in Requests : conn[r] # "done"
      /\ thread' = "idle"
      /\ ev_timer' = (ev_timer /\ (thread = "event" => active_conn_count > 0))
      /\ UNCHANGED <<conn, data, wanted, curl_timeout, sock, registered, active_conn_count>>
  BY DEF CheckEnds, InCheck, curl
<1>1. Alive' = Alive /\ Alive \in SUBSET Requests
  BY <1>0 DEF Alive
<1>2. Alive # {} => active_conn_count > 0
  <2>1. active_conn_count = Cardinality(Alive)
    BY <1>0 DEF Inv, CountKept
  <2>2. Cardinality(Alive) \in Nat /\ (Cardinality(Alive) = 0 <=> Alive = {})
    BY <1>1, FiniteAlive
  <2> QED BY <2>1, <2>2
<1>3. CurlDriven'
  BY <1>0, <1>1, <1>2 DEF Inv, CurlDriven
<1>4. ev_timer' \in BOOLEAN
  BY <1>0, Zenon DEF Inv, TypeOK
<1>5. TypeOK' /\ NothingLeftUnread'
  BY <1>0, <1>4 DEF Inv, TypeOK, NothingLeftUnread, Reported
<1>6. SocketsMatch' /\ CountKept'
  BY <1>0 DEF Inv, SocketsMatch, SocketEventMatches, CountKept
<1> QED BY <1>3, <1>5, <1>6 DEF Inv

LEMMA DestroyStep ==
  ASSUME Inv, Destroy
  PROVE  Inv'
<1>1. TypeOK'
  BY DEF Inv, TypeOK, Destroy, Reported
<1>2. SocketsMatch'
  BY TransportAssumption DEF SocketsMatch, SocketEventMatches, Destroy
<1> QED BY <1>1, <1>2 DEF Inv, NothingLeftUnread, CountKept, CurlDriven, Alive, Destroy

LEMMA Invariance == Spec => []Inv
<1>1. Init => Inv
  <2> SUFFICES ASSUME Init
               PROVE  Inv
    OBVIOUS
  <2>1. TypeOK
    BY DEF Init, TypeOK, Reported
  <2>2. SocketsMatch
    BY TransportAssumption DEF Init, SocketsMatch, SocketEventMatches
  <2>3. NothingLeftUnread /\ CountKept /\ CurlDriven
    BY DEF Init, NothingLeftUnread, CountKept, CurlDriven, Alive
  <2> QED BY <2>1, <2>2, <2>3 DEF Inv
<1>2. Inv /\ [Next]_vars => Inv'
  <2> SUFFICES ASSUME Inv, [Next]_vars
               PROVE  Inv'
    OBVIOUS
  <2>1. ASSUME UNCHANGED vars
        PROVE  Inv'
    BY <2>1 DEF vars, curl, events, Inv, TypeOK, Reported, NothingLeftUnread, CountKept,
                CurlDriven, Alive, SocketsMatch, SocketEventMatches
  <2>2. CASE SendFails
    BY <2>1, <2>2 DEF SendFails, vars
  <2> QED
    BY <2>1, <2>2, SendStep, OnEvEventStep, OnEvTimerStep, ReportStep, ReportReturnsStep,
       CheckEndsStep, DestroyStep
    DEF Next
<1> QED BY <1>1, <1>2, PTL DEF Spec

-----------------------------------------------------------------------------
(* The properties *)

\* The variables keep their types: in particular one answer at a time is being
\* reported, and a socket is only ever watched for directions there are.
THEOREM TypeCorrect == Spec => []TypeOK
BY Invariance, PTL DEF Inv

\* For any number of requests, whatever curl asks for and however its answers
\* and errors come: a transfer under way always has a registered event or the
\* pending timer that will call curl for it.
THEOREM TransfersDriven == Spec => []TransferHasWakeup
<1>1. Inv => TransferHasWakeup
  <2> SUFFICES ASSUME Inv, thread = "idle", NEW r \in Alive, ~ev_timer
               PROVE  \E what \in Watches : <<r, what>> \in registered
    BY DEF TransferHasWakeup
  <2>1. ~curl_timeout
    BY DEF Inv, CurlDriven
  <2>2. r \in Requests /\ wanted[r] # {} /\ wanted[r] \in Watches
    BY <2>1 DEF Inv, CurlDriven, SocketsMatch, Alive
  <2>3. <<r, wanted[r]>> \in registered
    BY <2>2 DEF Inv, SocketsMatch, SocketEventMatches
  <2> QED BY <2>2, <2>3
<1> QED BY <1>1, Invariance, PTL

\* check_curl_multi never returns to the event loop with an answer unread.
THEOREM AnswersRead == Spec => []NothingLeftUnread
BY Invariance, PTL DEF Inv

\* libevent watches each socket for exactly what curl asked for last.
THEOREM SocketsWatched == Spec => []SocketEventMatches
<1>1. Inv => SocketEventMatches
  BY DEF Inv, SocketsMatch
<1> QED BY <1>1, Invariance, PTL
=============================================================================
