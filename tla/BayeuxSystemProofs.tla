------------------------- MODULE BayeuxSystemProofs -------------------------
(***************************************************************************)
(* The system keeps what its parts promise.  Every step of BayeuxSystem is *)
(* a step of the client or a stutter of it, and a step of the transport or *)
(* a stutter of it, so that it implements both specifications; and the     *)
(* theorems about each, joined by the count of the exchanges that are      *)
(* open, say that the outbox is driven end to end.                         *)
(***************************************************************************)
EXTENDS BayeuxSystem, FiniteSetTheorems, TLAPS

ClientProofs == INSTANCE BayeuxClientProofs
HttpProofs == INSTANCE TransportProofs

-----------------------------------------------------------------------------
(* The parts and their proofs *)

\* Client and ClientProofs are two instances of one module with the same
\* constants and variables; the lemmas up to SameHttp carry what is proved of
\* one instance over to the other.

\* A flush, which assigns ids by rank, means the same in both instances.
LEMMA SameFlush == Client!OnEvTimeoutFlush <=> ClientProofs!OnEvTimeoutFlush
<1> USE DEF Client!session, ClientProofs!session, Client!counters, ClientProofs!counters, Client!timers,
        ClientProofs!timers
<1>1. \A S : Client!Cardinality(S) = ClientProofs!Cardinality(S)
  BY DEF Client!Cardinality, ClientProofs!Cardinality
<1>2. \A q, S, m, b : Client!AssignIds(q, S, m, b) = ClientProofs!AssignIds(q, S, m, b)
  BY DEF Client!AssignIds, ClientProofs!AssignIds, Client!WithIds, ClientProofs!WithIds, Client!Update,
      ClientProofs!Update, Client!IdAfter, ClientProofs!IdAfter, Client!Rank, ClientProofs!Rank,
      Client!Cardinality, ClientProofs!Cardinality
<1>3. Client!Outgoing = ClientProofs!Outgoing
  BY DEF Client!Outgoing, ClientProofs!Outgoing, Client!Unsent, ClientProofs!Unsent, Client!Live,
      ClientProofs!Live
<1>4. \A i : Client!EnvelopeOf(i) = ClientProofs!EnvelopeOf(i)
  BY <1>3 DEF Client!EnvelopeOf, ClientProofs!EnvelopeOf, Client!Rank, ClientProofs!Rank,
      Client!Cardinality, ClientProofs!Cardinality, Client!IdAfter, ClientProofs!IdAfter
<1> QED
  BY <1>1, <1>2, <1>3, <1>4
  DEF Client!OnEvTimeoutFlush, ClientProofs!OnEvTimeoutFlush, Client!IdAfter, ClientProofs!IdAfter,
      Client!BatchIdUsed, ClientProofs!BatchIdUsed

\* So do the pushes of the library's own messages and of the application's.
LEMMA SamePushes ==
  /\ Client!HandshakeDue <=> ClientProofs!HandshakeDue
  /\ Client!ConnectDue <=> ClientProofs!ConnectDue
  /\ Client!WithHandshake = ClientProofs!WithHandshake
  /\ Client!WithConnect = ClientProofs!WithConnect
  /\ Client!IssueHandshake <=> ClientProofs!IssueHandshake
  /\ Client!IssueConnect <=> ClientProofs!IssueConnect
  /\ \A q, type : Client!PushNew(q, type) = ClientProofs!PushNew(q, type)
<1>1. Client!HandshakeDue <=> ClientProofs!HandshakeDue
  BY DEF Client!HandshakeDue, ClientProofs!HandshakeDue
<1>2. Client!ConnectDue <=> ClientProofs!ConnectDue
  BY DEF Client!ConnectDue, ClientProofs!ConnectDue
<1>3. ASSUME NEW q, NEW type PROVE Client!PushNew(q, type) = ClientProofs!PushNew(q, type)
  <2>1. Client!Fresh(q) = ClientProofs!Fresh(q)
    BY DEF Client!Fresh, ClientProofs!Fresh
  <2>2. \A msg : Client!Push(q, msg, type) = ClientProofs!Push(q, msg, type)
    BY DEF Client!Push, ClientProofs!Push, Client!Store, ClientProofs!Store
  <2> QED BY <2>1, <2>2 DEF Client!PushNew, ClientProofs!PushNew
<1>4. Client!WithHandshake = ClientProofs!WithHandshake
  BY <1>1, <1>3
  DEF Client!WithHandshake, ClientProofs!WithHandshake, Client!PushIf, ClientProofs!PushIf
<1>5. Client!WithConnect = ClientProofs!WithConnect
  BY <1>2, <1>3, <1>4
  DEF Client!WithConnect, ClientProofs!WithConnect, Client!PushIf, ClientProofs!PushIf
<1>6. Client!IssueHandshake <=> ClientProofs!IssueHandshake
  BY <1>1 DEF Client!IssueHandshake, ClientProofs!IssueHandshake
<1>7. Client!IssueConnect <=> ClientProofs!IssueConnect
  BY <1>2, <1>6 DEF Client!IssueConnect, ClientProofs!IssueConnect
<1> QED BY <1>1, <1>2, <1>3, <1>4, <1>5, <1>6, <1>7

\* So does every other action.
LEMMA SameClientNext == Client!Next <=> ClientProofs!Next
<1> USE DEF Client!session, ClientProofs!session, Client!counters, ClientProofs!counters, Client!timers,
        ClientProofs!timers
<1>1. Client!OnEvTimeoutConnect <=> ClientProofs!OnEvTimeoutConnect
  BY SamePushes DEF Client!OnEvTimeoutConnect, ClientProofs!OnEvTimeoutConnect
<1>2. Client!OnEvTimeoutHandshake <=> ClientProofs!OnEvTimeoutHandshake
  BY SamePushes DEF Client!OnEvTimeoutHandshake, ClientProofs!OnEvTimeoutHandshake
<1>3. \A type : Client!Enqueue(type) <=> ClientProofs!Enqueue(type)
  BY SamePushes DEF Client!Enqueue, ClientProofs!Enqueue
<1>4. Client!Application <=> ClientProofs!Application
  BY <1>3 DEF Client!Application, ClientProofs!Application, Client!Publish, ClientProofs!Publish,
      Client!Subscribe, ClientProofs!Subscribe, Client!Unsubscribe, ClientProofs!Unsubscribe,
      Client!Destroy, ClientProofs!Destroy, Client!DestroyedQueue, ClientProofs!DestroyedQueue,
      Client!EmptyQueue, ClientProofs!EmptyQueue
<1>5. \A e, advice : Client!RecvConnect(e, advice) <=> ClientProofs!RecvConnect(e, advice)
  BY DEF Client!RecvConnect, ClientProofs!RecvConnect, Client!Advised, ClientProofs!Advised,
      Client!StartOver, ClientProofs!StartOver, Client!StateAdvised, ClientProofs!StateAdvised,
      Client!Answers, ClientProofs!Answers, Client!FindByMsgId, ClientProofs!FindByMsgId,
      Client!Live, ClientProofs!Live, Client!RemoveOrdered, ClientProofs!RemoveOrdered,
      Client!MoveDown, ClientProofs!MoveDown, Client!CallTypes, ClientProofs!CallTypes
<1>6. \A e, advice, outcome :
       Client!RecvHandshake(e, advice, outcome) <=> ClientProofs!RecvHandshake(e, advice, outcome)
  BY DEF Client!RecvHandshake, ClientProofs!RecvHandshake, Client!Advised, ClientProofs!Advised,
      Client!StartOver, ClientProofs!StartOver, Client!StateAdvised, ClientProofs!StateAdvised,
      Client!Answers, ClientProofs!Answers, Client!FindByMsgId, ClientProofs!FindByMsgId,
      Client!Live, ClientProofs!Live, Client!RemoveOrdered, ClientProofs!RemoveOrdered,
      Client!MoveDown, ClientProofs!MoveDown, Client!CallTypes, ClientProofs!CallTypes
<1>7. \A e, advice : Client!RecvAck(e, advice) <=> ClientProofs!RecvAck(e, advice)
  BY DEF Client!RecvAck, ClientProofs!RecvAck, Client!Advised, ClientProofs!Advised, Client!StartOver,
      ClientProofs!StartOver, Client!StateAdvised, ClientProofs!StateAdvised, Client!Answers,
      ClientProofs!Answers, Client!FindByMsgId, ClientProofs!FindByMsgId, Client!Live,
      ClientProofs!Live, Client!RemoveOrdered, ClientProofs!RemoveOrdered, Client!MoveDown,
      ClientProofs!MoveDown, Client!CallTypes, ClientProofs!CallTypes
<1>8. \A e, advice : Client!RecvUnknown(e, advice) <=> ClientProofs!RecvUnknown(e, advice)
  BY DEF Client!RecvUnknown, ClientProofs!RecvUnknown, Client!AdviceOnly, ClientProofs!AdviceOnly,
      Client!Advised, ClientProofs!Advised, Client!StartOver, ClientProofs!StartOver,
      Client!StateAdvised, ClientProofs!StateAdvised, Client!FindByMsgId, ClientProofs!FindByMsgId,
      Client!Live, ClientProofs!Live
<1>9. \A channel, advice : Client!RecvEvent(channel, advice) <=> ClientProofs!RecvEvent(channel, advice)
  BY DEF Client!RecvEvent, ClientProofs!RecvEvent, Client!AdviceOnly, ClientProofs!AdviceOnly,
      Client!Advised, ClientProofs!Advised, Client!StartOver, ClientProofs!StartOver,
      Client!StateAdvised, ClientProofs!StateAdvised
<1>10. Client!BatchBegins <=> ClientProofs!BatchBegins
  BY DEF Client!BatchBegins, ClientProofs!BatchBegins
<1>11. Client!BatchEnds <=> ClientProofs!BatchEnds
  BY DEF Client!BatchEnds, ClientProofs!BatchEnds
<1>12. Client!ExchangeFails <=> ClientProofs!ExchangeFails
  BY DEF Client!ExchangeFails, ClientProofs!ExchangeFails
<1>13. Client!CallbackReturns <=> ClientProofs!CallbackReturns
  BY DEF Client!CallbackReturns, ClientProofs!CallbackReturns
<1>14. Client!Recv <=> ClientProofs!Recv
  BY <1>5, <1>6, <1>7, <1>8, <1>9
  DEF Client!Recv, ClientProofs!Recv, Client!Answerable, ClientProofs!Answerable, Client!Stray,
      ClientProofs!Stray
<1> QED
  BY <1>1, <1>2, <1>3, <1>4, <1>5, <1>6, <1>7, <1>8, <1>9, <1>10, <1>11, <1>12, <1>13, <1>14, SameFlush
  DEF Client!Next, ClientProofs!Next

\* The client of the system is the one the theorems are about.
LEMMA SameClient == Client!Spec <=> ClientProofs!Spec
<1>1. Client!Init <=> ClientProofs!Init
  BY DEF Client!Init, ClientProofs!Init, Client!EmptyQueue, ClientProofs!EmptyQueue
<1>2. [Client!Next]_(Client!vars) <=> [ClientProofs!Next]_(ClientProofs!vars)
  BY SameClientNext
  DEF Client!vars, ClientProofs!vars, Client!session, ClientProofs!session,
      Client!counters, ClientProofs!counters, Client!timers, ClientProofs!timers
<1> QED BY <1>1, <1>2, PTL DEF Client!Spec, ClientProofs!Spec

\* And so is the transport.
LEMMA SameHttp == Http!Spec <=> HttpProofs!Spec
<1>1. Http!Init <=> HttpProofs!Init
  BY DEF Http!Init, HttpProofs!Init
<1>2. \A S : Http!SocketAction(S) <=> HttpProofs!SocketAction(S)
  BY DEF Http!SocketAction, HttpProofs!SocketAction, Http!Sockets, HttpProofs!Sockets,
         Http!SocketSet, HttpProofs!SocketSet, Http!Alive, HttpProofs!Alive,
         Http!Cardinality, HttpProofs!Cardinality
<1>3. Http!Next <=> HttpProofs!Next
  BY <1>2
  DEF Http!Next, HttpProofs!Next, Http!Send, HttpProofs!Send, Http!SendFails, HttpProofs!SendFails,
      Http!OnEvEvent, HttpProofs!OnEvEvent, Http!OnEvTimer, HttpProofs!OnEvTimer,
      Http!Timer, HttpProofs!Timer, Http!CurlWaits, HttpProofs!CurlWaits,
      Http!InCheck, HttpProofs!InCheck, Http!Reported, HttpProofs!Reported,
      Http!Report, HttpProofs!Report, Http!ReportReturns, HttpProofs!ReportReturns,
      Http!CheckEnds, HttpProofs!CheckEnds, Http!Destroy, HttpProofs!Destroy,
      Http!Alive, HttpProofs!Alive, Http!curl, HttpProofs!curl, Http!events, HttpProofs!events
<1>4. [Http!Next]_(Http!vars) <=> [HttpProofs!Next]_(HttpProofs!vars)
  BY <1>3
  DEF Http!vars, HttpProofs!vars, Http!curl, HttpProofs!curl, Http!events, HttpProofs!events
<1> QED BY <1>1, <1>4, PTL DEF Http!Spec, HttpProofs!Spec

LEMMA SameAssumptions ==
  /\ ClientProofs!QueueAssumption /\ ClientProofs!ClientAssumption
  /\ HttpProofs!TransportAssumption
BY SystemAssumption
DEF Client!QueueAssumption, ClientProofs!QueueAssumption,
    Client!ClientAssumption, ClientProofs!ClientAssumption,
    Client!CallTypes, ClientProofs!CallTypes, Client!Reconnects, ClientProofs!Reconnects,
    Http!TransportAssumption, HttpProofs!TransportAssumption,
    Http!Directions, HttpProofs!Directions, Http!IsFiniteSet, HttpProofs!IsFiniteSet

-----------------------------------------------------------------------------
(* The system implements its parts *)

\* Seen through the client's variables, the system is the client: what the
\* transport does is a stutter, and an answer reaches the client as the end of
\* one of the exchanges it has open.
THEOREM SystemImplementsClient == Spec => Client!Spec
<1>1. Init => Client!Init
  BY DEF Init
<1>2. [Next]_vars => [Client!Next]_(Client!vars)
  <2> SUFFICES ASSUME [Next]_vars
               PROVE  Client!Next \/ UNCHANGED Client!vars
    OBVIOUS
  <2>1. UNCHANGED client <=> UNCHANGED Client!vars
    BY DEF client, Client!vars, Client!session, Client!counters, Client!timers
  <2>2. CASE OnEvTimeoutFlush
    BY <2>2 DEF OnEvTimeoutFlush, Client!Next
  <2>3. CASE OnEvTimeout
    BY <2>3 DEF OnEvTimeout, Client!Next
  <2>4. CASE Calling
    BY <2>4 DEF Calling, Client!Next, Client!Application
  <2>5. CASE Close
    BY <2>5 DEF Close, Client!Next, Client!Application
  <2>6. CASE Drive
    BY <2>1, <2>6 DEF Drive
  <2>7. CASE Recv
    BY <2>7 DEF Recv, Client!Next
  <2>8. CASE ReportReturns
    BY <2>8 DEF ReportReturns, Client!Next
  <2>9. ASSUME NEW r \in Requests, Report(r)
        PROVE  Client!Next
    BY <2>9 DEF Report, Client!Next
  <2>10. CASE UNCHANGED vars
    BY <2>1, <2>10 DEF vars
  <2> QED BY <2>2, <2>3, <2>4, <2>5, <2>6, <2>7, <2>8, <2>9, <2>10 DEF Next
<1> QED BY <1>1, <1>2, PTL DEF Spec, Client!Spec

\* Seen through the transport's variables, the system is the transport.
THEOREM SystemImplementsTransport == Spec => Http!Spec
<1>1. Init => Http!Init
  BY DEF Init
<1>2. [Next]_vars => [Http!Next]_(Http!vars)
  <2> SUFFICES ASSUME [Next]_vars
               PROVE  Http!Next \/ UNCHANGED Http!vars
    OBVIOUS
  <2>1. UNCHANGED transport <=> UNCHANGED Http!vars
    BY DEF transport, Http!vars, Http!curl, Http!events
  <2>2. CASE OnEvTimeoutFlush
    BY <2>2 DEF OnEvTimeoutFlush, Http!Next
  <2>3. CASE OnEvTimeout \/ Calling \/ Recv
    BY <2>1, <2>3 DEF OnEvTimeout, Calling, Recv
  <2>4. CASE Close
    BY <2>4 DEF Close, Http!Next
  <2>5. CASE Drive
    BY <2>5 DEF Drive, Http!Next
  <2>6. CASE ReportReturns
    BY <2>6 DEF ReportReturns, Http!Next
  <2>7. ASSUME NEW r \in Requests, Report(r)
        PROVE  Http!Next
    BY <2>7 DEF Report, Http!Next
  <2>8. CASE UNCHANGED vars
    BY <2>1, <2>8 DEF vars
  <2> QED BY <2>2, <2>3, <2>4, <2>5, <2>6, <2>7, <2>8 DEF Next
<1> QED BY <1>1, <1>2, PTL DEF Spec, Http!Spec

-----------------------------------------------------------------------------
(* The outbox is driven *)

Exchanging == {r \in Requests : conn[r] \in {"alive", "done"}}

\* Unless a request was dropped, the exchanges the client counts as open are
\* the transfers that curl has or has not reported yet.
ExchangesCounted == loop # "faulted" /\ lost = {} => open = Cardinality(Exchanging)

LEMMA FiniteRequests ==
  ASSUME NEW S \in SUBSET Requests
  PROVE  IsFiniteSet(S) /\ Cardinality(S) \in Nat /\ (Cardinality(S) = 0 <=> S = {})
<1>1. IsFiniteSet(Requests)
  BY SystemAssumption DEF Http!TransportAssumption, Http!IsFiniteSet, IsFiniteSet
<1>2. IsFiniteSet(S)
  BY <1>1, FS_Subset
<1> QED BY <1>2, FS_CardinalityType, FS_EmptySet

\* A call into curl reports nothing: a transfer that ends is still open.
LEMMA DriveKeeps ==
  ASSUME HttpProofs!TypeOK, Drive
  PROVE  Exchanging' = Exchanging
<1>1. ASSUME NEW S \in SUBSET Http!Alive, Http!SocketAction(S)
      PROVE  Exchanging' = Exchanging
  <2>1. PICK ended \in SUBSET S :
          conn' = [r \in Requests |-> IF r \in ended THEN "done" ELSE conn[r]]
    BY <1>1 DEF Http!SocketAction
  <2>2. \A r \in ended : conn[r] = "alive"
    BY <1>1 DEF Http!Alive
  <2> QED BY <2>1, <2>2 DEF Exchanging
<1>2. CASE Http!CheckEnds
  BY <1>2 DEF Http!CheckEnds, Exchanging
<1>3. CASE Http!OnEvTimer
  BY <1>1, <1>3 DEF Http!OnEvTimer
<1>4. ASSUME NEW r \in Requests, Http!OnEvEvent(r)
      PROVE  Exchanging' = Exchanging
  <2>1. {r} \cap Http!Alive \in SUBSET Http!Alive /\ Http!SocketAction({r} \cap Http!Alive)
    BY <1>4 DEF Http!OnEvEvent
  <2> QED BY <1>1, <2>1
<1> QED BY <1>2, <1>3, <1>4 DEF Drive

\* A flush opens an exchange with a transfer of its own, or loses it.
LEMMA FlushCounts ==
  ASSUME HttpProofs!TypeOK, ClientProofs!TypeOK, ExchangesCounted, OnEvTimeoutFlush
  PROVE  ExchangesCounted'
<1>1. loop' = loop /\ open' = open + 1 /\ open \in Nat
  BY DEF OnEvTimeoutFlush, Client!OnEvTimeoutFlush, ClientProofs!TypeOK
<1>2. ASSUME NEW r \in Requests, Http!Send(r), lost' = lost
      PROVE  ExchangesCounted'
  <2>1. conn[r] = "free" /\ conn' = [conn EXCEPT ![r] = "alive"]
    BY <1>2 DEF Http!Send
  <2>2. Exchanging' = Exchanging \cup {r} /\ r \notin Exchanging /\ Exchanging \in SUBSET Requests
    BY <2>1 DEF HttpProofs!TypeOK, Exchanging
  <2>3. Cardinality(Exchanging') = Cardinality(Exchanging) + 1
    BY <2>2, FiniteRequests, FS_AddElement
  <2> QED BY <1>1, <1>2, <2>3 DEF ExchangesCounted
<1>3. CASE lost' # {}
  BY <1>3 DEF ExchangesCounted
<1> QED BY <1>2, <1>3 DEF OnEvTimeoutFlush

\* The report of an answer ends one of the client's exchanges.
LEMMA ReportCounts ==
  ASSUME HttpProofs!TypeOK, ClientProofs!TypeOK, ExchangesCounted,
         NEW r \in Requests, Report(r)
  PROVE  ExchangesCounted'
<1>1. conn[r] = "done" /\ conn' = [conn EXCEPT ![r] = "reported"] /\ lost' = lost
  BY DEF Report, Http!Report
<1>2. CASE Client!ExchangeFails
  BY <1>2 DEF Client!ExchangeFails, ExchangesCounted
<1>3. CASE Client!BatchBegins
  <2>1. loop = "idle" /\ open' = open - 1 /\ open \in Nat
    BY <1>3 DEF Client!BatchBegins, ClientProofs!TypeOK
  <2>2. Exchanging' = Exchanging \ {r} /\ r \in Exchanging /\ Exchanging \in SUBSET Requests
    BY <1>1 DEF HttpProofs!TypeOK, Exchanging
  <2>3. Cardinality(Exchanging') = Cardinality(Exchanging) - 1
    BY <2>2, FiniteRequests, FS_RemoveElement
  <2> QED BY <1>1, <2>1, <2>3 DEF ExchangesCounted
<1> QED BY <1>2, <1>3 DEF Report

LEMMA CountInvariance == Spec => []ExchangesCounted
<1>1. Init => ExchangesCounted
  <2> SUFFICES ASSUME Init
               PROVE  open = Cardinality(Exchanging)
    BY DEF ExchangesCounted
  <2>1. open = 0 /\ Exchanging = {}
    BY DEF Init, Client!Init, Http!Init, Exchanging
  <2> QED BY <2>1, FiniteRequests
<1>2. /\ HttpProofs!TypeOK /\ ClientProofs!TypeOK /\ ExchangesCounted /\ [Next]_vars
      => ExchangesCounted'
  <2> SUFFICES ASSUME HttpProofs!TypeOK, ClientProofs!TypeOK, ExchangesCounted, [Next]_vars
               PROVE  ExchangesCounted'
    OBVIOUS
  <2>1. ASSUME open' = open, conn' = conn, lost' = lost, loop' = "faulted" <=> loop = "faulted"
        PROVE  ExchangesCounted'
    BY <2>1 DEF ExchangesCounted, Exchanging
  <2>2. CASE OnEvTimeout
    BY <2>1, <2>2 DEF OnEvTimeout, Client!OnEvTimeoutConnect, Client!OnEvTimeoutHandshake, transport
  <2>3. CASE Calling
    BY <2>1, <2>3
    DEF Calling, Client!Publish, Client!Subscribe, Client!Unsubscribe, Client!Enqueue, transport
  <2>4. CASE Close
    <3>1. open' = 0 /\ Exchanging' = {}
      BY <2>4 DEF Close, Client!Destroy, Http!Destroy, Exchanging
    <3> QED BY <3>1, FiniteRequests DEF ExchangesCounted
  <2>5. CASE Drive
    <3>1. open' = open /\ loop' = loop /\ lost' = lost
      BY <2>5 DEF Drive, client
    <3> QED BY <2>5, <3>1, DriveKeeps DEF ExchangesCounted
  <2>6. CASE Recv
    <3>1. open' = open /\ loop # "faulted" /\ loop' # "faulted"
      BY <2>6
      DEF Recv, Client!Recv, Client!RecvConnect, Client!RecvHandshake, Client!RecvAck,
          Client!RecvUnknown, Client!RecvEvent, Client!AdviceOnly, Client!Answers,
          Client!CallbackReturns
    <3> QED BY <2>1, <2>6, <3>1 DEF Recv, transport
  <2>7. CASE ReportReturns
    <3>1. open' = open /\ loop = "batch" /\ loop' = "idle" /\ lost' = lost
      BY <2>7 DEF ReportReturns, Client!BatchEnds
    <3>2. Exchanging' = Exchanging
      BY <2>7 DEF ReportReturns, Http!ReportReturns, Http!Reported, HttpProofs!TypeOK, Exchanging
    <3> QED BY <3>1, <3>2 DEF ExchangesCounted
  <2>8. CASE UNCHANGED vars
    BY <2>1, <2>8 DEF vars, client, transport
  <2> QED BY <2>2, <2>3, <2>4, <2>5, <2>6, <2>7, <2>8, FlushCounts, ReportCounts DEF Next
<1>3. Spec => []HttpProofs!TypeOK
  BY SystemImplementsTransport, SameHttp, SameAssumptions, HttpProofs!TypeCorrect, PTL
<1>4. Spec => []ClientProofs!TypeOK
  BY SystemImplementsClient, SameClient, SameAssumptions, ClientProofs!TypeCorrect, PTL
<1> QED BY <1>1, <1>2, <1>3, <1>4, PTL DEF Spec

\* While the thread is in the event loop, a message in the outbox has the
\* client's flush timer pending, or a transfer under way for which an event is
\* registered or the transport's timer pending, unless a request was dropped.
THEOREM OutboxDrivenEndToEnd == Spec => []OutboxDriven
<1>1. /\ ClientProofs!OutboxDriven /\ ClientProofs!TypeOK /\ ExchangesCounted
      /\ HttpProofs!NothingLeftUnread /\ HttpProofs!TransferHasWakeup
      => OutboxDriven
  <2> SUFFICES ASSUME ClientProofs!OutboxDriven, ClientProofs!TypeOK, ExchangesCounted,
                      HttpProofs!NothingLeftUnread, HttpProofs!TransferHasWakeup,
                      thread = "idle", loop = "idle", outbox.count > 0, lost = {},
                      ~ev_timeout_flush
               PROVE  \E r \in Requests :
                        /\ conn[r] = "alive"
                        /\ ev_timer \/ \E what \in Watches : <<r, what>> \in registered
    BY DEF OutboxDriven
  <2>1. open # 0
    BY DEF ClientProofs!OutboxDriven
  <2>2. Exchanging # {}
    BY <2>1, FiniteRequests DEF ExchangesCounted
  <2>3. PICK r \in Requests : conn[r] \in {"alive", "done"}
    BY <2>2 DEF Exchanging
  <2>4. conn[r] = "alive"
    BY <2>3 DEF HttpProofs!NothingLeftUnread
  <2> QED BY <2>4 DEF HttpProofs!TransferHasWakeup, HttpProofs!Alive
<1>2. Spec => [](HttpProofs!NothingLeftUnread /\ HttpProofs!TransferHasWakeup)
  BY SystemImplementsTransport, SameHttp, SameAssumptions, HttpProofs!AnswersRead,
     HttpProofs!TransfersDriven, PTL
<1>3. Spec => [](ClientProofs!OutboxDriven /\ ClientProofs!TypeOK)
  BY SystemImplementsClient, SameClient, SameAssumptions, ClientProofs!TypeCorrect,
     ClientProofs!OutboxStaysDriven, PTL
<1> QED BY <1>1, <1>2, <1>3, CountInvariance, PTL
=============================================================================
