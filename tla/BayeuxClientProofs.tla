------------------------- MODULE BayeuxClientProofs -------------------------
(***************************************************************************)
(* Theorems about BayeuxClient, for every value of its constants.          *)
(*                                                                         *)
(* The queue lemmas of MsgQueueProofs describe what each operation does to *)
(* a slot; the proofs here follow the actions, one step per action, and    *)
(* cite those lemmas.                                                      *)
(***************************************************************************)
EXTENDS BayeuxClient, MsgQueueProofs

-----------------------------------------------------------------------------
(* New messages *)

\* There is always an object that no slot refers to: written slots refer to at
\* most that many.
LEMMA FreshObject ==
  ASSUME NEW q, IsQueue(q, Objects, Types)
  PROVE  /\ Fresh(q) \in Nat
         /\ ObjectsApart => \A i \in 0 .. q.written - 1 : q.msgs[i].object # Fresh(q)
<1> DEFINE slots == 0 .. q.written - 1
           used == {q.msgs[i].object : i \in slots}
           free(n) == \A i \in slots : q.msgs[i].object # n
<1>1. q.written \in Nat
  BY QueueParts
<1>2. IsFiniteSet(slots) /\ Cardinality(slots) = q.written
  <2>1. 0 \in Int /\ q.written - 1 \in Int
    BY <1>1
  <2>2. /\ IsFiniteSet(slots)
        /\ Cardinality(slots) = IF 0 > q.written - 1 THEN 0 ELSE q.written - 1 - 0 + 1
    BY <2>1, FS_Interval, Zenon
  <2> QED BY <1>1, <2>2
<1>3. IsFiniteSet(used) /\ Cardinality(used) <= q.written
  <2> DEFINE f == [i \in slots |-> q.msgs[i].object]
  <2>1. f \in Surjection(slots, used)
    BY DEF Surjection
  <2> HIDE DEF f, used, slots
  <2>2. IsFiniteSet(used) /\ Cardinality(used) <= Cardinality(slots)
    BY <1>2, <2>1, FS_Surjection
  <2> QED BY <1>2, <2>2
<1>4. IsFiniteSet(0 .. q.written) /\ Cardinality(0 .. q.written) = q.written + 1
  <2>1. /\ IsFiniteSet(0 .. q.written)
        /\ Cardinality(0 .. q.written) = IF 0 > q.written THEN 0 ELSE q.written - 0 + 1
    BY <1>1, FS_Interval
  <2> QED BY <1>1, <2>1
<1>5. PICK n \in 0 .. q.written : n \notin used
  <2> SUFFICES ASSUME 0 .. q.written \subseteq used PROVE FALSE
    OBVIOUS
  <2>1. Cardinality(0 .. q.written) <= Cardinality(used)
    BY <1>3, FS_Subset
  <2>2. Cardinality(used) \in Nat
    BY <1>3, FS_CardinalityType
  <2> QED BY <1>1, <1>3, <1>4, <2>1, <2>2
<1>6. free(n)
  BY <1>5
<1>7. /\ ObjectsApart => Fresh(q) = CHOOSE k \in 0 .. q.written : free(k)
      /\ ~ObjectsApart => Fresh(q) = 0
  BY DEF Fresh
<1> HIDE DEF free
<1>8. ObjectsApart => Fresh(q) \in 0 .. q.written /\ free(Fresh(q))
  BY <1>5, <1>6, <1>7
<1> QED BY <1>1, <1>7, <1>8 DEF free

\* Pushing a new message gives a queue again.
LEMMA NewType ==
  ASSUME NEW q, IsQueue(q, Objects, Types), NEW type \in Types
  PROVE  IsQueue(PushNew(q, type), Objects, Types)
<1>1. [type |-> type, object |-> Fresh(q)] \in Objects
  BY FreshObject DEF Objects
<1> QED BY <1>1, PushType DEF PushNew

\* The slots after pushing a new message.
LEMMA NewSlots ==
  ASSUME NEW q, IsQueue(q, Objects, Types), NEW type \in Types
  PROVE  LET p == PushNew(q, type)
         IN  /\ p.count = q.count + 1
             /\ p.written \in {q.written, q.written + 1}
             /\ q.count < p.written
             /\ p.msgs[q.count].type = type /\ p.funcs[q.count] = type
             /\ p.msg_ids[q.count] = MSG_ID_INVALID
             /\ p.batch_ids[q.count] = BATCH_ID_INVALID
             /\ \A i \in 0 .. q.written - 1 : i # q.count =>
                  /\ p.msgs[i] = q.msgs[i] /\ p.funcs[i] = q.funcs[i]
                  /\ p.msg_ids[i] = q.msg_ids[i] /\ p.batch_ids[i] = q.batch_ids[i]
             /\ Live(p) = Live(q) \cup {q.count}
<1> DEFINE m == [type |-> type, object |-> Fresh(q)]
<1>1. m \in Objects /\ m.type = type
  BY FreshObject DEF Objects
<1> HIDE DEF m
<1>2. PushNew(q, type) = Push(q, m, type)
  BY DEF PushNew, m
<1> QED BY <1>1, <1>2, PushSlots

-----------------------------------------------------------------------------
(* Type correctness *)

\* What issue_connect and issue_handshake leave in the outbox is a queue,
\* which is no shorter and has the handshake, if there is one, in the slot
\* that IssueHandshake notes.
LEMMA WithHandshakeType ==
  ASSUME IsQueue(outbox, Objects, Types)
  PROVE  /\ IsQueue(WithHandshake, Objects, Types)
         /\ WithHandshake.written \in {outbox.written, outbox.written + 1}
         /\ HandshakeDue => outbox.count < WithHandshake.written
<1>1. "handshake" \in Types
  BY DEF Types
<1> QED
  BY <1>1, NewType, NewSlots DEF WithHandshake, PushIf

\* The same of issue_connect.
LEMMA WithConnectType ==
  ASSUME IsQueue(outbox, Objects, Types)
  PROVE  /\ IsQueue(WithConnect, Objects, Types)
         /\ outbox.written <= WithConnect.written
         /\ HandshakeDue => outbox.count < WithConnect.written
<1>1. "connect" \in Types
  BY DEF Types
<1>2. /\ IsQueue(WithHandshake, Objects, Types)
      /\ WithHandshake.written \in {outbox.written, outbox.written + 1}
      /\ HandshakeDue => outbox.count < WithHandshake.written
  BY WithHandshakeType
<1>3. WithConnect.written \in {WithHandshake.written, WithHandshake.written + 1}
  BY <1>1, <1>2, NewSlots DEF WithConnect, PushIf
<1>4. IsQueue(WithConnect, Objects, Types)
  BY <1>1, <1>2, NewType DEF WithConnect, PushIf
<1>5. outbox.written \in Nat /\ outbox.count \in Nat /\ WithHandshake.written \in Nat
  BY <1>2, QueueParts
<1> QED BY <1>2, <1>3, <1>4, <1>5

\* The slots of a flush exist, and there are finitely many.
LEMMA OutgoingType ==
  ASSUME TypeOK
  PROVE  /\ Outgoing \in SUBSET (0 .. outbox.written - 1)
         /\ Outgoing \in SUBSET Int
         /\ IsFiniteSet(Outgoing)
         /\ Cardinality(Outgoing) \in Nat
<1>1. outbox.written \in Nat /\ Live(outbox) \subseteq 0 .. outbox.written - 1
  BY QueueParts DEF TypeOK
<1>2. Outgoing \in SUBSET (0 .. outbox.written - 1)
  BY <1>1 DEF TypeOK, Outgoing, Unsent
<1>3. IsFiniteSet(0 .. outbox.written - 1)
  BY <1>1, FS_Interval
<1>4. IsFiniteSet(Outgoing)
  BY <1>2, <1>3, FS_Subset
<1>5. Cardinality(Outgoing) \in Nat
  BY <1>4, FS_CardinalityType
<1> QED BY <1>1, <1>2, <1>4, <1>5

\* A reply removes a live slot and its message from the wire.
LEMMA AnswersType ==
  ASSUME TypeOK, NEW e, NEW func, Answers(e, func)
  PROVE  /\ IsQueue(outbox', Objects, Types)
         /\ outbox.written' = outbox.written
         /\ wire' \subseteq Envelopes
<1> DEFINE at == FindByMsgId(outbox, e.id)
<1>1. IsQueue(outbox, Objects, Types)
  BY DEF TypeOK
<1>2. at \in Live(outbox)
  BY <1>1, FindType DEF Answers
<1>3. outbox' = RemoveOrdered(outbox, at)
  BY DEF Answers
<1>4. IsQueue(outbox', Objects, Types) /\ outbox.written' = outbox.written
  BY <1>1, <1>2, <1>3, RemoveType, RemoveSlots
<1> QED BY <1>4 DEF Answers, TypeOK

\* A flush keeps the queue, its ids and its envelopes well typed.
LEMMA FlushType ==
  ASSUME TypeOK, OnEvTimeoutFlush
  PROVE  /\ IsQueue(outbox', Objects, Types)
         /\ outbox.written' = outbox.written
         /\ message_id' \in 0 .. MSG_ID_INVALID - 1
         /\ batch_id' \in 0 .. BATCH_ID_INVALID - 1
         /\ wire' \subseteq Envelopes
<1>1. /\ IsQueue(outbox, Objects, Types)
      /\ message_id \in Nat /\ batch_id \in Nat /\ batch_id \in 0 .. BATCH_ID_INVALID
      /\ MSG_ID_INVALID \in Nat \ {0} /\ BATCH_ID_INVALID \in Nat \ {0}
  BY QueueAssumption DEF TypeOK
<1>2. /\ outbox' = AssignIds(outbox, Outgoing, message_id, batch_id)
      /\ message_id' = IdAfter(message_id, Cardinality(Outgoing), MSG_ID_INVALID)
      /\ batch_id' \in {batch_id, IdAfter(batch_id, 1, BATCH_ID_INVALID)}
      /\ wire' = wire \cup {EnvelopeOf(i) : i \in Outgoing}
  BY DEF OnEvTimeoutFlush
<1>3. IsQueue(outbox', Objects, Types) /\ outbox.written' = outbox.written
  <2>1. Outgoing \in SUBSET (0 .. outbox.written - 1)
    BY OutgoingType
  <2>2. IsQueue(outbox', Objects, Types)
    BY <1>1, <1>2, <2>1, AssignType
  <2>3. outbox'.written = outbox.written
    BY <1>2 DEF AssignIds, WithIds
  <2> QED BY <2>2, <2>3
<1>4. message_id' \in 0 .. MSG_ID_INVALID - 1
  BY <1>1, <1>2, OutgoingType, IdAfterType
<1>5. batch_id' \in 0 .. BATCH_ID_INVALID - 1
  <2>1. IdAfter(batch_id, 1, BATCH_ID_INVALID) \in 0 .. BATCH_ID_INVALID - 1
    BY <1>1, IdAfterType
  <2>2. batch_id \in 0 .. BATCH_ID_INVALID - 1
    BY DEF TypeOK
  <2> QED BY <1>2, <2>1, <2>2
<1>6. ASSUME NEW i \in Outgoing
      PROVE  EnvelopeOf(i) \in Envelopes
  <2>1. Rank(Outgoing, i) \in Nat
    BY OutgoingType, RankType
  <2>2. IdAfter(message_id, Rank(Outgoing, i), MSG_ID_INVALID) \in 0 .. MSG_ID_INVALID - 1
    BY <1>1, <2>1, IdAfterType
  <2>3. outbox.msgs[i].type \in Types
    <3>1. outbox.msgs[i] \in Objects
      BY <1>1, OutgoingType, QueueParts
    <3> QED BY <3>1 DEF Objects
  <2>4. id \in ClientIds \cup {NULL}
    BY DEF TypeOK
  <2> QED BY <2>2, <2>3, <2>4 DEF EnvelopeOf, Envelopes
<1> QED
  BY <1>2, <1>3, <1>4, <1>5, <1>6 DEF TypeOK

\* The variables have their types: in particular handshake_msg_index is
\* always -1 or a slot that has been initialised, and the counters never take
\* the invalid id.
THEOREM TypeCorrect == Spec => []TypeOK
<1>1. Init => TypeOK
  <2>1. IsQueue(EmptyQueue, Objects, Types) /\ EmptyQueue.written = 0
    BY EmptyQueueType DEF EmptyQueue
  <2>2. /\ 0 \in 0 .. MSG_ID_INVALID - 1 /\ 0 \in 0 .. BATCH_ID_INVALID - 1
        /\ -1 \in -1 .. EmptyQueue.written - 1 /\ 0 \in Nat
    BY <2>1, QueueAssumption
  <2> SUFFICES ASSUME Init PROVE TypeOK
    OBVIOUS
  <2>3. outbox = EmptyQueue
    BY DEF Init
  <2> QED
    BY <2>1, <2>2, <2>3 DEF Init, TypeOK, Reconnects
<1>2. TypeOK /\ [Next]_vars => TypeOK'
  <2> SUFFICES ASSUME TypeOK, [Next]_vars PROVE TypeOK'
    OBVIOUS
  <2> USE DEF TypeOK, session, counters, timers
  <2>0. outbox.written \in Nat /\ outbox.count \in Nat
    BY QueueParts
  <2>1. ASSUME NEW type, Enqueue(type), channels' \subseteq Channels
        PROVE  TypeOK'
    <3>1. type \in Types
      BY <2>1, ClientAssumption DEF Enqueue, Types
    <3>2. /\ IsQueue(outbox', Objects, Types)
          /\ WithConnect.written <= outbox.written'
          /\ WithConnect.written \in Nat
      <4>1. outbox' = PushNew(WithConnect, type) /\ IsQueue(WithConnect, Objects, Types)
        BY <2>1, WithConnectType DEF Enqueue
      <4>2. IsQueue(outbox', Objects, Types)
        BY <3>1, <4>1, NewType
      <4>3. outbox'.written \in {WithConnect.written, WithConnect.written + 1}
        BY <3>1, <4>1, NewSlots
      <4>4. WithConnect.written \in Nat
        BY <4>1, QueueParts
      <4> QED BY <4>2, <4>3, <4>4
    <3>3. handshake_msg_index' \in -1 .. outbox.written' - 1
      BY <2>0, <2>1, <3>2, WithConnectType, QueueParts DEF Enqueue, IssueConnect, IssueHandshake
    <3> QED
      BY <2>1, <3>2, <3>3 DEF Enqueue, IssueConnect, IssueHandshake, ConnectDue
  <2>2. CASE Publish
    BY <2>1, <2>2 DEF Publish
  <2>3. CASE \E channel \in Channels : Subscribe(channel)
    BY <2>1, <2>3 DEF Subscribe
  <2>4. CASE Unsubscribe
    BY <2>1, <2>4 DEF Unsubscribe
  <2>5. CASE Destroy
    <3>1. IsQueue(DestroyedQueue, Objects, Types) /\ DestroyedQueue.written = 0
      BY EmptyQueueType DEF DestroyedQueue, EmptyQueue
    <3>2. IsQueue(outbox', Objects, Types) /\ outbox.written' = 0
      BY <2>5, <3>1 DEF Destroy
    <3>3. handshake_msg_index' \in -1 .. outbox.written' - 1
      BY <2>5, <3>2 DEF Destroy
    <3> QED BY <2>5, <3>2, <3>3 DEF Destroy
  <2>6. CASE OnEvTimeoutConnect
    <3>1. handshake_msg_index' \in -1 .. outbox.written' - 1
      BY <2>0, <2>6, WithConnectType, QueueParts DEF OnEvTimeoutConnect, IssueConnect, IssueHandshake
    <3> QED
      BY <2>6, <3>1, WithConnectType DEF OnEvTimeoutConnect, IssueConnect, IssueHandshake, ConnectDue,
         HandshakeDue
  <2>7. CASE OnEvTimeoutHandshake
    <3>1. handshake_msg_index' \in -1 .. outbox.written' - 1
      BY <2>0, <2>7, WithHandshakeType, QueueParts DEF OnEvTimeoutHandshake, IssueHandshake
    <3> QED
      BY <2>7, <3>1, WithHandshakeType DEF OnEvTimeoutHandshake, IssueHandshake, HandshakeDue
  <2>8. CASE OnEvTimeoutFlush
    <3>1. /\ open' = open + 1 /\ ev_timeout_flush' = FALSE
          /\ state' = state /\ reconnect' = reconnect /\ id' = id
          /\ handshake_msg_index' = handshake_msg_index
          /\ connect_msg_in_flight' = connect_msg_in_flight /\ channels' = channels
          /\ ev_timeout_connect' = ev_timeout_connect
          /\ ev_timeout_handshake' = ev_timeout_handshake /\ loop' = loop
      BY <2>8 DEF OnEvTimeoutFlush
    <3>2. handshake_msg_index' \in -1 .. outbox.written' - 1
      BY <2>8, <3>1, FlushType
    <3> HIDE DEF TypeOK
    <3>3. TypeOK
      OBVIOUS
    <3>4. /\ IsQueue(outbox', Objects, Types)
          /\ message_id' \in 0 .. MSG_ID_INVALID - 1
          /\ batch_id' \in 0 .. BATCH_ID_INVALID - 1
          /\ wire' \subseteq Envelopes
      BY <2>8, <3>3, FlushType
    <3>5. open' \in Nat
      BY <3>1, <3>3 DEF TypeOK
    <3> QED BY <3>1, <3>2, <3>3, <3>4, <3>5 DEF TypeOK
  <2>9. CASE BatchBegins
    BY <2>9 DEF BatchBegins
  <2>10. CASE BatchEnds
    BY <2>10 DEF BatchEnds
  <2>11. CASE ExchangeFails
    BY <2>11 DEF ExchangeFails
  <2>12. CASE CallbackReturns
    BY <2>12 DEF CallbackReturns
  <2>13. ASSUME NEW advice \in Advices \cup {"absent"}
         PROVE  Advised(advice) \in Reconnects
                /\ StateAdvised(advice) \in {"UNCONNECTED", "CONNECTING", "CONNECTED"}
                /\ StartOver(advice) \in BOOLEAN
    BY <2>13, ClientAssumption DEF Advised, StateAdvised, StartOver
  <2>14. ASSUME NEW advice \in Advices \cup {"absent"}, NEW e \in Answerable, RecvConnect(e, advice)
         PROVE  TypeOK'
    BY <2>13, <2>14, AnswersType DEF RecvConnect
  <2>15. ASSUME NEW advice \in Advices \cup {"absent"}, NEW e \in Answerable,
                NEW outcome \in HandshakeOutcomes, RecvHandshake(e, advice, outcome)
         PROVE  TypeOK'
    <3>1. /\ Answers(e, "handshake")
          /\ reconnect' = Advised(advice)
          /\ handshake_msg_index' = -1
          /\ state' \in {"CONNECTED", "UNCONNECTED", StateAdvised(advice)}
          /\ id' \in ClientIds \cup {id}
          /\ ev_timeout_handshake' \in {TRUE, ev_timeout_handshake}
          /\ ev_timeout_connect' = (ev_timeout_connect \/ StartOver(advice))
          /\ UNCHANGED <<counters, connect_msg_in_flight, channels, ev_timeout_flush, loop, open>>
      BY <2>15 DEF RecvHandshake
    <3>2. handshake_msg_index' \in -1 .. outbox.written' - 1
      BY <2>0, <3>1, AnswersType
    <3> QED BY <2>13, <3>1, <3>2, AnswersType
  <2>16. ASSUME NEW advice \in Advices \cup {"absent"}, NEW e \in Answerable, RecvAck(e, advice)
         PROVE  TypeOK'
    BY <2>13, <2>16, AnswersType DEF RecvAck
  <2>17. ASSUME NEW advice \in Advices \cup {"absent"}, NEW e \in Answerable, RecvUnknown(e, advice)
         PROVE  TypeOK'
    BY <2>13, <2>17 DEF RecvUnknown, AdviceOnly
  <2>18. ASSUME NEW advice \in Advices \cup {"absent"}, NEW channel \in Channels,
                RecvEvent(channel, advice)
         PROVE  TypeOK'
    BY <2>13, <2>18 DEF RecvEvent, AdviceOnly
  <2>19. CASE UNCHANGED vars
    BY <2>19 DEF vars
  <2> QED
    BY <2>2, <2>3, <2>4, <2>5, <2>6, <2>7, <2>8, <2>9, <2>10, <2>11, <2>12, <2>14, <2>15, <2>16,
       <2>17, <2>18, <2>19 DEF Next, Application, Recv
<1> QED
  BY <1>1, <1>2, PTL DEF Spec

-----------------------------------------------------------------------------
(* One long poll *)

Connects(q) == {i \in Live(q) : q.funcs[i] = "connect"}

\* Only pushing a connect adds one.
LEMMA PushConnects ==
  ASSUME NEW q, IsQueue(q, Objects, Types), NEW type \in Types
  PROVE  Connects(PushNew(q, type)) =
           IF type = "connect" THEN Connects(q) \cup {q.count} ELSE Connects(q)
<1> DEFINE p == PushNew(q, type)
<1>1. /\ Live(p) = Live(q) \cup {q.count} /\ p.funcs[q.count] = type
      /\ \A i \in 0 .. q.written - 1 : i # q.count => p.funcs[i] = q.funcs[i]
  BY NewSlots
<1>2. /\ Live(q) \subseteq 0 .. q.written - 1 /\ q.count \in Nat
      /\ \A i \in Live(q) : i # q.count
  BY QueueParts DEF Live
<1>3. \A i \in Live(q) : p.funcs[i] = q.funcs[i]
  BY <1>1, <1>2
<1> HIDE DEF p
<1>4. Connects(p) = IF type = "connect" THEN Connects(q) \cup {q.count} ELSE Connects(q)
  BY <1>1, <1>2, <1>3 DEF Connects
<1> QED BY <1>4 DEF p

\* Removing the only connect leaves none; removing another message leaves as
\* many connects as there were.
LEMMA RemoveConnects ==
  ASSUME NEW q, IsQueue(q, Objects, Types), NEW r \in Live(q),
         \A i, j \in Connects(q) : i = j
  PROVE  LET p == RemoveOrdered(q, r)
         IN  /\ \A i, j \in Connects(p) : i = j
             /\ q.funcs[r] = "connect" => Connects(p) = {}
             /\ q.funcs[r] # "connect" => (Connects(p) = {} <=> Connects(q) = {})
<1> DEFINE p == RemoveOrdered(q, r)
           from(i) == IF r <= i THEN i + 1 ELSE i
<1>1. /\ q.count \in Nat /\ q.written \in Nat /\ q.count <= q.written
      /\ r \in 0 .. q.count - 1
  BY QueueParts DEF Live
<1>2. /\ p.count = q.count - 1
      /\ \A i \in 0 .. q.count - 2 : p.funcs[i] = q.funcs[from(i)]
  BY <1>1, RemoveSlots
<1> HIDE DEF p
<1>3. Connects(p) = {i \in 0 .. q.count - 2 : q.funcs[from(i)] = "connect"}
  BY <1>1, <1>2 DEF Connects, Live
<1>4. \A i \in Connects(p) : from(i) \in Connects(q) /\ from(i) # r
  BY <1>1, <1>3 DEF Connects, Live
<1>5. \A i, j \in Connects(p) : i = j
  <2> SUFFICES ASSUME NEW i \in Connects(p), NEW j \in Connects(p) PROVE i = j
    OBVIOUS
  <2>1. from(i) = from(j)
    BY <1>4
  <2> QED BY <1>1, <1>3, <2>1
<1>6. q.funcs[r] = "connect" => Connects(p) = {}
  BY <1>4 DEF Connects
<1>7. ASSUME q.funcs[r] # "connect", NEW k \in Connects(q)
      PROVE  Connects(p) # {}
  <2>1. k \in 0 .. q.count - 1 /\ q.funcs[k] = "connect" /\ k # r
    BY <1>7 DEF Connects, Live
  <2>2. CASE k < r
    <3>1. k \in Connects(p)
      BY <1>1, <1>3, <2>1, <2>2
    <3> QED BY <3>1
  <2>3. CASE k > r
    <3>1. k - 1 \in Connects(p)
      BY <1>1, <1>3, <2>1, <2>3
    <3> QED BY <3>1
  <2> QED BY <1>1, <2>1, <2>2, <2>3
<1> QED BY <1>4, <1>5, <1>6, <1>7 DEF p

\* SingleConnect in terms of the queue alone.
LEMMA SingleConnectDef ==
  SingleConnect <=> /\ connect_msg_in_flight <=> Connects(outbox) # {}
                    /\ \A i, j \in Connects(outbox) : i = j
BY DEF SingleConnect, LiveConnects, Connects

\* issue_connect queues a connect only when there is none.
LEMMA IssueConnects ==
  ASSUME TypeOK, SingleConnect
  PROVE  /\ Connects(WithHandshake) = Connects(outbox)
         /\ Connects(WithConnect) # {} <=> connect_msg_in_flight \/ ConnectDue
         /\ \A i, j \in Connects(WithConnect) : i = j
<1>1. IsQueue(outbox, Objects, Types) /\ IsQueue(WithHandshake, Objects, Types)
  BY WithHandshakeType DEF TypeOK
<1>2. Connects(WithHandshake) = Connects(outbox)
  BY <1>1, PushConnects DEF WithHandshake, PushIf, Types
<1>3. CASE ConnectDue
  <2>1. Connects(outbox) = {}
    BY <1>3, SingleConnectDef DEF ConnectDue
  <2>2. Connects(WithConnect) = {WithHandshake.count}
    BY <1>1, <1>2, <1>3, <2>1, PushConnects DEF WithConnect, PushIf, Types
  <2> QED BY <1>2, <1>3, <2>2
<1>4. CASE ~ConnectDue
  <2>1. WithConnect = WithHandshake
    BY <1>4 DEF WithConnect, PushIf
  <2> QED BY <1>2, <1>4, <2>1, SingleConnectDef
<1> QED BY <1>3, <1>4

\* There is one connect in the outbox when connect_msg_in_flight is set, and
\* none when it is not: the client never holds two long polls open.
THEOREM OneConnect == Spec => []SingleConnect
<1>1. Init => SingleConnect
  <2> SUFFICES ASSUME Init PROVE SingleConnect
    OBVIOUS
  <2>1. outbox.count = 0 /\ connect_msg_in_flight = FALSE
    BY DEF Init, EmptyQueue
  <2>2. Connects(outbox) = {}
    BY <2>1 DEF Connects, Live
  <2> QED BY <2>1, <2>2, SingleConnectDef
<1>2. TypeOK /\ SingleConnect /\ [Next]_vars => SingleConnect'
  <2> SUFFICES ASSUME TypeOK, SingleConnect, [Next]_vars PROVE SingleConnect'
    OBVIOUS
  <2>0. IsQueue(outbox, Objects, Types)
    BY DEF TypeOK
  <2>1. ASSUME connect_msg_in_flight' <=> Connects(outbox') # {},
               \A i, j \in Connects(outbox') : i = j
        PROVE  SingleConnect'
    BY <2>1 DEF SingleConnect, LiveConnects, Connects
  <2>2. ASSUME Connects(outbox') = Connects(outbox), connect_msg_in_flight' = connect_msg_in_flight
        PROVE  SingleConnect'
    BY <2>1, <2>2, SingleConnectDef
  <2>3. ASSUME NEW type, Enqueue(type) PROVE SingleConnect'
    <3>1. type \in Types /\ type # "connect"
      BY <2>3, ClientAssumption DEF Enqueue, Types, CallTypes
    <3>2. outbox' = PushNew(WithConnect, type) /\ IsQueue(WithConnect, Objects, Types)
      BY <2>0, <2>3, WithConnectType DEF Enqueue
    <3>3. Connects(outbox') = Connects(WithConnect)
      BY <3>1, <3>2, PushConnects
    <3>4. connect_msg_in_flight' = (connect_msg_in_flight \/ ConnectDue)
      BY <2>3 DEF Enqueue, IssueConnect
    <3> QED BY <2>1, <3>3, <3>4, IssueConnects
  <2>4. CASE Publish
    BY <2>3, <2>4 DEF Publish
  <2>5. CASE \E channel \in Channels : Subscribe(channel)
    BY <2>3, <2>5 DEF Subscribe
  <2>6. CASE Unsubscribe
    BY <2>3, <2>6 DEF Unsubscribe
  <2>7. CASE Destroy
    <3>1. outbox'.count = 0 /\ connect_msg_in_flight' = FALSE
      BY <2>7 DEF Destroy, DestroyedQueue, EmptyQueue
    <3>2. Connects(outbox') = {}
      BY <3>1 DEF Connects, Live
    <3> QED BY <2>1, <3>1, <3>2
  <2>8. CASE OnEvTimeoutConnect
    <3>1. outbox' = WithConnect /\ connect_msg_in_flight' = (connect_msg_in_flight \/ ConnectDue)
      BY <2>8 DEF OnEvTimeoutConnect, IssueConnect
    <3> QED BY <2>1, <3>1, IssueConnects
  <2>9. CASE OnEvTimeoutHandshake
    <3>1. outbox' = WithHandshake /\ connect_msg_in_flight' = connect_msg_in_flight
      BY <2>9 DEF OnEvTimeoutHandshake
    <3> QED BY <2>2, <3>1, IssueConnects
  <2>10. CASE OnEvTimeoutFlush
    <3>1. /\ outbox' = AssignIds(outbox, Outgoing, message_id, batch_id)
          /\ connect_msg_in_flight' = connect_msg_in_flight
      BY <2>10 DEF OnEvTimeoutFlush, session
    <3>2. outbox'.funcs = outbox.funcs /\ Live(outbox') = Live(outbox)
      BY <3>1 DEF AssignIds, WithIds, Live
    <3>3. Connects(outbox') = Connects(outbox)
      BY <3>2 DEF Connects
    <3> QED BY <2>2, <3>1, <3>3
  <2>11. ASSUME NEW e \in Answerable, NEW func, Answers(e, func)
         PROVE  /\ \A i, j \in Connects(outbox') : i = j
                /\ func = "connect" => Connects(outbox') = {}
                /\ func # "connect" => (Connects(outbox') = {} <=> Connects(outbox) = {})
    <3> DEFINE at == FindByMsgId(outbox, e.id)
    <3>1. at \in Live(outbox) /\ outbox.funcs[at] = func /\ outbox' = RemoveOrdered(outbox, at)
      BY <2>0, <2>11, FindType DEF Answers
    <3>2. \A i, j \in Connects(outbox) : i = j
      BY SingleConnectDef
    <3> HIDE DEF at
    <3> QED BY <2>0, <3>1, <3>2, RemoveConnects
  <2>12. ASSUME NEW advice, NEW e \in Answerable, RecvConnect(e, advice)
         PROVE  SingleConnect'
    <3>1. Answers(e, "connect") /\ connect_msg_in_flight' = FALSE
      BY <2>12 DEF RecvConnect
    <3>2. Connects(outbox') = {}
      BY <2>11, <3>1
    <3> QED BY <2>1, <3>1, <3>2
  <2>13. ASSUME NEW e \in Answerable, NEW func, func # "connect", Answers(e, func),
                connect_msg_in_flight' = connect_msg_in_flight
         PROVE  SingleConnect'
    BY <2>1, <2>11, <2>13, SingleConnectDef
  <2>14. ASSUME NEW advice, NEW e \in Answerable, NEW outcome, RecvHandshake(e, advice, outcome)
         PROVE  SingleConnect'
    <3>1. Answers(e, "handshake") /\ connect_msg_in_flight' = connect_msg_in_flight
      BY <2>14 DEF RecvHandshake
    <3> QED BY <2>13, <3>1
  <2>15. ASSUME NEW advice, NEW e \in Answerable, RecvAck(e, advice)
         PROVE  SingleConnect'
    <3>1. PICK func \in CallTypes : Answers(e, func)
      BY <2>15 DEF RecvAck
    <3>2. connect_msg_in_flight' = connect_msg_in_flight /\ func # "connect"
      BY <2>15 DEF RecvAck, CallTypes
    <3> QED BY <2>13, <3>1, <3>2
  <2>16. ASSUME outbox' = outbox, connect_msg_in_flight' = connect_msg_in_flight
         PROVE  SingleConnect'
    BY <2>2, <2>16
  <2>17. CASE BatchBegins \/ BatchEnds \/ ExchangeFails \/ CallbackReturns \/ UNCHANGED vars
    BY <2>16, <2>17 DEF BatchBegins, BatchEnds, ExchangeFails, CallbackReturns, session, vars
  <2>18. ASSUME NEW advice, NEW e \in Answerable, RecvUnknown(e, advice)
         PROVE  SingleConnect'
    BY <2>16, <2>18 DEF RecvUnknown, AdviceOnly
  <2>19. ASSUME NEW advice, NEW channel, RecvEvent(channel, advice)
         PROVE  SingleConnect'
    BY <2>16, <2>19 DEF RecvEvent, AdviceOnly
  <2> QED
    BY <2>4, <2>5, <2>6, <2>7, <2>8, <2>9, <2>10, <2>12, <2>14, <2>15, <2>17, <2>18, <2>19
       DEF Next, Application, Recv
<1> QED
  BY <1>1, <1>2, TypeCorrect, PTL DEF Spec

-----------------------------------------------------------------------------
(* The outbox's arrays *)

\* The ways in which a step may change the outbox.
LEMMA OutboxStep ==
  ASSUME [Next]_vars
  PROVE  \/ outbox' \in {outbox, WithConnect, WithHandshake, DestroyedQueue}
         \/ \E type \in CallTypes : outbox' = PushNew(WithConnect, type)
         \/ OnEvTimeoutFlush
         \/ \E e \in Answerable : \E func \in Types : Answers(e, func)
<1>1. CASE Application
  <2>1. ASSUME NEW type, Enqueue(type)
        PROVE  \E t \in CallTypes : outbox' = PushNew(WithConnect, t)
    BY <2>1, ClientAssumption DEF Enqueue
  <2> QED BY <1>1, <2>1 DEF Application, Publish, Subscribe, Unsubscribe, Destroy
<1>2. CASE Recv
  <2>1. \A e \in Answerable : \A advice, outcome :
          /\ RecvConnect(e, advice) => Answers(e, "connect")
          /\ RecvHandshake(e, advice, outcome) => Answers(e, "handshake")
          /\ RecvAck(e, advice) => \E func \in CallTypes : Answers(e, func)
          /\ RecvUnknown(e, advice) => outbox' = outbox
    BY DEF RecvConnect, RecvHandshake, RecvAck, RecvUnknown, AdviceOnly
  <2>2. \A channel, advice : RecvEvent(channel, advice) => outbox' = outbox
    BY DEF RecvEvent, AdviceOnly
  <2> QED BY <1>2, <2>1, <2>2 DEF Recv, Types
<1>3. CASE OnEvTimeoutConnect \/ OnEvTimeoutHandshake
  BY <1>3 DEF OnEvTimeoutConnect, OnEvTimeoutHandshake
<1>4. CASE BatchBegins \/ BatchEnds \/ ExchangeFails \/ CallbackReturns \/ UNCHANGED vars
  BY <1>4 DEF BatchBegins, BatchEnds, ExchangeFails, CallbackReturns, vars
<1> QED BY <1>1, <1>2, <1>3, <1>4 DEF Next

\* What a reply removes: a live slot in flight, or one that waits.
LEMMA AnsweredSlot ==
  ASSUME TypeOK, NEW e \in Answerable, NEW func, Answers(e, func)
  PROVE  LET at == FindByMsgId(outbox, e.id)
         IN  /\ at \in Live(outbox) /\ outbox.funcs[at] = func
             /\ outbox.msg_ids[at] = e.id
             /\ e \in wire => e.id # MSG_ID_INVALID
             /\ e \notin wire => StrayIds /\ e.id = MSG_ID_INVALID
             /\ e.id \in 0 .. MSG_ID_INVALID
             /\ outbox' = RemoveOrdered(outbox, at)
<1>1. IsQueue(outbox, Objects, Types) /\ MSG_ID_INVALID \in Nat \ {0}
  BY QueueAssumption DEF TypeOK
<1>2. e \in wire => e.id \in 0 .. MSG_ID_INVALID - 1
  BY DEF TypeOK, Envelopes
<1>3. e \notin wire => StrayIds /\ e.id = MSG_ID_INVALID
  BY DEF Answerable, Stray
<1> QED BY <1>1, <1>2, <1>3, FindType DEF Answers

Aligned(q) ==
  \A i \in Live(q) :
    /\ q.funcs[i] = q.msgs[i].type
    /\ q.msg_ids[i] = MSG_ID_INVALID <=> q.batch_ids[i] = BATCH_ID_INVALID

\* A push and a removal keep the four arrays aligned.
LEMMA PushAligned ==
  ASSUME NEW q, IsQueue(q, Objects, Types), Aligned(q), NEW type \in Types
  PROVE  Aligned(PushNew(q, type))
<1> DEFINE p == PushNew(q, type)
<1>1. /\ Live(p) = Live(q) \cup {q.count}
      /\ p.msgs[q.count].type = type /\ p.funcs[q.count] = type
      /\ p.msg_ids[q.count] = MSG_ID_INVALID /\ p.batch_ids[q.count] = BATCH_ID_INVALID
      /\ \A i \in 0 .. q.written - 1 : i # q.count =>
           /\ p.msgs[i] = q.msgs[i] /\ p.funcs[i] = q.funcs[i]
           /\ p.msg_ids[i] = q.msg_ids[i] /\ p.batch_ids[i] = q.batch_ids[i]
  BY NewSlots
<1>2. \A i \in Live(q) : i \in 0 .. q.written - 1 /\ i # q.count
  BY QueueParts DEF Live
<1> HIDE DEF p
<1>3. Aligned(p)
  BY <1>1, <1>2 DEF Aligned
<1> QED BY <1>3 DEF p

\* Removal moves all four arrays by the same step.
LEMMA RemoveAligned ==
  ASSUME NEW q, IsQueue(q, Objects, Types), Aligned(q), NEW r \in Live(q)
  PROVE  Aligned(RemoveOrdered(q, r))
<1> DEFINE p == RemoveOrdered(q, r)
           from(i) == IF r <= i /\ i + 1 < q.count THEN i + 1 ELSE i
<1>1. /\ p.count = q.count - 1
      /\ \A i \in 0 .. q.written - 1 :
           /\ p.msgs[i] = q.msgs[from(i)] /\ p.funcs[i] = q.funcs[from(i)]
           /\ p.msg_ids[i] = q.msg_ids[from(i)] /\ p.batch_ids[i] = q.batch_ids[from(i)]
  BY RemoveSlots
<1>2. q.count \in Nat /\ q.written \in Nat /\ q.count <= q.written
  BY QueueParts
<1> HIDE DEF p
<1>3. \A i \in Live(p) : i \in 0 .. q.written - 1 /\ from(i) \in Live(q)
  BY <1>1, <1>2 DEF Live
<1>4. Aligned(p)
  BY <1>1, <1>3 DEF Aligned
<1> QED BY <1>4 DEF p

\* The slots that a flush sends get valid message ids, one after the other.
LEMMA FlushSlots ==
  ASSUME TypeOK, OnEvTimeoutFlush
  PROVE  /\ outbox'.count = outbox.count /\ outbox'.written = outbox.written
         /\ Live(outbox') = Live(outbox)
         /\ outbox'.msgs = outbox.msgs /\ outbox'.funcs = outbox.funcs
         /\ \A i \in Outgoing :
              /\ outbox'.msg_ids[i] = EnvelopeOf(i).id
              /\ outbox'.msg_ids[i] \in 0 .. MSG_ID_INVALID - 1
              /\ outbox'.msg_ids[i] # MSG_ID_INVALID
              /\ outbox'.batch_ids[i] = batch_id /\ batch_id # BATCH_ID_INVALID
         /\ \A i \in (0 .. outbox.written - 1) \ Outgoing :
              /\ outbox'.msg_ids[i] = outbox.msg_ids[i]
              /\ outbox'.batch_ids[i] = outbox.batch_ids[i]
<1>1. /\ IsQueue(outbox, Objects, Types) /\ message_id \in Nat
      /\ batch_id \in 0 .. BATCH_ID_INVALID /\ batch_id # BATCH_ID_INVALID
      /\ MSG_ID_INVALID \in Nat \ {0}
  BY QueueAssumption DEF TypeOK
<1>2. outbox' = AssignIds(outbox, Outgoing, message_id, batch_id)
  BY DEF OnEvTimeoutFlush
<1>3. Outgoing \in SUBSET (0 .. outbox.written - 1)
  BY OutgoingType
<1>4. /\ outbox'.count = outbox.count /\ outbox'.written = outbox.written
      /\ outbox'.msgs = outbox.msgs /\ outbox'.funcs = outbox.funcs
      /\ outbox'.msg_ids = [i \in DOMAIN outbox.msg_ids |->
           IF i \in Outgoing THEN IdAfter(message_id, Rank(Outgoing, i), MSG_ID_INVALID)
           ELSE outbox.msg_ids[i]]
      /\ outbox'.batch_ids = [i \in DOMAIN outbox.batch_ids |->
           IF i \in Outgoing THEN batch_id ELSE outbox.batch_ids[i]]
  BY <1>2 DEF AssignIds, WithIds, Update
<1>5. Live(outbox') = Live(outbox)
  BY <1>4 DEF Live
<1>6. DOMAIN outbox.msg_ids = 0 .. outbox.written - 1 /\ DOMAIN outbox.batch_ids = 0 .. outbox.written - 1
  BY <1>1 DEF IsQueue
<1>7. /\ \A i \in Outgoing :
           /\ outbox'.msg_ids[i] = IdAfter(message_id, Rank(Outgoing, i), MSG_ID_INVALID)
           /\ outbox'.batch_ids[i] = batch_id
      /\ \A i \in (0 .. outbox.written - 1) \ Outgoing :
           /\ outbox'.msg_ids[i] = outbox.msg_ids[i]
           /\ outbox'.batch_ids[i] = outbox.batch_ids[i]
  BY <1>3, <1>4, <1>6
<1>8. ASSUME NEW i \in Outgoing
      PROVE  /\ outbox'.msg_ids[i] = EnvelopeOf(i).id
             /\ outbox'.msg_ids[i] \in 0 .. MSG_ID_INVALID - 1
  <2>1. Rank(Outgoing, i) \in Nat
    BY OutgoingType, RankType
  <2>2. IdAfter(message_id, Rank(Outgoing, i), MSG_ID_INVALID) \in 0 .. MSG_ID_INVALID - 1
    BY <1>1, <2>1, IdAfterType
  <2>3. outbox'.msg_ids[i] = IdAfter(message_id, Rank(Outgoing, i), MSG_ID_INVALID)
    BY <1>7
  <2> QED BY <2>2, <2>3 DEF EnvelopeOf
<1>9. \A i \in Outgoing : outbox'.msg_ids[i] # MSG_ID_INVALID
  BY <1>1, <1>8
<1> QED BY <1>1, <1>4, <1>5, <1>7, <1>8, <1>9

\* The handler of a live slot is the one for its message, and it has a batch
\* id exactly when it has a message id.
THEOREM ArraysParallel == Spec => []ParallelArrays
<1>1. Init => ParallelArrays
  <2> SUFFICES ASSUME Init PROVE ParallelArrays
    OBVIOUS
  <2>1. Live(outbox) = {}
    BY DEF Init, EmptyQueue, Live
  <2> QED BY <2>1 DEF ParallelArrays
<1>2. TypeOK /\ ParallelArrays /\ [Next]_vars => ParallelArrays'
  <2> SUFFICES ASSUME TypeOK, Aligned(outbox), [Next]_vars PROVE Aligned(outbox')
    BY DEF ParallelArrays, Aligned
  <2>1. /\ IsQueue(outbox, Objects, Types) /\ IsQueue(WithHandshake, Objects, Types) /\ IsQueue(WithConnect, Objects, Types)
        /\ "handshake" \in Types /\ "connect" \in Types
    BY WithHandshakeType, WithConnectType DEF TypeOK, Types
  <2>2. Aligned(WithHandshake)
    BY <2>1, PushAligned DEF WithHandshake, PushIf
  <2>3. Aligned(WithConnect)
    BY <2>1, <2>2, PushAligned DEF WithConnect, PushIf
  <2>4. Aligned(DestroyedQueue)
    BY DEF Aligned, DestroyedQueue, EmptyQueue, Live
  <2>5. ASSUME NEW type \in CallTypes
        PROVE  Aligned(PushNew(WithConnect, type))
    BY <2>1, <2>3, PushAligned DEF Types
  <2>6. CASE OnEvTimeoutFlush
    <3>1. \A i \in Live(outbox) : i \in 0 .. outbox.written - 1
      BY <2>1, QueueParts
    <3> QED BY <2>6, <3>1, FlushSlots DEF Aligned
  <2>7. ASSUME NEW e \in Answerable, NEW func \in Types, Answers(e, func)
        PROVE  Aligned(outbox')
    BY <2>1, <2>7, AnsweredSlot, RemoveAligned
  <2> QED BY <2>2, <2>3, <2>4, <2>5, <2>6, <2>7, OutboxStep
<1> QED
  BY <1>1, <1>2, TypeCorrect, PTL DEF Spec

-----------------------------------------------------------------------------
(* What a flush sends *)

\* A flush leaves nothing that the next one would send.
LEMMA FlushMarks ==
  ASSUME TypeOK, OnEvTimeoutFlush
  PROVE  /\ handshake_msg_index # -1 => outbox'.msg_ids[handshake_msg_index] # MSG_ID_INVALID
         /\ Outgoing' = {}
<1>0. /\ IsQueue(outbox, Objects, Types)
      /\ \A i \in Live(outbox) : i \in 0 .. outbox.written - 1
      /\ handshake_msg_index # -1 => handshake_msg_index \in 0 .. outbox.written - 1
  BY QueueParts DEF TypeOK
<1>1. handshake_msg_index' = handshake_msg_index
  BY DEF OnEvTimeoutFlush, session
<1>2. \A i \in Outgoing : outbox'.msg_ids[i] # MSG_ID_INVALID
  BY FlushSlots
<1>3. ASSUME handshake_msg_index # -1
      PROVE  outbox'.msg_ids[handshake_msg_index] # MSG_ID_INVALID
  <2>1. CASE handshake_msg_index \in Outgoing
    BY <1>2, <2>1
  <2>2. CASE handshake_msg_index \notin Outgoing
    BY <1>0, <1>3, <2>2, FlushSlots DEF Outgoing
  <2> QED BY <2>1, <2>2
<1>4. CASE handshake_msg_index # -1
  BY <1>1, <1>3, <1>4 DEF Outgoing
<1>5. CASE handshake_msg_index = -1
  <2>1. \A i \in Live(outbox) : outbox'.msg_ids[i] # MSG_ID_INVALID
    BY <1>0, <1>2, <1>5, FlushSlots DEF Outgoing, Unsent
  <2>2. Live(outbox') = Live(outbox)
    BY FlushSlots
  <2>3. Outgoing' = {}
    BY <1>1, <1>5, <2>1, <2>2 DEF Outgoing, Unsent, Live
  <2> QED BY <1>5, <2>3
<1> QED BY <1>3, <1>4, <1>5

\* Slot k, live or left over, either is in flight or holds a message that
\* waits in the outbox.
HeldAt(q, k) ==
  q.msg_ids[k] = MSG_ID_INVALID => \E j \in Unsent(q) : q.msgs[j] = q.msgs[k]

\* The inductive form of FlushedIsHeld: handshake_msg_index is held, whether or
\* not removals have made it denote a left-over slot.
Held == handshake_msg_index # -1 => HeldAt(outbox, handshake_msg_index)

\* A slot that is held is all a flush of handshake_msg_index needs.
LEMMA HeldImpliesFlushed ==
  ASSUME Held
  PROVE  FlushedIsHeld
BY DEF Held, HeldAt, FlushedIsHeld, Outgoing, Unsent

\* Pushing makes the new slot held and keeps held what was.
LEMMA PushHeld ==
  ASSUME NEW q, IsQueue(q, Objects, Types), NEW type \in Types
  PROVE  /\ HeldAt(PushNew(q, type), q.count)
         /\ \A k \in 0 .. q.written - 1 : HeldAt(q, k) => HeldAt(PushNew(q, type), k)
<1> DEFINE p == PushNew(q, type)
<1>1. /\ Live(p) = Live(q) \cup {q.count}
      /\ p.msg_ids[q.count] = MSG_ID_INVALID
      /\ \A i \in 0 .. q.written - 1 : i # q.count =>
           p.msgs[i] = q.msgs[i] /\ p.msg_ids[i] = q.msg_ids[i]
  BY NewSlots
<1>2. \A i \in Live(q) : i \in 0 .. q.written - 1 /\ i # q.count
  BY QueueParts DEF Live
<1> HIDE DEF p
<1>3. HeldAt(p, q.count)
  BY <1>1 DEF HeldAt, Unsent
<1>4. ASSUME NEW k \in 0 .. q.written - 1, HeldAt(q, k)
      PROVE  HeldAt(p, k)
  <2>1. CASE k = q.count
    BY <1>3, <2>1
  <2>2. CASE k # q.count
    BY <1>1, <1>2, <1>4, <2>2 DEF HeldAt, Unsent
  <2> QED BY <2>1, <2>2
<1> QED BY <1>3, <1>4 DEF p

\* Removing a message in flight keeps every slot held, the left-over ones too:
\* a message that waits is moved, not dropped.
LEMMA RemoveHeld ==
  ASSUME NEW q, IsQueue(q, Objects, Types), NEW r \in Live(q), q.msg_ids[r] # MSG_ID_INVALID,
         NEW k \in 0 .. q.written - 1, HeldAt(q, k)
  PROVE  HeldAt(RemoveOrdered(q, r), k)
<1> DEFINE p == RemoveOrdered(q, r)
           from(i) == IF r <= i /\ i + 1 < q.count THEN i + 1 ELSE i
<1>1. /\ p.count = q.count - 1
      /\ \A i \in 0 .. q.written - 1 :
           p.msgs[i] = q.msgs[from(i)] /\ p.msg_ids[i] = q.msg_ids[from(i)]
  BY RemoveSlots
<1>2. /\ q.count \in Nat /\ q.written \in Nat /\ q.count <= q.written
      /\ r \in 0 .. q.count - 1
  BY QueueParts DEF Live
<1> HIDE DEF p
<1> SUFFICES ASSUME p.msg_ids[k] = MSG_ID_INVALID
             PROVE  \E j \in Unsent(p) : p.msgs[j] = p.msgs[k]
  BY DEF HeldAt, p
<1>3. CASE k < q.count - 1
  <2>1. k \in Unsent(p)
    BY <1>1, <1>2, <1>3 DEF Unsent, Live
  <2> QED BY <2>1
<1>4. CASE k >= q.count - 1
  <2>1. from(k) = k /\ q.msg_ids[k] = MSG_ID_INVALID /\ p.msgs[k] = q.msgs[k]
    BY <1>1, <1>2, <1>4
  <2>2. PICK j \in Unsent(q) : q.msgs[j] = q.msgs[k]
    BY <2>1 DEF HeldAt
  <2>3. j \in 0 .. q.count - 1 /\ q.msg_ids[j] = MSG_ID_INVALID /\ j # r
    BY <2>2 DEF Unsent, Live
  <2>4. CASE j < r
    <3>1. from(j) = j /\ j \in 0 .. q.count - 2
      BY <1>2, <2>3, <2>4
    <3>2. j \in Unsent(p) /\ p.msgs[j] = q.msgs[j]
      BY <1>1, <1>2, <2>3, <3>1 DEF Unsent, Live
    <3> QED BY <2>1, <2>2, <3>2
  <2>5. CASE j > r
    <3>1. from(j - 1) = j /\ j - 1 \in 0 .. q.count - 2
      BY <1>2, <2>3, <2>5
    <3>2. j - 1 \in Unsent(p) /\ p.msgs[j - 1] = q.msgs[j]
      BY <1>1, <1>2, <2>3, <3>1 DEF Unsent, Live
    <3> QED BY <2>1, <2>2, <3>2
  <2> QED BY <1>2, <2>3, <2>4, <2>5
<1> QED BY <1>2, <1>3, <1>4

\* Queueing a handshake, a connect or both leaves handshake_msg_index held.
LEMMA IssueHeld ==
  ASSUME TypeOK, Held, IssueHandshake
  PROVE  handshake_msg_index' # -1 =>
           /\ handshake_msg_index' \in 0 .. WithHandshake.written - 1
           /\ HeldAt(WithHandshake, handshake_msg_index')
           /\ handshake_msg_index' \in 0 .. WithConnect.written - 1
           /\ HeldAt(WithConnect, handshake_msg_index')
<1> SUFFICES ASSUME handshake_msg_index' # -1
             PROVE  /\ handshake_msg_index' \in 0 .. WithHandshake.written - 1
                    /\ HeldAt(WithHandshake, handshake_msg_index')
                    /\ handshake_msg_index' \in 0 .. WithConnect.written - 1
                    /\ HeldAt(WithConnect, handshake_msg_index')
  OBVIOUS
<1>1. /\ IsQueue(outbox, Objects, Types) /\ IsQueue(WithHandshake, Objects, Types) /\ IsQueue(WithConnect, Objects, Types)
      /\ "handshake" \in Types /\ "connect" \in Types
      /\ outbox.written \in Nat /\ outbox.count \in Nat /\ WithHandshake.written \in Nat
      /\ WithConnect.written \in Nat
  BY WithHandshakeType, WithConnectType, QueueParts DEF TypeOK, Types
<1>2. /\ handshake_msg_index' \in 0 .. WithHandshake.written - 1
      /\ HeldAt(WithHandshake, handshake_msg_index')
  <2>1. CASE HandshakeDue
    <3>1. handshake_msg_index' = outbox.count /\ WithHandshake = PushNew(outbox, "handshake")
      BY <2>1 DEF IssueHandshake, WithHandshake, PushIf
    <3>2. HeldAt(WithHandshake, outbox.count)
      BY <1>1, <3>1, PushHeld
    <3>3. outbox.count < WithHandshake.written
      BY <1>1, <2>1, WithHandshakeType
    <3> QED BY <1>1, <3>1, <3>2, <3>3
  <2>2. CASE ~HandshakeDue
    BY <2>2 DEF IssueHandshake, WithHandshake, PushIf, Held, TypeOK
  <2> QED BY <2>1, <2>2
<1>3. /\ WithConnect.written >= WithHandshake.written
      /\ HeldAt(WithConnect, handshake_msg_index')
  <2>1. CASE ConnectDue
    <3>1. WithConnect = PushNew(WithHandshake, "connect")
      BY <2>1 DEF WithConnect, PushIf
    <3>2. HeldAt(WithConnect, handshake_msg_index')
      BY <1>1, <1>2, <3>1, PushHeld
    <3>3. WithConnect.written \in {WithHandshake.written, WithHandshake.written + 1}
      BY <1>1, <3>1, NewSlots
    <3> QED BY <1>1, <3>2, <3>3
  <2>2. CASE ~ConnectDue
    BY <1>1, <1>2, <2>2 DEF WithConnect, PushIf
  <2> QED BY <2>1, <2>2
<1> QED BY <1>1, <1>2, <1>3

\* A reply with the id of a message keeps whatever handshake_msg_index denotes
\* held.
LEMMA AnswerHeld ==
  ASSUME TypeOK, Held, NEW e \in wire, NEW func, Answers(e, func), handshake_msg_index # -1
  PROVE  HeldAt(outbox', handshake_msg_index)
<1>1. IsQueue(outbox, Objects, Types) /\ handshake_msg_index \in 0 .. outbox.written - 1
  BY QueueParts DEF TypeOK
<1>2. HeldAt(outbox, handshake_msg_index)
  BY DEF Held
<1>3. PICK at \in Live(outbox) :
        outbox.msg_ids[at] # MSG_ID_INVALID /\ outbox' = RemoveOrdered(outbox, at)
  BY AnsweredSlot DEF Answerable
<1> QED BY <1>1, <1>2, <1>3, RemoveHeld

\* Without stray ids every step preserves Held.
LEMMA HeldStep ==
  ASSUME ~StrayIds, TypeOK, Held, [Next]_vars
  PROVE  Held'
<1>0. IsQueue(outbox, Objects, Types) /\ Answerable = wire
  BY DEF TypeOK, Answerable
<1>1. ASSUME UNCHANGED <<outbox, handshake_msg_index>>
      PROVE  Held'
  BY <1>1 DEF Held, HeldAt, Unsent, Live
<1>2. ASSUME NEW type, Enqueue(type) PROVE Held'
  <2>1. type \in Types /\ IssueHandshake
    BY <1>2, ClientAssumption DEF Enqueue, Types, IssueConnect
  <2>2. outbox' = PushNew(WithConnect, type) /\ IsQueue(WithConnect, Objects, Types)
    BY <1>0, <1>2, WithConnectType DEF Enqueue
  <2> QED BY <2>1, <2>2, IssueHeld, PushHeld DEF Held
<1>3. CASE Publish \/ (\E channel \in Channels : Subscribe(channel)) \/ Unsubscribe
  BY <1>2, <1>3 DEF Publish, Subscribe, Unsubscribe
<1>4. CASE Destroy
  BY <1>4 DEF Destroy, Held
<1>5. CASE OnEvTimeoutConnect
  <2>1. outbox' = WithConnect /\ IssueHandshake
    BY <1>5 DEF OnEvTimeoutConnect, IssueConnect
  <2> QED BY <2>1, IssueHeld DEF Held
<1>6. CASE OnEvTimeoutHandshake
  <2>1. outbox' = WithHandshake /\ IssueHandshake
    BY <1>6 DEF OnEvTimeoutHandshake
  <2> QED BY <2>1, IssueHeld DEF Held
<1>7. CASE OnEvTimeoutFlush
  <2>1. handshake_msg_index' = handshake_msg_index
    BY <1>7 DEF OnEvTimeoutFlush, session
  <2>2. handshake_msg_index # -1 => outbox'.msg_ids[handshake_msg_index] # MSG_ID_INVALID
    BY <1>7, FlushMarks
  <2> QED BY <2>1, <2>2 DEF Held, HeldAt
<1>8. CASE BatchBegins \/ BatchEnds \/ ExchangeFails \/ CallbackReturns
  BY <1>1, <1>8 DEF BatchBegins, BatchEnds, ExchangeFails, CallbackReturns, session
<1>9. ASSUME NEW e \in Answerable, NEW func, Answers(e, func),
             handshake_msg_index' \in {-1, handshake_msg_index}
      PROVE  Held'
  BY <1>0, <1>9, AnswerHeld DEF Held
<1>10. ASSUME NEW advice, NEW e \in Answerable, RecvConnect(e, advice)
       PROVE  Held'
  BY <1>9, <1>10 DEF RecvConnect
<1>11. ASSUME NEW advice, NEW e \in Answerable, NEW outcome, RecvHandshake(e, advice, outcome)
       PROVE  Held'
  BY <1>9, <1>11 DEF RecvHandshake
<1>12. ASSUME NEW advice, NEW e \in Answerable, RecvAck(e, advice)
       PROVE  Held'
  BY <1>9, <1>12 DEF RecvAck
<1>13. ASSUME NEW advice, NEW e \in Answerable, RecvUnknown(e, advice)
       PROVE  Held'
  BY <1>1, <1>13 DEF RecvUnknown, AdviceOnly
<1>14. ASSUME NEW advice, NEW channel, RecvEvent(channel, advice)
       PROVE  Held'
  BY <1>1, <1>14 DEF RecvEvent, AdviceOnly
<1>15. CASE UNCHANGED vars
  BY <1>1, <1>15 DEF vars, session
<1> QED
  BY <1>3, <1>4, <1>5, <1>6, <1>7, <1>8, <1>10, <1>11, <1>12, <1>13, <1>14, <1>15
     DEF Next, Application, Recv

\* While every reply carries the id of a message, a flush only ever sends a
\* message that the outbox still holds and that still waits, and the object
\* that was pushed for it, even through a handshake_msg_index gone stale.
THEOREM FlushesHeld ==
  ASSUME ~StrayIds
  PROVE  Spec => []FlushedIsHeld
<1>1. Init => Held
  BY DEF Init, Held
<1>2. TypeOK /\ Held /\ [Next]_vars => Held'
  BY HeldStep
<1>3. Held => FlushedIsHeld
  BY HeldImpliesFlushed
<1> QED
  BY <1>1, <1>2, <1>3, TypeCorrect, PTL DEF Spec

-----------------------------------------------------------------------------
(* Wake-ups *)

\* The two properties about wake-ups are inductive, whatever the server answers.
Woken == NoLostWakeup /\ OutboxDriven

\* Every step preserves it.
LEMMA WokenStep ==
  ASSUME TypeOK, Woken, [Next]_vars
  PROVE  Woken'
<1> USE DEF session, counters, timers
<1>0. outbox.count \in Nat /\ open \in Nat /\ NoLostWakeup /\ OutboxDriven
  BY QueueParts DEF TypeOK, Woken
<1>1. ASSUME ev_timeout_flush' = TRUE \/ loop' # "idle"
      PROVE  Woken'
  BY <1>1 DEF Woken, NoLostWakeup, OutboxDriven
<1>2. ASSUME UNCHANGED <<outbox, handshake_msg_index, ev_timeout_flush, loop, open>>
      PROVE  Woken'
  BY <1>0, <1>2 DEF Woken, NoLostWakeup, OutboxDriven, Outgoing, Unsent, Live
<1>3. CASE Application
  BY <1>1, <1>3 DEF Application, Publish, Subscribe, Unsubscribe, Enqueue, Destroy
<1>4. CASE OnEvTimeoutConnect
  <2>1. CASE HandshakeDue \/ ConnectDue
    BY <1>1, <1>4, <2>1 DEF OnEvTimeoutConnect
  <2>2. CASE ~HandshakeDue /\ ~ConnectDue
    BY <1>2, <1>4, <2>2
       DEF OnEvTimeoutConnect, IssueConnect, IssueHandshake, WithConnect, WithHandshake, PushIf, TypeOK
  <2> QED BY <2>1, <2>2
<1>5. CASE OnEvTimeoutHandshake
  <2>1. CASE HandshakeDue
    BY <1>1, <1>5, <2>1 DEF OnEvTimeoutHandshake
  <2>2. CASE ~HandshakeDue
    BY <1>2, <1>5, <2>2 DEF OnEvTimeoutHandshake, IssueHandshake, WithHandshake, PushIf, TypeOK
  <2> QED BY <2>1, <2>2
<1>6. CASE OnEvTimeoutFlush
  <2>1. Outgoing' = {} /\ open' = open + 1
    BY <1>6, FlushMarks DEF OnEvTimeoutFlush
  <2> QED BY <1>0, <2>1 DEF Woken, NoLostWakeup, OutboxDriven
<1>7. CASE BatchEnds
  <2>1. outbox' = outbox /\ ev_timeout_flush' = (ev_timeout_flush \/ outbox.count > 0)
    BY <1>7 DEF BatchEnds
  <2> QED BY <2>1 DEF Woken, NoLostWakeup, OutboxDriven
<1>8. CASE BatchBegins \/ ExchangeFails \/ CallbackReturns
  BY <1>1, <1>8 DEF BatchBegins, ExchangeFails, CallbackReturns
<1>9. ASSUME NEW advice, NEW e \in Answerable, RecvConnect(e, advice)
      PROVE  Woken'
  BY <1>1, <1>9 DEF RecvConnect, Answers
<1>10. ASSUME NEW advice, NEW e \in Answerable, NEW outcome, RecvHandshake(e, advice, outcome)
       PROVE  Woken'
  BY <1>1, <1>10 DEF RecvHandshake, Answers
<1>11. ASSUME NEW advice, NEW e \in Answerable, RecvAck(e, advice)
       PROVE  Woken'
  BY <1>1, <1>11 DEF RecvAck, Answers
<1>12. ASSUME NEW advice, NEW e \in Answerable, RecvUnknown(e, advice)
       PROVE  Woken'
  BY <1>1, <1>12 DEF RecvUnknown, AdviceOnly
<1>13. ASSUME NEW advice, NEW channel, RecvEvent(channel, advice)
       PROVE  Woken'
  BY <1>1, <1>13 DEF RecvEvent, AdviceOnly
<1>14. CASE UNCHANGED vars
  BY <1>2, <1>14 DEF vars
<1> QED
  BY <1>3, <1>4, <1>5, <1>6, <1>7, <1>8, <1>9, <1>10, <1>11, <1>12, <1>13, <1>14 DEF Next, Recv

\* It therefore holds throughout.
LEMMA WokenInvariant == Spec => []Woken
<1>1. Init => Woken
  BY DEF Init, EmptyQueue, Woken, NoLostWakeup, OutboxDriven
<1>2. TypeOK /\ Woken /\ [Next]_vars => Woken'
  BY WokenStep
<1> QED
  BY <1>1, <1>2, TypeCorrect, PTL DEF Spec

\* When the event loop is idle, a flush that would send something has been
\* scheduled: no message is left behind by any interleaving of calls, timers,
\* callbacks and replies.
THEOREM NoWakeupLost == Spec => []NoLostWakeup
<1>1. Woken => NoLostWakeup
  BY DEF Woken
<1> QED
  BY <1>1, WokenInvariant, PTL

\* A non-empty outbox always has something under way that will run it.
THEOREM OutboxStaysDriven == Spec => []OutboxDriven
<1>1. Woken => OutboxDriven
  BY DEF Woken
<1> QED
  BY <1>1, WokenInvariant, PTL

=============================================================================
