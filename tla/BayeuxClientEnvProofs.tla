----------------------- MODULE BayeuxClientEnvProofs ------------------------
(***************************************************************************)
(* Theorems about BayeuxClient beyond those for every server: that only the *)
(* advice "none" ends the retrying of connects and handshakes, and those   *)
(* that hold under a hypothesis on the environment: that message ids have  *)
(* not wrapped around yet, for what is said of ids and replies; and for    *)
(* the handshake gate, which sends a handshake alone while it is under     *)
(* way, that the server accepts the handshake, never asks for another one, *)
(* and replies with the ids of messages (Calm).  Without the last the      *)
(* gate's theorems are false, as two runs of the model checker show.       *)
(***************************************************************************)
EXTENDS BayeuxClientProofs

-----------------------------------------------------------------------------
(* Retrying *)

\* What RetryArmed rests on: the handshake timer is only ever armed by a reply,
\* hence by a client that has queued something before.
TimerAfterCall == ev_timeout_handshake => outbox.written > 0

\* What a step does to both.
Kept == TimerAfterCall' /\ (reconnect' # "none" /\ RetryArmed => RetryArmed')

\* An answered message was in a slot of the outbox.
LEMMA AnsweredWritten ==
  ASSUME TypeOK, NEW e \in Answerable, NEW func, Answers(e, func)
  PROVE  outbox.written > 0 /\ outbox'.written = outbox.written
<1>1. IsQueue(outbox, Objects, Types)
  BY DEF TypeOK
<1>2. FindByMsgId(outbox, e.id) \in 0 .. outbox.written - 1
  BY <1>1, AnsweredSlot, QueueParts
<1>3. outbox.written \in Nat
  BY <1>1, QueueParts
<1> QED BY <1>2, <1>3, AnswersType

\* Every step keeps the timer's promise and, unless "none" is in force after
\* it, the retrying.
LEMMA RetryStep ==
  ASSUME TypeOK, TimerAfterCall, [Next]_vars
  PROVE  Kept
<1> USE DEF session, counters, timers
<1>0. /\ IsQueue(outbox, Objects, Types) /\ outbox.written \in Nat
      /\ ev_timeout_connect \in BOOLEAN /\ connect_msg_in_flight \in BOOLEAN
      /\ ev_timeout_handshake \in BOOLEAN
  BY QueueParts DEF TypeOK
\* After an issue_connect there is a connect, and no handshake is due.
<1>1. ASSUME IssueConnect, outbox'.written > 0
      PROVE  Kept
  <2>1. reconnect' # "none" => connect_msg_in_flight' /\ state' # "UNCONNECTED"
    BY <1>0, <1>1 DEF IssueConnect, IssueHandshake, ConnectDue, HandshakeDue
  <2> QED BY <1>1, <2>1 DEF Kept, TimerAfterCall, RetryArmed
<1>2. ASSUME NEW type, Enqueue(type) PROVE Kept
  <2>1. type \in Types /\ outbox' = PushNew(WithConnect, type) /\ IssueConnect
    BY <1>2, ClientAssumption DEF Enqueue, Types
  <2>2. IsQueue(WithConnect, Objects, Types)
    BY <1>0, WithConnectType
  <2>3. /\ WithConnect.count < outbox'.written /\ WithConnect.count \in Nat
        /\ outbox'.written \in {WithConnect.written, WithConnect.written + 1}
        /\ WithConnect.written \in Nat
    BY <2>1, <2>2, NewSlots, QueueParts
  <2>4. outbox'.written > 0
    BY <2>3
  <2> QED BY <1>1, <2>1, <2>4
<1>3. CASE Publish \/ (\E channel \in Channels : Subscribe(channel)) \/ Unsubscribe
  BY <1>2, <1>3 DEF Publish, Subscribe, Unsubscribe
<1>4. CASE Destroy
  BY <1>0, <1>4 DEF Destroy, Kept, TimerAfterCall, RetryArmed, Ended
<1>5. CASE OnEvTimeoutConnect
  <2>1. outbox' = WithConnect /\ IssueConnect /\ UNCHANGED ev_timeout_handshake
    BY <1>5 DEF OnEvTimeoutConnect
  <2>2. CASE outbox'.written > 0
    BY <1>1, <2>1, <2>2
  <2>3. CASE ~(outbox'.written > 0)
    <3>1. outbox.written = 0
      BY <1>0, <2>1, <2>3, WithConnectType, QueueParts
    <3>2. ~ev_timeout_handshake'
      BY <1>0, <2>1, <3>1 DEF TimerAfterCall
    <3> QED BY <2>3, <3>2 DEF Kept, TimerAfterCall, RetryArmed
  <2> QED BY <2>2, <2>3
<1>6. CASE OnEvTimeoutHandshake
  <2>1. /\ outbox' = WithHandshake /\ IssueHandshake /\ ev_timeout_handshake' = FALSE
        /\ UNCHANGED <<connect_msg_in_flight, ev_timeout_connect, loop>>
        /\ ev_timeout_handshake /\ loop = "idle"
    BY <1>6 DEF OnEvTimeoutHandshake
  <2>2. reconnect' # "none" => state' # "UNCONNECTED"
    BY <1>0, <2>1 DEF IssueHandshake, HandshakeDue
  <2>3. RetryArmed => connect_msg_in_flight \/ ev_timeout_connect
    BY <2>1 DEF TimerAfterCall, RetryArmed, Ended
  <2> QED BY <2>1, <2>2, <2>3 DEF Kept, TimerAfterCall, RetryArmed
<1>7. ASSUME outbox'.written = outbox.written,
             UNCHANGED <<state, reconnect, connect_msg_in_flight, ev_timeout_connect,
                         ev_timeout_handshake>>,
             Ended => Ended'
      PROVE  Kept
  BY <1>7 DEF Kept, TimerAfterCall, RetryArmed
<1>8. CASE OnEvTimeoutFlush
  BY <1>7, <1>8, FlushType DEF OnEvTimeoutFlush, Ended
<1>9. CASE BatchBegins \/ BatchEnds \/ ExchangeFails \/ CallbackReturns \/ UNCHANGED vars
  BY <1>7, <1>9 DEF BatchBegins, BatchEnds, ExchangeFails, CallbackReturns, vars, Ended
\* A message may advise a new start, and then schedules the connect.
<1>10. ASSUME NEW advice \in Advices \cup {"absent"}, loop = "batch",
              outbox'.written = outbox.written,
              state' \in {state, "CONNECTED"} \/ (StartOver(advice) /\ ev_timeout_connect'),
              ev_timeout_connect => ev_timeout_connect',
              connect_msg_in_flight => connect_msg_in_flight' \/ ev_timeout_connect',
              ev_timeout_handshake' = ev_timeout_handshake
       PROVE  Kept
  <2>1. ~Ended
    BY <1>10 DEF Ended
  <2> QED BY <1>10, <2>1 DEF Kept, TimerAfterCall, RetryArmed
<1>11. ASSUME NEW advice \in Advices \cup {"absent"}
       PROVE  StateAdvised(advice) = state \/ StartOver(advice)
  BY DEF StateAdvised
<1>12. ASSUME NEW advice \in Advices \cup {"absent"}, NEW e \in Answerable, RecvConnect(e, advice)
       PROVE  Kept
  <2>1. outbox'.written = outbox.written /\ loop = "batch"
    BY <1>12, AnsweredWritten DEF RecvConnect, Answers
  <2> QED BY <1>10, <1>11, <1>12, <2>1 DEF RecvConnect
<1>13. ASSUME NEW advice \in Advices \cup {"absent"}, NEW e \in Answerable,
              NEW outcome \in HandshakeOutcomes, RecvHandshake(e, advice, outcome)
       PROVE  Kept
  <2>1. /\ outbox'.written = outbox.written /\ outbox.written > 0 /\ loop = "batch"
        /\ UNCHANGED connect_msg_in_flight
        /\ ev_timeout_connect' = (ev_timeout_connect \/ StartOver(advice))
    BY <1>13, AnsweredWritten DEF RecvHandshake, Answers
  <2>2. CASE outcome = "failure"
    <3>1. ev_timeout_handshake'
      BY <1>13, <2>2 DEF RecvHandshake
    <3>2. RetryArmed => connect_msg_in_flight' \/ ev_timeout_connect'
      BY <2>1 DEF RetryArmed, Ended
    <3> QED BY <2>1, <3>1, <3>2 DEF Kept, TimerAfterCall, RetryArmed
  <2>3. CASE outcome # "failure"
    <3>1. /\ ev_timeout_handshake' = ev_timeout_handshake
          /\ state' \in {"CONNECTED", StateAdvised(advice)}
      BY <1>13, <2>3 DEF RecvHandshake
    <3> QED BY <1>10, <1>11, <2>1, <3>1
  <2> QED BY <2>2, <2>3
<1>14. ASSUME NEW advice \in Advices \cup {"absent"}, NEW e \in Answerable, RecvAck(e, advice)
       PROVE  Kept
  <2>1. outbox'.written = outbox.written /\ loop = "batch"
    BY <1>14, AnsweredWritten DEF RecvAck, Answers
  <2> QED BY <1>10, <1>11, <1>14, <2>1 DEF RecvAck
<1>15. ASSUME NEW advice \in Advices \cup {"absent"}, AdviceOnly(advice)
       PROVE  Kept
  BY <1>10, <1>11, <1>15 DEF AdviceOnly
<1> QED
  BY <1>3, <1>4, <1>5, <1>6, <1>8, <1>9, <1>12, <1>13, <1>14, <1>15
     DEF Next, Application, Recv, RecvUnknown, RecvEvent

LEMMA TimerInvariant == Spec => []TimerAfterCall
<1>1. Init => TimerAfterCall
  BY DEF Init, TimerAfterCall
<1>2. TypeOK /\ TimerAfterCall /\ [Next]_vars => TimerAfterCall'
  BY RetryStep DEF Kept
<1> QED BY <1>1, <1>2, TypeCorrect, PTL DEF Spec

\* Only the advice "none" ends the retrying: any other step, whatever the reply,
\* its id or its outcome, leaves a client that has queued its first message with
\* a connect in the outbox or the timer for the next one pending, and an
\* unconnected one with a timer that will try the handshake again.
THEOREM RetryIsKept == Spec => RetryKept
<1>1. TypeOK /\ TimerAfterCall /\ [Next]_vars
        => [reconnect' # "none" /\ RetryArmed => RetryArmed']_vars
  BY RetryStep DEF Kept
<1> QED BY <1>1, TypeCorrect, TimerInvariant, PTL DEF Spec, RetryKept

-----------------------------------------------------------------------------
(* Message ids and replies *)

\* What queue q, the next message id n and the messages w on the wire have to
\* do with each other, as long as the ids do not wrap around.  Below speaks of
\* left-over slots too: handshake_msg_index may denote one.
Below(q, n, w) ==
  /\ \A i \in 0 .. q.written - 1 : q.msg_ids[i] # MSG_ID_INVALID => q.msg_ids[i] < n
  /\ \A e \in w : e.id < n
Distinct(q) ==
  \A i, j \in Live(q) : q.msg_ids[i] = q.msg_ids[j] /\ q.msg_ids[i] # MSG_ID_INVALID => i = j
Routed(q, w) ==
  \A e \in w, i \in Live(q) : q.msg_ids[i] = e.id => q.funcs[i] = e.type
Carried(q, w) ==
  \A i \in Live(q) : q.msg_ids[i] # MSG_ID_INVALID => \E e \in w : e.id = q.msg_ids[i]

Sent(q, n, w) == Below(q, n, w) /\ Distinct(q) /\ Routed(q, w) /\ Carried(q, w)

\* No message on the wire carries the invalid id.
LEMMA WireIds ==
  ASSUME TypeOK
  PROVE  \A e \in wire : e.id \in Nat /\ e.id # MSG_ID_INVALID
BY QueueAssumption DEF TypeOK, Envelopes

\* A message that is pushed is not in flight and changes nothing.
LEMMA PushSent ==
  ASSUME NEW q, IsQueue(q, Objects, Types), NEW type \in Types, NEW n,
         NEW w, \A e \in w : e.id # MSG_ID_INVALID,
         Sent(q, n, w)
  PROVE  Sent(PushNew(q, type), n, w)
<1> DEFINE p == PushNew(q, type)
<1>1. /\ Live(p) = Live(q) \cup {q.count}
      /\ p.msg_ids[q.count] = MSG_ID_INVALID
      /\ p.written \in {q.written, q.written + 1}
      /\ \A i \in 0 .. q.written - 1 : i # q.count =>
           p.funcs[i] = q.funcs[i] /\ p.msg_ids[i] = q.msg_ids[i]
  BY NewSlots
<1>2. /\ \A i \in Live(q) : i \in 0 .. q.written - 1 /\ i # q.count
      /\ q.written \in Nat /\ q.count \in Nat /\ q.count <= q.written
  BY QueueParts DEF Live
<1>3. p.written = q.written + 1 => q.count = q.written
  BY <1>2 DEF PushNew, Push
<1> HIDE DEF p
<1>4. Below(p, n, w)
  <2> SUFFICES ASSUME NEW i \in 0 .. p.written - 1, p.msg_ids[i] # MSG_ID_INVALID
               PROVE  p.msg_ids[i] < n
    BY DEF Sent, Below
  <2>1. i # q.count
    BY <1>1
  <2>2. i \in 0 .. q.written - 1
    BY <1>1, <1>2, <1>3, <2>1
  <2> QED BY <1>1, <2>1, <2>2 DEF Sent, Below
<1>5. Distinct(p)
  BY <1>1, <1>2 DEF Sent, Distinct
<1>6. Routed(p, w)
  BY <1>1, <1>2 DEF Sent, Routed
<1>7. Carried(p, w)
  BY <1>1, <1>2 DEF Sent, Carried
<1> QED BY <1>4, <1>5, <1>6, <1>7 DEF Sent, p

\* The reply e removes the message in slot r and no other: ids being distinct,
\* the messages that stay in flight stay on the wire.
LEMMA RemoveSent ==
  ASSUME NEW q, IsQueue(q, Objects, Types), NEW n, NEW w, Sent(q, n, w),
         NEW e, NEW r \in Live(q), q.msg_ids[r] = e.id
  PROVE  Sent(RemoveOrdered(q, r), n, w \ {e})
<1> DEFINE p == RemoveOrdered(q, r)
           from(i) == IF r <= i /\ i + 1 < q.count THEN i + 1 ELSE i
<1>1. /\ p.count = q.count - 1 /\ p.written = q.written
      /\ \A i \in 0 .. q.written - 1 :
           p.funcs[i] = q.funcs[from(i)] /\ p.msg_ids[i] = q.msg_ids[from(i)]
  BY RemoveSlots
<1>2. /\ q.count \in Nat /\ q.written \in Nat /\ q.count <= q.written
      /\ r \in 0 .. q.count - 1
  BY QueueParts DEF Live
<1> HIDE DEF p
<1>3. \A i \in 0 .. q.written - 1 : from(i) \in 0 .. q.written - 1
  BY <1>2
<1>4. \A i \in Live(p) : /\ i \in 0 .. q.written - 1
                         /\ from(i) \in Live(q) /\ from(i) # r
  BY <1>1, <1>2 DEF Live
<1>5. \A i, j \in Live(p) : from(i) = from(j) => i = j
  BY <1>1, <1>2 DEF Live
<1> HIDE DEF from
<1>6. Below(p, n, w \ {e})
  BY <1>1, <1>3 DEF Sent, Below
<1>7. Distinct(p)
  BY <1>1, <1>4, <1>5 DEF Sent, Distinct
<1>8. Routed(p, w \ {e})
  BY <1>1, <1>4 DEF Sent, Routed
<1>9. Carried(p, w \ {e})
  <2> SUFFICES ASSUME NEW i \in Live(p), p.msg_ids[i] # MSG_ID_INVALID
               PROVE  \E f \in w \ {e} : f.id = p.msg_ids[i]
    BY DEF Carried
  <2>1. from(i) \in Live(q) /\ p.msg_ids[i] = q.msg_ids[from(i)] /\ from(i) # r
    BY <1>1, <1>4
  <2>2. PICK f \in w : f.id = q.msg_ids[from(i)]
    BY <2>1 DEF Sent, Carried
  <2>3. q.msg_ids[from(i)] # q.msg_ids[r]
    BY <2>1 DEF Sent, Distinct
  <2>4. f # e
    BY <2>2, <2>3
  <2> QED BY <2>1, <2>2, <2>4
<1> QED BY <1>6, <1>7, <1>8, <1>9 DEF Sent, p

\* The ids of a flush are new: not below message_id, and one for each message.
LEMMA FlushIds ==
  ASSUME TypeOK, OnEvTimeoutFlush, MaxIds < MSG_ID_INVALID
  PROVE  /\ message_id \in Nat /\ message_id' \in Nat
         /\ message_id <= message_id' /\ message_id' <= MaxIds
         /\ \A i \in Outgoing :
              /\ EnvelopeOf(i).id \in Nat
              /\ message_id <= EnvelopeOf(i).id /\ EnvelopeOf(i).id < message_id'
         /\ \A i, j \in Outgoing : EnvelopeOf(i).id = EnvelopeOf(j).id => i = j
<1>1. /\ message_id \in Nat /\ MSG_ID_INVALID \in Nat /\ MaxIds \in Nat
      /\ message_id + Cardinality(Outgoing) <= MaxIds
      /\ message_id' = IdAfter(message_id, Cardinality(Outgoing), MSG_ID_INVALID)
  BY QueueAssumption, ClientAssumption DEF TypeOK, OnEvTimeoutFlush
<1>2. Outgoing \in SUBSET Int /\ IsFiniteSet(Outgoing) /\ Cardinality(Outgoing) \in Nat
  BY OutgoingType
<1>3. message_id' = message_id + Cardinality(Outgoing)
  <2>1. message_id + Cardinality(Outgoing) < MSG_ID_INVALID
    BY <1>1, <1>2
  <2> QED BY <1>1, <1>2, <2>1, IdAfterExact
<1>4. ASSUME NEW i \in Outgoing
      PROVE  /\ EnvelopeOf(i).id = message_id + Rank(Outgoing, i)
             /\ Rank(Outgoing, i) \in Nat /\ Rank(Outgoing, i) < Cardinality(Outgoing)
  <2>1. Rank(Outgoing, i) \in Nat /\ Rank(Outgoing, i) < Cardinality(Outgoing)
    BY <1>2, RankType
  <2>2. message_id + Rank(Outgoing, i) < MSG_ID_INVALID
    BY <1>1, <1>2, <2>1
  <2>3. IdAfter(message_id, Rank(Outgoing, i), MSG_ID_INVALID) = message_id + Rank(Outgoing, i)
    BY <1>1, <2>1, <2>2, IdAfterExact
  <2> QED BY <2>1, <2>3 DEF EnvelopeOf
<1>5. ASSUME NEW i \in Outgoing, NEW j \in Outgoing, EnvelopeOf(i).id = EnvelopeOf(j).id
      PROVE  i = j
  <2>1. Rank(Outgoing, i) = Rank(Outgoing, j)
    BY <1>1, <1>4, <1>5
  <2>2. ~ (i < j) /\ ~ (j < i)
    BY <1>2, <1>4, <2>1, RankMonotone
  <2>3. i \in Int /\ j \in Int
    BY <1>2
  <2> QED BY <2>2, <2>3
<1>6. \A i \in Outgoing :
        /\ EnvelopeOf(i).id \in Nat
        /\ message_id <= EnvelopeOf(i).id /\ EnvelopeOf(i).id < message_id'
  BY <1>1, <1>2, <1>3, <1>4
<1> QED BY <1>1, <1>2, <1>3, <1>5, <1>6

LEMMA FlushSent ==
  ASSUME TypeOK, ParallelArrays, Sent(outbox, message_id, wire), OnEvTimeoutFlush,
         MaxIds < MSG_ID_INVALID
  PROVE  Sent(outbox', message_id', wire')
<1>1. /\ wire' = wire \cup {EnvelopeOf(i) : i \in Outgoing}
      /\ \A e \in wire : e.id \in Nat
      /\ \A i \in 0 .. outbox.written - 1 : outbox.msg_ids[i] \in Nat
      /\ Live(outbox) \subseteq 0 .. outbox.written - 1
  BY WireIds, QueueParts, QueueAssumption DEF TypeOK, OnEvTimeoutFlush
<1>2. /\ outbox'.written = outbox.written /\ Live(outbox') = Live(outbox)
      /\ outbox'.funcs = outbox.funcs
      /\ \A i \in Outgoing : outbox'.msg_ids[i] = EnvelopeOf(i).id
      /\ \A i \in (0 .. outbox.written - 1) \ Outgoing : outbox'.msg_ids[i] = outbox.msg_ids[i]
  BY FlushSlots
<1>3. /\ message_id \in Nat /\ message_id' \in Nat /\ message_id <= message_id'
      /\ \A i \in Outgoing :
           /\ EnvelopeOf(i).id \in Nat
           /\ message_id <= EnvelopeOf(i).id /\ EnvelopeOf(i).id < message_id'
      /\ \A i, j \in Outgoing : EnvelopeOf(i).id = EnvelopeOf(j).id => i = j
  BY FlushIds
\* An id in the outbox or on the wire is new or old, and the two never meet.
<1>4. \A i \in 0 .. outbox.written - 1 :
        i \notin Outgoing /\ outbox'.msg_ids[i] # MSG_ID_INVALID =>
          outbox'.msg_ids[i] \in Nat /\ outbox'.msg_ids[i] < message_id
  BY <1>1, <1>2 DEF Sent, Below
<1>5. \A e \in wire : e.id < message_id
  BY DEF Sent, Below
<1>6. Below(outbox', message_id', wire')
  <2>1. ASSUME NEW i \in 0 .. outbox'.written - 1, outbox'.msg_ids[i] # MSG_ID_INVALID
        PROVE  outbox'.msg_ids[i] < message_id'
    BY <1>2, <1>3, <1>4, <2>1
  <2>2. ASSUME NEW e \in wire' PROVE e.id < message_id'
    BY <1>1, <1>3, <1>5, <2>2
  <2> QED BY <2>1, <2>2 DEF Below
<1>7. Distinct(outbox')
  <2> SUFFICES ASSUME NEW i \in Live(outbox), NEW j \in Live(outbox),
                      outbox'.msg_ids[i] = outbox'.msg_ids[j], outbox'.msg_ids[i] # MSG_ID_INVALID
               PROVE  i = j
    BY <1>2 DEF Distinct
  <2>1. CASE i \in Outgoing /\ j \in Outgoing
    BY <1>2, <1>3, <2>1
  <2>2. CASE i \notin Outgoing /\ j \notin Outgoing
    BY <1>1, <1>2, <2>2 DEF Sent, Distinct
  <2>3. CASE i \in Outgoing /\ j \notin Outgoing
    BY <1>1, <1>2, <1>3, <1>4, <2>3
  <2>4. CASE i \notin Outgoing /\ j \in Outgoing
    BY <1>1, <1>2, <1>3, <1>4, <2>4
  <2> QED BY <2>1, <2>2, <2>3, <2>4
<1>8. Routed(outbox', wire')
  <2> SUFFICES ASSUME NEW e \in wire', NEW i \in Live(outbox), outbox'.msg_ids[i] = e.id
               PROVE  outbox.funcs[i] = e.type
    BY <1>2 DEF Routed
  <2>0. e.id # MSG_ID_INVALID
    BY <1>1, <1>2, WireIds, FlushSlots
  <2>1. CASE e \in wire
    <3>1. i \notin Outgoing
      BY <1>1, <1>2, <1>3, <1>5, <2>1
    <3> QED BY <1>1, <1>2, <2>1, <3>1 DEF Sent, Routed
  <2>2. CASE e \notin wire
    <3>1. PICK j \in Outgoing : e = EnvelopeOf(j)
      BY <1>1, <2>2
    <3>2. i \in Outgoing
      BY <1>1, <1>3, <1>4, <2>0, <3>1
    <3>3. i = j
      BY <1>2, <1>3, <3>1, <3>2
    <3> QED BY <3>1, <3>3 DEF EnvelopeOf, ParallelArrays
  <2> QED BY <2>1, <2>2
<1>9. Carried(outbox', wire')
  <2> SUFFICES ASSUME NEW i \in Live(outbox), outbox'.msg_ids[i] # MSG_ID_INVALID
               PROVE  \E e \in wire' : e.id = outbox'.msg_ids[i]
    BY <1>2 DEF Carried
  <2>1. CASE i \in Outgoing
    BY <1>1, <1>2, <2>1
  <2>2. CASE i \notin Outgoing
    BY <1>1, <1>2, <2>2 DEF Sent, Carried
  <2> QED BY <2>1, <2>2
<1> QED BY <1>6, <1>7, <1>8, <1>9 DEF Sent

\* Sent is an invariant.
LEMMA SentInvariant ==
  ASSUME MaxIds < MSG_ID_INVALID
  PROVE  Spec => []Sent(outbox, message_id, wire)
<1> DEFINE Inv == Sent(outbox, message_id, wire)
<1>1. Init => Inv
  BY DEF Init, EmptyQueue, Sent, Below, Distinct, Routed, Carried, Live
<1>2. TypeOK /\ ParallelArrays /\ Inv /\ [Next]_vars => Inv'
  <2> SUFFICES ASSUME TypeOK, ParallelArrays, Inv, [Next]_vars PROVE Inv'
    OBVIOUS
  <2>0. /\ IsQueue(outbox, Objects, Types) /\ IsQueue(WithHandshake, Objects, Types) /\ IsQueue(WithConnect, Objects, Types)
        /\ "handshake" \in Types /\ "connect" \in Types
        /\ \A e \in wire : e.id # MSG_ID_INVALID
    BY WithHandshakeType, WithConnectType, WireIds DEF TypeOK, Types
  <2>1. /\ Sent(WithHandshake, message_id, wire)
        /\ Sent(WithConnect, message_id, wire)
    <3>1. Sent(WithHandshake, message_id, wire)
      BY <2>0, PushSent DEF WithHandshake, PushIf
    <3>2. Sent(WithConnect, message_id, wire)
      BY <2>0, <3>1, PushSent DEF WithConnect, PushIf
    <3> QED BY <3>1, <3>2
  <2>2. ASSUME NEW type, Enqueue(type) PROVE Inv'
    <3>1. /\ type \in Types /\ outbox' = PushNew(WithConnect, type)
          /\ UNCHANGED <<message_id, wire>>
      BY <2>2, ClientAssumption DEF Enqueue, Types, counters
    <3>2. Sent(outbox', message_id, wire)
      BY <2>0, <2>1, <3>1, PushSent
    <3> QED BY <3>1, <3>2
  <2>3. CASE Publish \/ (\E channel \in Channels : Subscribe(channel)) \/ Unsubscribe
    BY <2>2, <2>3 DEF Publish, Subscribe, Unsubscribe
  <2>4. CASE Destroy
    <3>1. outbox' = DestroyedQueue /\ wire' = {}
      BY <2>4 DEF Destroy
    <3>2. outbox'.count = 0 /\ outbox'.written = 0
      BY <3>1 DEF DestroyedQueue, EmptyQueue
    <3> QED BY <3>1, <3>2 DEF Sent, Below, Distinct, Routed, Carried, Live
  <2>5. CASE OnEvTimeoutConnect \/ OnEvTimeoutHandshake
    <3>1. outbox' \in {WithConnect, WithHandshake} /\ UNCHANGED <<message_id, wire>>
      BY <2>5 DEF OnEvTimeoutConnect, OnEvTimeoutHandshake, counters
    <3> QED BY <2>1, <3>1
  <2>6. CASE OnEvTimeoutFlush
    BY <2>6, FlushSent
  <2>7. ASSUME UNCHANGED <<outbox, message_id, wire>> PROVE Inv'
    BY <2>7
  <2>8. CASE BatchBegins \/ BatchEnds \/ ExchangeFails \/ CallbackReturns \/ UNCHANGED vars
    BY <2>7, <2>8 DEF BatchBegins, BatchEnds, ExchangeFails, CallbackReturns, vars, counters
  <2>9. ASSUME NEW e \in Answerable, NEW func, Answers(e, func), UNCHANGED message_id
        PROVE  Inv'
    <3>1. PICK at \in Live(outbox) :
            outbox.msg_ids[at] = e.id /\ outbox' = RemoveOrdered(outbox, at)
      BY <2>9, AnsweredSlot
    <3>2. wire' = wire \ {e}
      BY <2>9 DEF Answers
    <3>3. Sent(outbox', message_id, wire')
      BY <2>0, <3>1, <3>2, RemoveSent
    <3> QED BY <2>9, <3>3
  <2>10. ASSUME NEW advice, NEW e \in Answerable,
                \/ RecvConnect(e, advice) \/ RecvAck(e, advice)
                \/ \E outcome \in HandshakeOutcomes : RecvHandshake(e, advice, outcome)
         PROVE  Inv'
    BY <2>9, <2>10 DEF RecvConnect, RecvHandshake, RecvAck, counters
  <2>11. ASSUME NEW advice, NEW e \in Answerable, RecvUnknown(e, advice)
         PROVE  Inv'
    <3>1. UNCHANGED <<outbox, message_id>> /\ wire' = wire \ {e}
      BY <2>11 DEF RecvUnknown, AdviceOnly, counters
    <3>2. \A i \in Live(outbox) : outbox.msg_ids[i] # e.id
      BY <2>0, <2>11, FindType DEF RecvUnknown
    <3>3. Sent(outbox, message_id, wire \ {e})
      BY <3>2 DEF Sent, Below, Distinct, Routed, Carried
    <3> QED BY <3>1, <3>3
  <2>12. ASSUME NEW advice, NEW channel, RecvEvent(channel, advice)
         PROVE  Inv'
    BY <2>7, <2>12 DEF RecvEvent, AdviceOnly, counters
  <2> QED
    BY <2>3, <2>4, <2>5, <2>6, <2>8, <2>10, <2>11, <2>12 DEF Next, Application, Recv
<1> QED
  BY <1>1, <1>2, TypeCorrect, ArraysParallel, PTL DEF Spec

\* Until the ids wrap around, a reply identifies at most one message in flight.
THEOREM IdsUnique ==
  ASSUME MaxIds < MSG_ID_INVALID
  PROVE  Spec => []UniqueIds
<1>1. Sent(outbox, message_id, wire) => UniqueIds
  BY DEF Sent, Distinct, UniqueIds
<1> QED BY <1>1, SentInvariant, PTL

\* Until then, a reply is handled by the handler of the message it replies to,
\* whatever the order of replies and however many messages were removed.
THEOREM RepliesReachHandler ==
  ASSUME MaxIds < MSG_ID_INVALID
  PROVE  Spec => []RepliesRouted
<1>1. TypeOK /\ Sent(outbox, message_id, wire) => RepliesRouted
  <2> SUFFICES ASSUME TypeOK, Sent(outbox, message_id, wire), NEW e \in wire,
                      FindByMsgId(outbox, e.id) # -1
               PROVE  outbox.funcs[FindByMsgId(outbox, e.id)] = e.type
    BY DEF RepliesRouted
  <2>1. /\ FindByMsgId(outbox, e.id) \in Live(outbox)
        /\ outbox.msg_ids[FindByMsgId(outbox, e.id)] = e.id
    BY FindType DEF TypeOK
  <2> QED BY <2>1 DEF Sent, Routed
<1> QED BY <1>1, SentInvariant, TypeCorrect, PTL

\* Until then, a message marked in flight has a reply to come.
THEOREM MarkedStaysOnWire ==
  ASSUME MaxIds < MSG_ID_INVALID
  PROVE  Spec => []MarkedIsOnWire
<1>1. Sent(outbox, message_id, wire) => MarkedIsOnWire
  BY DEF Sent, Carried, MarkedIsOnWire
<1> QED BY <1>1, SentInvariant, PTL

-----------------------------------------------------------------------------
(* The handshake gate, and the three phases of a session *)

Calm == HandshakeOutcomes \subseteq {"success"} /\ "handshake" \notin Advices /\ ~StrayIds

\* Before the first call nothing is queued, scheduled or open.
BeforeCall ==
  /\ reconnect = "retry" /\ handshake_msg_index = -1
  /\ outbox.count = 0 /\ wire = {} /\ open = 0 /\ ~ev_timeout_flush
  /\ loop \in {"idle", "destroyed"}

\* Until it is answered the handshake is in slot 0, where no removal can move
\* it, and it alone is in flight.
AtGate ==
  /\ handshake_msg_index = 0 /\ outbox.count > 0
  /\ outbox.msgs[0].type = "handshake" /\ outbox.funcs[0] = "handshake"
  /\ \A i \in Live(outbox) : i # 0 => outbox.msg_ids[i] = MSG_ID_INVALID
  /\ \A e \in wire : e.id = outbox.msg_ids[0] /\ e.type = "handshake"

Gate ==
  /\ reconnect # "handshake"
  /\ state = "UNCONNECTED" => BeforeCall
  /\ state = "CONNECTING" /\ loop # "destroyed" => AtGate
  /\ state = "CONNECTED" => id # NULL /\ handshake_msg_index = -1
  /\ loop = "destroyed" => handshake_msg_index = -1 /\ wire = {}
  /\ ClientIdAdded

\* A calm server replies to messages on the wire and to nothing else.
LEMMA CalmReplies ==
  ASSUME Calm
  PROVE  Answerable = wire
BY DEF Calm, Answerable

\* With a calm server no advice starts the session over.
LEMMA CalmAdvice ==
  ASSUME Calm, Gate, NEW advice \in Advices \cup {"absent"}
  PROVE  Advised(advice) # "handshake" /\ ~StartOver(advice) /\ StateAdvised(advice) = state
BY DEF Calm, Gate, Advised, StartOver, StateAdvised

\* Issuing a connect leaves the handshake in slot 0.
LEMMA IssueAtGate ==
  ASSUME TypeOK, Gate, loop # "destroyed", IssueHandshake, state # "CONNECTED",
         NEW q \in {WithHandshake, WithConnect}
  PROVE  /\ state' = "CONNECTING" /\ handshake_msg_index' = 0
         /\ IsQueue(q, Objects, Types) /\ q.count > 0
         /\ q.msgs[0].type = "handshake" /\ q.funcs[0] = "handshake"
         /\ \A i \in Live(q) : i # 0 => q.msg_ids[i] = MSG_ID_INVALID
         /\ \A e \in wire : e.id = q.msg_ids[0] /\ e.type = "handshake"
<1>0. /\ IsQueue(outbox, Objects, Types) /\ IsQueue(WithHandshake, Objects, Types) /\ IsQueue(WithConnect, Objects, Types)
      /\ outbox.count \in Nat /\ outbox.written \in Nat /\ outbox.count <= outbox.written
      /\ "handshake" \in Types /\ "connect" \in Types
      /\ state \in {"UNCONNECTED", "CONNECTING"}
  BY WithHandshakeType, WithConnectType, QueueParts DEF TypeOK, Types
<1> DEFINE Good(p) ==
             /\ p.count > 0 /\ p.msgs[0].type = "handshake" /\ p.funcs[0] = "handshake"
             /\ \A i \in Live(p) : i # 0 => p.msg_ids[i] = MSG_ID_INVALID
             /\ \A e \in wire : e.id = p.msg_ids[0] /\ e.type = "handshake"
<1>1. ASSUME NEW p, IsQueue(p, Objects, Types), Good(p), NEW type \in Types
      PROVE  Good(PushNew(p, type))
  <2> DEFINE r == PushNew(p, type)
  <2>1. p.count \in Nat /\ p.written \in Nat /\ p.count <= p.written /\ p.count > 0
    BY <1>1, QueueParts
  <2>2. /\ r.count = p.count + 1 /\ Live(r) = Live(p) \cup {p.count}
        /\ r.msg_ids[p.count] = MSG_ID_INVALID
        /\ \A i \in 0 .. p.written - 1 : i # p.count =>
             r.msgs[i] = p.msgs[i] /\ r.funcs[i] = p.funcs[i] /\ r.msg_ids[i] = p.msg_ids[i]
    BY <1>1, NewSlots
  <2> HIDE DEF r
  <2>3. 0 \in 0 .. p.written - 1 /\ 0 # p.count
    BY <2>1
  <2>4. r.msgs[0] = p.msgs[0] /\ r.funcs[0] = p.funcs[0] /\ r.msg_ids[0] = p.msg_ids[0]
    BY <2>2, <2>3
  <2>5. ASSUME NEW i \in Live(r), i # 0 PROVE r.msg_ids[i] = MSG_ID_INVALID
    <3>1. CASE i = p.count
      BY <2>2, <3>1
    <3>2. CASE i # p.count
      <4>1. i \in Live(p) /\ i \in 0 .. p.written - 1
        BY <2>1, <2>2, <2>5, <3>2 DEF Live
      <4> QED BY <1>1, <2>2, <2>5, <3>2, <4>1
    <3> QED BY <3>1, <3>2
  <2>6. r.count > 0
    BY <2>1, <2>2
  <2> QED BY <1>1, <2>4, <2>5, <2>6 DEF r
<1>2. Good(WithHandshake) /\ state' = "CONNECTING" /\ handshake_msg_index' = 0
  <2>1. CASE state = "UNCONNECTED"
    <3>1. HandshakeDue /\ outbox.count = 0 /\ wire = {}
      BY <2>1 DEF Gate, BeforeCall, HandshakeDue
    <3>2. WithHandshake = PushNew(outbox, "handshake")
      BY <3>1 DEF WithHandshake, PushIf
    <3>3. /\ WithHandshake.count = 1 /\ Live(WithHandshake) = Live(outbox) \cup {0}
          /\ WithHandshake.msgs[0].type = "handshake" /\ WithHandshake.funcs[0] = "handshake"
      BY <1>0, <3>1, <3>2, NewSlots
    <3>4. Live(outbox) = {}
      BY <3>1 DEF Live
    <3>5. state' = "CONNECTING" /\ handshake_msg_index' = 0
      BY <3>1 DEF IssueHandshake
    <3> QED BY <3>1, <3>3, <3>4, <3>5
  <2>2. CASE state = "CONNECTING"
    <3>1. ~HandshakeDue /\ AtGate
      BY <2>2 DEF HandshakeDue, Gate
    <3>2. WithHandshake = outbox
      BY <3>1 DEF WithHandshake, PushIf
    <3>3. state' = "CONNECTING" /\ handshake_msg_index' = 0
      BY <2>2, <3>1 DEF IssueHandshake, AtGate
    <3> QED BY <3>1, <3>2, <3>3 DEF AtGate
  <2> QED BY <1>0, <2>1, <2>2
<1>3. Good(WithConnect)
  <2>1. CASE ConnectDue
    <3>1. WithConnect = PushNew(WithHandshake, "connect")
      BY <2>1 DEF WithConnect, PushIf
    <3> QED BY <1>0, <1>1, <1>2, <3>1
  <2>2. CASE ~ConnectDue
    <3>1. WithConnect = WithHandshake
      BY <2>2 DEF WithConnect, PushIf
    <3> QED BY <1>2, <3>1
  <2> QED BY <2>1, <2>2
<1> QED BY <1>0, <1>2, <1>3

\* At the gate only the handshake can be answered.
LEMMA GateAnswer ==
  ASSUME TypeOK, Gate, NEW e \in wire, NEW func, Answers(e, func), state # "CONNECTED"
  PROVE  state = "CONNECTING" /\ func = "handshake"
<1>1. loop = "batch"
  BY DEF Answers
<1>2. state = "CONNECTING" /\ AtGate
  BY <1>1 DEF Gate, BeforeCall, TypeOK
<1>3. PICK at \in Live(outbox) :
        outbox.funcs[at] = func /\ outbox.msg_ids[at] = e.id /\ e.id # MSG_ID_INVALID
  BY AnsweredSlot DEF Answerable
<1>4. at = 0
  BY <1>2, <1>3 DEF AtGate
<1> QED BY <1>2, <1>3, <1>4 DEF AtGate

\* The gate holds in every step of a calm session.
LEMMA GateStep ==
  ASSUME Calm, TypeOK, Gate, [Next]_vars
  PROVE  Gate'
<1> USE DEF session, counters, timers
<1>0. /\ IsQueue(outbox, Objects, Types) /\ Answerable = wire
      /\ state \in {"UNCONNECTED", "CONNECTING", "CONNECTED"}
  BY CalmReplies DEF TypeOK
\* Steps that queue: q is the outbox after issue_handshake or issue_connect.
<1>1. ASSUME IssueHandshake, UNCHANGED <<wire, loop>>, loop # "destroyed",
             NEW q \in {WithHandshake, WithConnect},
             \/ outbox' = q
             \/ \E type \in CallTypes : outbox' = PushNew(q, type)
      PROVE  Gate'
  <2>1. reconnect' # "handshake" /\ ClientIdAdded' /\ loop' # "destroyed" /\ id' = id
    BY <1>1 DEF Gate, IssueHandshake, ClientIdAdded
  <2>2. CASE state = "CONNECTED"
    <3>1. state' = "CONNECTED" /\ handshake_msg_index' = -1 /\ id # NULL
      BY <1>1, <2>2 DEF IssueHandshake, HandshakeDue, Gate
    <3> QED BY <2>1, <3>1 DEF Gate
  <2>3. CASE state # "CONNECTED"
    <3>1. /\ state' = "CONNECTING" /\ handshake_msg_index' = 0
          /\ IsQueue(q, Objects, Types) /\ q.count > 0
          /\ q.msgs[0].type = "handshake" /\ q.funcs[0] = "handshake"
          /\ \A i \in Live(q) : i # 0 => q.msg_ids[i] = MSG_ID_INVALID
          /\ \A e \in wire : e.id = q.msg_ids[0] /\ e.type = "handshake"
      BY <1>1, <2>3, IssueAtGate
    <3>2. AtGate'
      <4>1. CASE outbox' = q
        BY <1>1, <3>1, <4>1 DEF AtGate
      <4>2. ASSUME NEW type \in CallTypes, outbox' = PushNew(q, type)
            PROVE  AtGate'
        <5>1. q.count \in Nat /\ q.written \in Nat /\ q.count <= q.written /\ type \in Types
          BY <3>1, QueueParts DEF Types
        <5>2. /\ outbox'.count = q.count + 1 /\ Live(outbox') = Live(q) \cup {q.count}
              /\ outbox'.msg_ids[q.count] = MSG_ID_INVALID
              /\ \A i \in 0 .. q.written - 1 : i # q.count =>
                   /\ outbox'.msgs[i] = q.msgs[i] /\ outbox'.funcs[i] = q.funcs[i]
                   /\ outbox'.msg_ids[i] = q.msg_ids[i]
          BY <3>1, <4>2, <5>1, NewSlots
        <5>3. 0 \in 0 .. q.written - 1 /\ 0 # q.count /\ outbox'.count > 0
          BY <3>1, <5>1, <5>2
        <5>4. ASSUME NEW i \in Live(outbox'), i # 0
              PROVE  outbox'.msg_ids[i] = MSG_ID_INVALID
          <6>1. CASE i = q.count
            BY <5>2, <6>1
          <6>2. CASE i # q.count
            <7>1. i \in Live(q) /\ i \in 0 .. q.written - 1
              BY <5>1, <5>2, <5>4, <6>2 DEF Live
            <7> QED BY <3>1, <5>2, <5>4, <6>2, <7>1
          <6> QED BY <6>1, <6>2
        <5> QED BY <1>1, <3>1, <5>2, <5>3, <5>4 DEF AtGate
      <4> QED BY <1>1, <4>1, <4>2
    <3> QED BY <2>1, <3>1, <3>2 DEF Gate
  <2> QED BY <2>2, <2>3
<1>2. ASSUME NEW type, Enqueue(type) PROVE Gate'
  <2>1. /\ IssueHandshake /\ UNCHANGED <<wire, loop>> /\ loop # "destroyed"
        /\ type \in CallTypes /\ outbox' = PushNew(WithConnect, type)
    BY <1>2, ClientAssumption DEF Enqueue, IssueConnect
  <2> QED BY <1>1, <2>1
<1>3. CASE Publish \/ (\E channel \in Channels : Subscribe(channel)) \/ Unsubscribe
  BY <1>2, <1>3 DEF Publish, Subscribe, Unsubscribe
<1>4. CASE OnEvTimeoutConnect
  <2>1. /\ IssueHandshake /\ UNCHANGED <<wire, loop>> /\ loop # "destroyed" /\ outbox' = WithConnect
    BY <1>4 DEF OnEvTimeoutConnect, IssueConnect
  <2> QED BY <1>1, <2>1
<1>5. CASE OnEvTimeoutHandshake
  <2>1. /\ IssueHandshake /\ UNCHANGED <<wire, loop>> /\ loop # "destroyed"
        /\ outbox' = WithHandshake
    BY <1>5 DEF OnEvTimeoutHandshake
  <2> QED BY <1>1, <2>1
<1>6. CASE Destroy
  <2>1. /\ loop' = "destroyed" /\ outbox' = DestroyedQueue /\ handshake_msg_index' = -1
        /\ wire' = {} /\ open' = 0 /\ ~ev_timeout_flush' /\ UNCHANGED <<state, reconnect, id>>
    BY <1>6 DEF Destroy
  <2>2. outbox'.count = 0 /\ ClientIdAdded'
    BY <2>1 DEF DestroyedQueue, EmptyQueue, ClientIdAdded
  <2> QED BY <2>1, <2>2 DEF Gate, BeforeCall
<1>7. CASE OnEvTimeoutFlush
  <2>1. /\ UNCHANGED <<state, reconnect, id, handshake_msg_index, loop>>
        /\ loop = "idle" /\ ev_timeout_flush
        /\ wire' = wire \cup {EnvelopeOf(i) : i \in Outgoing}
    BY <1>7 DEF OnEvTimeoutFlush
  <2>2. state # "UNCONNECTED"
    BY <2>1 DEF Gate, BeforeCall
  <2>3. CASE state = "CONNECTED"
    <3>1. \A i \in Outgoing : EnvelopeOf(i).clientId # NULL
      BY <2>3 DEF EnvelopeOf, Gate
    <3>2. ClientIdAdded'
      BY <2>1, <3>1 DEF ClientIdAdded, Gate
    <3> QED BY <2>1, <2>3, <3>2 DEF Gate
  <2>4. CASE state = "CONNECTING"
    <3>1. AtGate
      BY <2>1, <2>4 DEF Gate
    <3>2. /\ outbox'.count = outbox.count /\ Live(outbox') = Live(outbox)
          /\ outbox'.msgs = outbox.msgs /\ outbox'.funcs = outbox.funcs
          /\ \A i \in Outgoing : outbox'.msg_ids[i] = EnvelopeOf(i).id
          /\ \A i \in (0 .. outbox.written - 1) \ Outgoing : outbox'.msg_ids[i] = outbox.msg_ids[i]
      BY <1>7, FlushSlots
    <3>3. Outgoing = IF outbox.msg_ids[0] = MSG_ID_INVALID THEN {0} ELSE {}
      BY <3>1 DEF AtGate, Outgoing
    <3>4. 0 \in 0 .. outbox.written - 1 /\ \A i \in Live(outbox) : i \in 0 .. outbox.written - 1
      BY <1>0, <3>1, QueueParts DEF AtGate
    <3>5. \A i \in Live(outbox') : i # 0 => outbox'.msg_ids[i] = MSG_ID_INVALID
      BY <3>1, <3>2, <3>3, <3>4 DEF AtGate
    <3>6. ASSUME NEW e \in wire'
          PROVE  e.id = outbox'.msg_ids[0] /\ e.type = "handshake"
      <4>1. CASE outbox.msg_ids[0] = MSG_ID_INVALID
        <5>1. wire = {}
          BY <3>1, <4>1, WireIds DEF AtGate
        <5>2. e = EnvelopeOf(0) /\ 0 \in Outgoing
          BY <2>1, <3>3, <3>6, <4>1, <5>1
        <5>3. e.id = EnvelopeOf(0).id /\ e.type = outbox.msgs[0].type
          BY <5>2 DEF EnvelopeOf
        <5> QED BY <3>1, <3>2, <5>2, <5>3 DEF AtGate
      <4>2. CASE outbox.msg_ids[0] # MSG_ID_INVALID
        <5>1. e \in wire /\ 0 \notin Outgoing
          BY <2>1, <3>3, <3>6, <4>2
        <5> QED BY <3>1, <3>2, <3>4, <5>1 DEF AtGate
      <4> QED BY <4>1, <4>2
    <3>7. AtGate'
      BY <2>1, <3>1, <3>2, <3>5, <3>6 DEF AtGate
    <3>8. ClientIdAdded'
      BY <3>6 DEF ClientIdAdded
    <3> QED BY <2>1, <2>4, <3>7, <3>8 DEF Gate
  <2> QED BY <1>0, <2>2, <2>3, <2>4
\* Steps that change nothing the gate depends on.
<1>8. ASSUME UNCHANGED <<outbox, state, id, handshake_msg_index>>, wire' \subseteq wire,
             reconnect' # "handshake", loop' # "destroyed", loop # "destroyed",
             state # "UNCONNECTED"
      PROVE  Gate'
  <2>1. ClientIdAdded'
    BY <1>8 DEF Gate, ClientIdAdded
  <2>2. state = "CONNECTING" => AtGate'
    BY <1>8 DEF Gate, AtGate, Live
  <2> QED BY <1>8, <2>1, <2>2 DEF Gate
<1>9. CASE BatchBegins \/ BatchEnds \/ ExchangeFails \/ CallbackReturns
  <2>1. /\ UNCHANGED <<outbox, state, id, handshake_msg_index, reconnect, wire>>
        /\ loop # "destroyed" /\ loop' # "destroyed"
    BY <1>9 DEF BatchBegins, BatchEnds, ExchangeFails, CallbackReturns
  <2>2. state # "UNCONNECTED"
    BY <1>9 DEF BatchBegins, BatchEnds, ExchangeFails, CallbackReturns, Gate, BeforeCall
  <2> QED BY <1>8, <2>1, <2>2 DEF Gate
<1>10. ASSUME NEW e \in Answerable, NEW func, Answers(e, func), state = "CONNECTED",
              state' = "CONNECTED", id' # NULL, handshake_msg_index' = -1, loop' = loop,
              reconnect' # "handshake"
       PROVE  Gate'
  <2>1. wire' \subseteq wire /\ loop = "batch"
    BY <1>10 DEF Answers
  <2>2. ClientIdAdded'
    BY <2>1 DEF Gate, ClientIdAdded
  <2> QED BY <1>10, <2>1, <2>2 DEF Gate
<1>11. ASSUME NEW advice \in Advices \cup {"absent"}, NEW e \in Answerable,
              RecvConnect(e, advice) \/ RecvAck(e, advice)
       PROVE  Gate'
  <2>1. PICK func \in Types \ {"handshake"} : Answers(e, func)
    BY <1>11 DEF RecvConnect, RecvAck, Types, CallTypes
  <2>2. state = "CONNECTED"
    BY <1>0, <2>1, GateAnswer
  <2>3. /\ state' = state /\ reconnect' # "handshake" /\ UNCHANGED <<id, handshake_msg_index, loop>>
    BY <1>11, CalmAdvice DEF RecvConnect, RecvAck
  <2> QED BY <1>10, <2>1, <2>2, <2>3 DEF Gate
<1>12. ASSUME NEW advice \in Advices \cup {"absent"}, NEW e \in Answerable,
              NEW outcome \in HandshakeOutcomes, RecvHandshake(e, advice, outcome)
       PROVE  Gate'
  <2>1. outcome = "success" /\ reconnect' # "handshake"
    BY <1>12, CalmAdvice DEF Calm, RecvHandshake
  <2>2. /\ state' = "CONNECTED" /\ id' # NULL /\ handshake_msg_index' = -1 /\ loop' = loop
    BY <1>12, <2>1, ClientAssumption DEF RecvHandshake
  <2>3. wire' \subseteq wire /\ loop = "batch"
    BY <1>12 DEF RecvHandshake, Answers
  <2>4. ClientIdAdded'
    BY <2>3 DEF Gate, ClientIdAdded
  <2> QED BY <2>1, <2>2, <2>3, <2>4 DEF Gate
<1>13. ASSUME NEW advice \in Advices \cup {"absent"}, AdviceOnly(advice), wire' \subseteq wire,
              loop' \in {"batch", "callback"}
       PROVE  Gate'
  <2>1. /\ UNCHANGED <<outbox, state, id, handshake_msg_index>> /\ reconnect' # "handshake"
        /\ loop = "batch"
    BY <1>13, CalmAdvice DEF AdviceOnly
  <2>2. state # "UNCONNECTED"
    BY <2>1 DEF Gate, BeforeCall
  <2> QED BY <1>8, <1>13, <2>1, <2>2
<1>14. ASSUME NEW advice \in Advices \cup {"absent"}, NEW e \in Answerable, RecvUnknown(e, advice)
       PROVE  Gate'
  BY <1>13, <1>14 DEF RecvUnknown, AdviceOnly
<1>15. ASSUME NEW advice \in Advices \cup {"absent"}, NEW channel, RecvEvent(channel, advice)
       PROVE  Gate'
  <2>1. AdviceOnly(advice) /\ wire' = wire /\ loop' \in {"batch", "callback"}
    BY <1>15 DEF RecvEvent, AdviceOnly
  <2> QED BY <1>13, <2>1
<1>16. CASE UNCHANGED vars
  BY <1>16 DEF vars, Gate, BeforeCall, AtGate, ClientIdAdded, Live
<1> QED
  BY <1>3, <1>4, <1>5, <1>6, <1>7, <1>9, <1>11, <1>12, <1>14, <1>15, <1>16
     DEF Next, Application, Recv

LEMMA GateInvariant ==
  ASSUME Calm
  PROVE  Spec => []Gate
<1>1. Init => Gate
  BY DEF Init, EmptyQueue, Gate, BeforeCall, ClientIdAdded
<1>2. TypeOK /\ Gate /\ [Next]_vars => Gate'
  BY GateStep
<1> QED
  BY <1>1, <1>2, TypeCorrect, PTL DEF Spec

\* With a calm server nothing but the handshake is sent before the client has
\* its id, whatever is called and however long the queue grows meanwhile.
THEOREM ClientIdAlwaysAdded ==
  ASSUME Calm
  PROVE  Spec => []ClientIdAdded
<1>1. Gate => ClientIdAdded
  BY DEF Gate
<1> QED BY <1>1, GateInvariant, PTL

\* With a calm server handshake_msg_index denotes a live handshake whenever it
\* denotes anything.
THEOREM HandshakeIndexStaysLive ==
  ASSUME Calm
  PROVE  Spec => []HandshakeIndexLive
<1>1. TypeOK /\ Gate => HandshakeIndexLive
  <2> SUFFICES ASSUME TypeOK, Gate, handshake_msg_index # -1 PROVE HandshakeIndexLive
    BY DEF HandshakeIndexLive
  <2>1. AtGate
    BY DEF Gate, BeforeCall, TypeOK
  <2>2. outbox.count \in Nat
    BY QueueParts DEF TypeOK
  <2> QED BY <2>1, <2>2 DEF AtGate, HandshakeIndexLive, Live
<1> QED BY <1>1, GateInvariant, TypeCorrect, PTL

-----------------------------------------------------------------------------
(* Messages in flight *)

\* Each message on the wire has a live slot marked with its id, and no other
\* message on the wire has that id.
Tracked(q, w) ==
  /\ \A e \in w : \E i \in Live(q) : q.msg_ids[i] = e.id
  /\ \A e, f \in w : e.id = f.id => e = f

\* A message that is pushed does not take a marked slot.
LEMMA PushTracked ==
  ASSUME NEW q, IsQueue(q, Objects, Types), NEW type \in Types, NEW w, Tracked(q, w)
  PROVE  Tracked(PushNew(q, type), w)
<1> DEFINE p == PushNew(q, type)
<1>1. /\ Live(p) = Live(q) \cup {q.count}
      /\ \A i \in 0 .. q.written - 1 : i # q.count => p.msg_ids[i] = q.msg_ids[i]
  BY NewSlots
<1>2. \A i \in Live(q) : i \in 0 .. q.written - 1 /\ i # q.count
  BY QueueParts DEF Live
<1> HIDE DEF p
<1>3. Tracked(p, w)
  BY <1>1, <1>2 DEF Tracked
<1> QED BY <1>3 DEF p

\* The reply e takes its own slot away, and only that.
LEMMA RemoveTracked ==
  ASSUME NEW q, IsQueue(q, Objects, Types), NEW w, Tracked(q, w),
         NEW e \in w, NEW r \in Live(q), q.msg_ids[r] = e.id
  PROVE  Tracked(RemoveOrdered(q, r), w \ {e})
<1> DEFINE p == RemoveOrdered(q, r)
           from(i) == IF r <= i /\ i + 1 < q.count THEN i + 1 ELSE i
<1>1. /\ p.count = q.count - 1
      /\ \A i \in 0 .. q.written - 1 : p.msg_ids[i] = q.msg_ids[from(i)]
  BY RemoveSlots
<1>2. /\ q.count \in Nat /\ q.written \in Nat /\ q.count <= q.written
      /\ r \in 0 .. q.count - 1
  BY QueueParts DEF Live
<1> HIDE DEF p
<1>3. ASSUME NEW i \in Live(q), i # r
      PROVE  \E j \in Live(p) : p.msg_ids[j] = q.msg_ids[i]
  <2>1. CASE i < r
    <3>1. i \in Live(p) /\ i \in 0 .. q.written - 1 /\ from(i) = i
      BY <1>1, <1>2, <1>3, <2>1 DEF Live
    <3> QED BY <1>1, <3>1
  <2>2. CASE i > r
    <3>1. i - 1 \in Live(p) /\ i - 1 \in 0 .. q.written - 1 /\ from(i - 1) = i
      BY <1>1, <1>2, <1>3, <2>2 DEF Live
    <3> QED BY <1>1, <3>1
  <2>3. i \in Int /\ r \in Int
    BY <1>2, <1>3 DEF Live
  <2> QED BY <1>3, <2>1, <2>2, <2>3
<1>4. ASSUME NEW f \in w \ {e}
      PROVE  \E j \in Live(p) : p.msg_ids[j] = f.id
  <2>1. PICK i \in Live(q) : q.msg_ids[i] = f.id
    BY <1>4 DEF Tracked
  <2>2. i # r
    BY <1>4, <2>1 DEF Tracked
  <2> QED BY <1>3, <2>1, <2>2
<1>5. Tracked(p, w \ {e})
  BY <1>4 DEF Tracked
<1> QED BY <1>5 DEF p

\* In a calm session a flush sends live slots, and marks them.
LEMMA FlushTracked ==
  ASSUME Calm, MaxIds < MSG_ID_INVALID, TypeOK, Gate, OnEvTimeoutFlush,
         Sent(outbox, message_id, wire), Tracked(outbox, wire)
  PROVE  Tracked(outbox', wire')
<1>1. Outgoing \subseteq Unsent(outbox)
  <2>1. loop = "idle"
    BY DEF OnEvTimeoutFlush
  <2>2. CASE handshake_msg_index = -1
    BY <2>2 DEF Outgoing
  <2>3. CASE handshake_msg_index # -1
    <3>1. AtGate
      BY <2>1, <2>3 DEF Gate, BeforeCall, TypeOK
    <3>2. 0 \in Live(outbox)
      BY <3>1, QueueParts DEF AtGate, Live, TypeOK
    <3> QED BY <3>1, <3>2 DEF AtGate, Outgoing, Unsent
  <2> QED BY <2>2, <2>3
<1>2. /\ Live(outbox') = Live(outbox)
      /\ \A i \in Outgoing : outbox'.msg_ids[i] = EnvelopeOf(i).id
      /\ \A i \in (0 .. outbox.written - 1) \ Outgoing : outbox'.msg_ids[i] = outbox.msg_ids[i]
      /\ \A i \in Live(outbox) : i \in 0 .. outbox.written - 1
  BY FlushSlots, QueueParts DEF TypeOK
<1>3. /\ wire' = wire \cup {EnvelopeOf(i) : i \in Outgoing}
      /\ \A e \in wire : e.id \in Nat /\ e.id # MSG_ID_INVALID /\ e.id < message_id
  BY WireIds DEF OnEvTimeoutFlush, Sent, Below
<1>4. /\ message_id \in Nat
      /\ \A i \in Outgoing : EnvelopeOf(i).id \in Nat /\ message_id <= EnvelopeOf(i).id
      /\ \A i, j \in Outgoing : EnvelopeOf(i).id = EnvelopeOf(j).id => i = j
  BY FlushIds
<1>5. ASSUME NEW e \in wire'
      PROVE  \E i \in Live(outbox') : outbox'.msg_ids[i] = e.id
  <2>1. CASE e \in wire
    <3>1. PICK i \in Live(outbox) : outbox.msg_ids[i] = e.id
      BY <2>1 DEF Tracked
    <3>2. i \notin Outgoing
      BY <1>1, <1>3, <2>1, <3>1 DEF Unsent
    <3> QED BY <1>2, <3>1, <3>2
  <2>2. CASE e \notin wire
    <3>1. PICK i \in Outgoing : e = EnvelopeOf(i)
      BY <1>3, <1>5, <2>2
    <3>2. i \in Live(outbox)
      BY <1>1 DEF Unsent
    <3> QED BY <1>2, <3>1, <3>2
  <2> QED BY <2>1, <2>2
<1>6. ASSUME NEW e \in wire', NEW f \in wire', e.id = f.id
      PROVE  e = f
  <2>1. CASE e \in wire /\ f \in wire
    BY <1>6, <2>1 DEF Tracked
  <2>2. CASE e \in wire /\ f \notin wire
    <3>1. PICK i \in Outgoing : f = EnvelopeOf(i)
      BY <1>3, <1>6, <2>2
    <3> QED BY <1>3, <1>4, <1>6, <2>2, <3>1
  <2>3. CASE e \notin wire /\ f \in wire
    <3>1. PICK i \in Outgoing : e = EnvelopeOf(i)
      BY <1>3, <1>6, <2>3
    <3> QED BY <1>3, <1>4, <1>6, <2>3, <3>1
  <2>4. CASE e \notin wire /\ f \notin wire
    <3>1. PICK i \in Outgoing, j \in Outgoing : e = EnvelopeOf(i) /\ f = EnvelopeOf(j)
      BY <1>3, <1>6, <2>4
    <3>2. i = j
      BY <1>4, <1>6, <3>1
    <3> QED BY <3>1, <3>2
  <2> QED BY <2>1, <2>2, <2>3, <2>4
<1> QED BY <1>5, <1>6 DEF Tracked

\* With a calm server, and until the ids wrap around, a message that was sent
\* and not answered is marked in flight in the outbox: it is not sent twice,
\* and its reply will find it.
THEOREM InFlightStaysMarked ==
  ASSUME Calm, MaxIds < MSG_ID_INVALID
  PROVE  Spec => []InFlightMarked
<1> DEFINE Inv == Tracked(outbox, wire)
<1>1. Init => Inv
  BY DEF Init, Tracked
<1>2. TypeOK /\ Gate /\ Sent(outbox, message_id, wire) /\ Inv /\ [Next]_vars => Inv'
  <2> SUFFICES ASSUME TypeOK, Gate, Sent(outbox, message_id, wire), Inv, [Next]_vars
               PROVE  Inv'
    OBVIOUS
  <2>0. /\ IsQueue(outbox, Objects, Types) /\ IsQueue(WithHandshake, Objects, Types) /\ IsQueue(WithConnect, Objects, Types)
        /\ "handshake" \in Types /\ "connect" \in Types /\ Answerable = wire
    BY WithHandshakeType, WithConnectType, CalmReplies DEF TypeOK, Types
  <2>1. Tracked(WithHandshake, wire)
    BY <2>0, PushTracked DEF WithHandshake, PushIf
  <2>2. Tracked(WithConnect, wire)
    BY <2>0, <2>1, PushTracked DEF WithConnect, PushIf
  <2>3. ASSUME NEW type, Enqueue(type) PROVE Inv'
    <3>1. type \in Types /\ outbox' = PushNew(WithConnect, type) /\ wire' = wire
      BY <2>3, ClientAssumption DEF Enqueue, Types
    <3>2. Tracked(outbox', wire)
      BY <2>0, <2>2, <3>1, PushTracked
    <3> QED BY <3>1, <3>2
  <2>4. CASE Publish \/ (\E channel \in Channels : Subscribe(channel)) \/ Unsubscribe
    BY <2>3, <2>4 DEF Publish, Subscribe, Unsubscribe
  <2>5. CASE Destroy
    <3>1. wire' = {}
      BY <2>5 DEF Destroy
    <3> QED BY <3>1 DEF Tracked
  <2>6. CASE OnEvTimeoutConnect \/ OnEvTimeoutHandshake
    <3>1. outbox' \in {WithConnect, WithHandshake} /\ wire' = wire
      BY <2>6 DEF OnEvTimeoutConnect, OnEvTimeoutHandshake
    <3> QED BY <2>1, <2>2, <3>1
  <2>7. CASE OnEvTimeoutFlush
    BY <2>7, FlushTracked
  <2>8. ASSUME outbox' = outbox, wire' \subseteq wire PROVE Inv'
    BY <2>8 DEF Tracked
  <2>9. CASE BatchBegins \/ BatchEnds \/ ExchangeFails \/ CallbackReturns \/ UNCHANGED vars
    <3>1. outbox' = outbox /\ wire' = wire
      BY <2>9 DEF BatchBegins, BatchEnds, ExchangeFails, CallbackReturns, vars
    <3> QED BY <2>8, <3>1
  <2>10. ASSUME NEW e \in Answerable, NEW func, Answers(e, func) PROVE Inv'
    <3>1. PICK at \in Live(outbox) :
            outbox.msg_ids[at] = e.id /\ outbox' = RemoveOrdered(outbox, at)
      BY <2>10, AnsweredSlot
    <3>2. wire' = wire \ {e}
      BY <2>10 DEF Answers
    <3>3. Tracked(outbox', wire')
      BY <2>0, <3>1, <3>2, RemoveTracked
    <3> QED BY <3>3
  <2>11. ASSUME NEW advice, NEW e \in Answerable,
                \/ RecvConnect(e, advice) \/ RecvAck(e, advice)
                \/ \E outcome \in HandshakeOutcomes : RecvHandshake(e, advice, outcome)
         PROVE  Inv'
    BY <2>10, <2>11 DEF RecvConnect, RecvHandshake, RecvAck
  <2>12. ASSUME NEW advice, NEW e \in Answerable, RecvUnknown(e, advice) PROVE Inv'
    <3>1. outbox' = outbox /\ wire' \subseteq wire
      BY <2>12 DEF RecvUnknown, AdviceOnly
    <3> QED BY <2>8, <3>1
  <2>13. ASSUME NEW advice, NEW channel, RecvEvent(channel, advice) PROVE Inv'
    <3>1. outbox' = outbox /\ wire' = wire
      BY <2>13 DEF RecvEvent, AdviceOnly
    <3> QED BY <2>8, <3>1
  <2> QED
    BY <2>4, <2>5, <2>6, <2>7, <2>9, <2>11, <2>12, <2>13 DEF Next, Application, Recv
<1>3. Inv => InFlightMarked
  BY DEF Tracked, InFlightMarked
<1> QED
  BY <1>1, <1>2, <1>3, TypeCorrect, GateInvariant, SentInvariant, PTL DEF Spec

=============================================================================
