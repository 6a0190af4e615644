------------------------------- MODULE Outbox -------------------------------
(***************************************************************************)
(* The MsgQueue of src/src/bayeux.c by itself, with messages that can be   *)
(* told apart: they are numbered in the order they are pushed, and a       *)
(* message's number stands for its handler too.  In BayeuxClient it is the *)
(* type that tells messages apart.                                         *)
(*                                                                         *)
(* The client pushes, flushes the whole queue or one slot of it, and       *)
(* removes the message a reply answers.  on_batch_send_err, the answer to  *)
(* a failed send, is part of the queue although nothing calls it yet.      *)
(***************************************************************************)
EXTENDS MsgQueue, Sequences

CONSTANTS
  SendErrors,  \* whether on_batch_send_err is called
  StrayIds,    \* whether replies may carry an id that is read as MSG_ID_INVALID
  MaxQueued,   \* bound: messages held
  MaxPushed,   \* bound: messages pushed
  MaxIssued    \* bound: message ids handed out

ASSUME OutboxAssumption ==
  /\ SendErrors \in BOOLEAN /\ StrayIds \in BOOLEAN
  /\ MaxQueued \in Nat /\ MaxPushed \in Nat /\ MaxIssued \in Nat

VARIABLES
  queue,
  message_id, batch_id,  \* of the client: the next to hand out
  request,               \* tokens of the text built by the last flush
  pushed,                \* messages pushed so far
  issued,                \* ids handed out so far
  sent_as,               \* of each message in flight, which id it was (1st, 2nd, ...)
  handled                \* the message whose handler was called last, 0 at first

vars == <<queue, message_id, batch_id, request, pushed, issued, sent_as, handled>>

Init ==
  /\ queue = EmptyQueue
  /\ message_id = 0 /\ batch_id = 0
  /\ request = <<>>
  /\ pushed = 0 /\ issued = 0
  /\ sent_as = [m \in {} |-> 0]
  /\ handled = 0

-----------------------------------------------------------------------------
PushMsg ==
  /\ pushed < MaxPushed /\ queue.count < MaxQueued
  /\ pushed' = pushed + 1
  /\ queue' = Push(queue, pushed + 1, pushed + 1)
  /\ UNCHANGED <<message_id, batch_id, request, issued, sent_as, handled>>

\* Faulty: a comma before every message but the oldest of all.
WithMessageBySlot(text, m) == IF m > 1 THEN text \o <<",", m>> ELSE Append(text, m)

\* The text with one more message: a comma comes first unless the text is
\* the opening bracket alone.
WithMessage(text, m) ==
  IF Len(text) > 1 THEN text \o <<",", m>> ELSE Append(text, m)

\* The text after the loop over the slots below n, those of S only.
Text(S) ==
  LET text[n \in 0 .. queue.count] ==
        IF n = 0 THEN <<"[">>
        ELSE IF n - 1 \in S THEN WithMessage(text[n - 1], queue.msgs[n - 1])
        ELSE text[n - 1]
  IN  Append(text[queue.count], "]")

\* The messages of the slots S are sent.
Sends(S) ==
  /\ issued + Cardinality(S) <= MaxIssued
  /\ queue' = AssignIds(queue, S, message_id, batch_id)
  /\ message_id' = IdAfter(message_id, Cardinality(S), MSG_ID_INVALID)
  /\ batch_id' = IdAfter(batch_id, 1, BATCH_ID_INVALID)
  /\ request' = Text(S)
  /\ issued' = issued + Cardinality(S)
  /\ sent_as' = [m \in DOMAIN sent_as \cup {queue.msgs[i] : i \in S} |->
                   IF m \in DOMAIN sent_as THEN sent_as[m]
                   ELSE LET i == CHOOSE i \in S : queue.msgs[i] = m IN issued + Rank(S, i)]
  /\ UNCHANGED <<pushed, handled>>

\* msg_queue_flush: nothing happens when the queue is empty.
Flush == queue.count > 0 /\ Sends(Unsent(queue))

\* msg_queue_flush_one, of a slot that is not in flight.
FlushOne(i) == i \in Unsent(queue) /\ Sends({i})

\* Without the messages of the set, where they no longer are in flight.
Landed(S) == sent_as' = [m \in DOMAIN sent_as \ S |-> sent_as[m]]

\* on_msg_recv: the handler of the message is called, and the message removed.
\* The first slot that waits is found under MSG_ID_INVALID.
Recv(id) ==
  LET at == FindByMsgId(queue, id)
  IN  /\ at # -1
      /\ handled' = queue.funcs[at]
      /\ queue' = RemoveOrdered(queue, at)
      /\ Landed({queue.msgs[at]})
      /\ UNCHANGED <<message_id, batch_id, request, pushed, issued>>

OnBatchSendErr(batch) ==
  /\ SendErrors
  /\ queue' = ClearBatch(queue, batch)
  /\ Landed({queue.msgs[i] : i \in {j \in Live(queue) : queue.batch_ids[j] = batch}})
  /\ UNCHANGED <<message_id, batch_id, request, pushed, issued, handled>>

Next ==
  \/ PushMsg
  \/ Flush
  \/ \E i \in Live(queue) : FlushOne(i)
  \/ \E i \in Live(queue) \ Unsent(queue) :
       Recv(queue.msg_ids[i]) \/ OnBatchSendErr(queue.batch_ids[i])
  \/ StrayIds /\ Recv(MSG_ID_INVALID)

Spec == Init /\ [][Next]_vars

-----------------------------------------------------------------------------
InFlight == Live(queue) \ Unsent(queue)
Slot(m) == CHOOSE i \in Live(queue) : queue.msgs[i] = m

Mail == INSTANCE Mailbox
          WITH Messages <- 1 .. MaxPushed,
               waiting <- {queue.msgs[i] : i \in Unsent(queue)},
               flight <- [m \in {queue.msgs[i] : i \in InFlight} |->
                            [id |-> queue.msg_ids[Slot(m)], batch |-> queue.batch_ids[Slot(m)]]],
               answered <- handled

\* The parallel arrays keep the promise of Mailbox: a reply is given to the
\* handler of the oldest message with its id and removes that message alone,
\* one with no message's id too, which is taken for one to the oldest that
\* waits; a flush sends what waits and nothing twice; a failed batch waits again.
MailSpec == Mail!Spec

\* The slots are in the order the messages were pushed, over removals from the
\* middle and batches that come back: messages are sent in order.
InOrder == \A i, j \in Live(queue) : i < j => queue.msgs[i] < queue.msgs[j]

\* Every slot in use lies inside the arrays, over pushes onto a full queue.
SlotsFit == queue.count <= queue.capacity

\* Message ids skip the invalid one and wrap around.  Two messages in flight
\* have different ids unless one was sent 2^32 - 1 ids before the other.
IdsDistinct ==
  \A i, j \in InFlight :
    LET a == sent_as[queue.msgs[i]]  b == sent_as[queue.msgs[j]]
    IN  i # j /\ queue.msg_ids[i] = queue.msg_ids[j] =>
          a - b >= MSG_ID_INVALID \/ b - a >= MSG_ID_INVALID

\* A request is a JSON array of exactly the messages that the flush takes into
\* flight, by age, whichever slots they are in.
BatchWritten ==
  LET batch == {queue'.msgs[i] : i \in InFlight'} \ {queue.msgs[i] : i \in InFlight}
      oldest(k) == CHOOSE m \in batch : Cardinality({n \in batch : n < m}) = k
  IN  batch # {} =>
        request' = <<"[">>
                     \o [k \in 1 .. 2 * Cardinality(batch) - 1 |->
                           IF k % 2 = 1 THEN oldest(k \div 2) ELSE ","]
                     \o <<"]">>
RequestIsBatch == [][BatchWritten]_vars
=============================================================================
