------------------------------ MODULE MsgQueue ------------------------------
(***************************************************************************)
(* The MsgQueue of src/src/bayeux.c: the client's outbox.  A queue is four *)
(* parallel arrays (msgs, batch_ids, msg_ids, funcs), a capacity and a     *)
(* count.  A message is in flight when it has a message id, and waits to   *)
(* be sent while its slot holds MSG_ID_INVALID.                            *)
(*                                                                         *)
(* Slots are numbered from 0 as in the code.  Removing a message moves the *)
(* ones behind it down and decrements count, but does not touch the slot   *)
(* that falls off the end, and the client keeps an index into the arrays   *)
(* (handshake_msg_index) across removals.  So an array here holds every    *)
(* slot that was ever stored to: slots 0..count-1 are live, slots          *)
(* count..written-1 are left over, and a slot past those has never been    *)
(* initialised.  The field written is the only one the code does not have. *)
(*                                                                         *)
(* These are constant operators: each takes the queue before the call and  *)
(* returns the queue after it.                                             *)
(***************************************************************************)
EXTENDS Integers, FiniteSets

CONSTANTS
  MSG_ID_INVALID,   \* 0xffffffff in the code: "no message id"
  BATCH_ID_INVALID, \* 0xffffffff in the code: "no batch id"
  GrowBy            \* 64 in the code: initial capacity, and growth of a full queue

ASSUME QueueAssumption ==
  /\ MSG_ID_INVALID \in Nat \ {0}
  /\ BATCH_ID_INVALID \in Nat \ {0}
  /\ GrowBy \in Nat \ {0}

-----------------------------------------------------------------------------
\* next_message_id and next_batch_id return the counter and advance it, and
\* step over the invalid value, after which 32 bits wrap to 0.  This is the
\* counter after n calls.
IdAfterStuck(id, n, invalid) == id   \* faulty: the counter is not advanced
IdAfterEarly(id, n, invalid) == (id + n) % (invalid - 1)   \* faulty: one id too few

IdAfter(id, n, invalid) == (id + n) % invalid

Live(q) == 0 .. q.count - 1

\* The live messages without a message id: those the next full flush sends.
Unsent(q) == {i \in Live(q) : q.msg_ids[i] = MSG_ID_INVALID}

\* The position of slot i among the slots of S.
Rank(S, i) == Cardinality({j \in S : j < i})

\* Array a after storing v at index i, initialising that slot if it is new.
Store(a, i, v) == [j \in DOMAIN a \cup {i} |-> IF j = i THEN v ELSE a[j]]

-----------------------------------------------------------------------------
EmptyQueue ==
  [msgs |-> [i \in {} |-> 0], batch_ids |-> [i \in {} |-> 0],
   msg_ids |-> [i \in {} |-> 0], funcs |-> [i \in {} |-> 0],
   capacity |-> GrowBy, count |-> 0, written |-> 0]

\* msg_queue_destroy zeroes the structure.
DestroyedQueue == [EmptyQueue EXCEPT !.capacity = 0]

\* Faulty: growing after the queue was full.
PushLate(q, msg, func) ==
  [msgs      |-> Store(q.msgs, q.count, msg),
   batch_ids |-> Store(q.batch_ids, q.count, BATCH_ID_INVALID),
   msg_ids   |-> Store(q.msg_ids, q.count, MSG_ID_INVALID),
   funcs     |-> Store(q.funcs, q.count, func),
   capacity  |-> IF q.count > q.capacity THEN q.count + GrowBy ELSE q.capacity,
   count     |-> q.count + 1,
   written   |-> IF q.count = q.written THEN q.written + 1 ELSE q.written]

Push(q, msg, func) ==
  [msgs      |-> Store(q.msgs, q.count, msg),
   batch_ids |-> Store(q.batch_ids, q.count, BATCH_ID_INVALID),
   msg_ids   |-> Store(q.msg_ids, q.count, MSG_ID_INVALID),
   funcs     |-> Store(q.funcs, q.count, func),
   capacity  |-> IF q.count >= q.capacity THEN q.count + GrowBy ELSE q.capacity,
   count     |-> q.count + 1,
   written   |-> IF q.count = q.written THEN q.written + 1 ELSE q.written]

\* The first live slot that holds the id, or -1.
FindByMsgId(q, id) ==
  LET hits == {i \in Live(q) : q.msg_ids[i] = id}
  IN  IF hits = {} THEN -1 ELSE CHOOSE i \in hits : \A j \in hits : i <= j

\* The memmove of the slots behind r.
MoveDown(q, r, a) ==
  [i \in DOMAIN a |-> IF r <= i /\ i + 1 < q.count THEN a[i + 1] ELSE a[i]]

\* Faulty: the handlers, or the message ids, stay where they were.
RemoveOrderedKeepsFuncs(q, r) ==
  [msgs |-> MoveDown(q, r, q.msgs), batch_ids |-> MoveDown(q, r, q.batch_ids),
   msg_ids |-> MoveDown(q, r, q.msg_ids), funcs |-> q.funcs,
   capacity |-> q.capacity, count |-> q.count - 1, written |-> q.written]
RemoveOrderedKeepsIds(q, r) ==
  [msgs |-> MoveDown(q, r, q.msgs), batch_ids |-> MoveDown(q, r, q.batch_ids),
   msg_ids |-> q.msg_ids, funcs |-> MoveDown(q, r, q.funcs),
   capacity |-> q.capacity, count |-> q.count - 1, written |-> q.written]

\* Faulty: the last message takes the free slot.
MoveLast(q, r, a) == [i \in DOMAIN a |-> IF i = r THEN a[q.count - 1] ELSE a[i]]
RemoveUnordered(q, r) ==
  [msgs |-> MoveLast(q, r, q.msgs), batch_ids |-> MoveLast(q, r, q.batch_ids),
   msg_ids |-> MoveLast(q, r, q.msg_ids), funcs |-> MoveLast(q, r, q.funcs),
   capacity |-> q.capacity, count |-> q.count - 1, written |-> q.written]

RemoveOrdered(q, r) ==
  [msgs |-> MoveDown(q, r, q.msgs), batch_ids |-> MoveDown(q, r, q.batch_ids),
   msg_ids |-> MoveDown(q, r, q.msg_ids), funcs |-> MoveDown(q, r, q.funcs),
   capacity |-> q.capacity, count |-> q.count - 1, written |-> q.written]

\* Array a with f(i) in the slots of S; what a send changes is two arrays.
Update(a, S, f(_)) == [i \in DOMAIN a |-> IF i \in S THEN f(i) ELSE a[i]]
WithIds(q, msg_ids, batch_ids) ==
  [msgs |-> q.msgs, batch_ids |-> batch_ids, msg_ids |-> msg_ids, funcs |-> q.funcs,
   capacity |-> q.capacity, count |-> q.count, written |-> q.written]

\* Faulty: the batch id is not noted.
AssignIdsNoBatch(q, slots, message_id, batch_id) ==
  LET new_id(i) == IdAfter(message_id, Rank(slots, i), MSG_ID_INVALID)
  IN  WithIds(q, Update(q.msg_ids, slots, new_id), q.batch_ids)

\* What msg_queue_flush and msg_queue_flush_one do to the slots they send:
\* fresh consecutive message ids in slot order, and one batch id for all.
AssignIds(q, slots, message_id, batch_id) ==
  LET new_id(i) == IdAfter(message_id, Rank(slots, i), MSG_ID_INVALID)
  IN  WithIds(q, Update(q.msg_ids, slots, new_id),
                 Update(q.batch_ids, slots, LAMBDA i : batch_id))

\* on_batch_send_err: the messages of the batch wait to be sent again.
ClearBatch(q, batch_id) ==
  LET batch == {i \in Live(q) : q.batch_ids[i] = batch_id}
  IN  WithIds(q, Update(q.msg_ids, batch, LAMBDA i : MSG_ID_INVALID),
                 Update(q.batch_ids, batch, LAMBDA i : BATCH_ID_INVALID))

-----------------------------------------------------------------------------
\* q is a queue of messages of the set Msg with handlers of the set Func.
IsQueue(q, Msg, Func) ==
  /\ q = [msgs |-> q.msgs, batch_ids |-> q.batch_ids, msg_ids |-> q.msg_ids,
          funcs |-> q.funcs, capacity |-> q.capacity, count |-> q.count,
          written |-> q.written]
  /\ q.capacity \in Nat
  /\ q.written \in Nat
  /\ q.count \in 0 .. q.written
  /\ q.msgs \in [0 .. q.written - 1 -> Msg]
  /\ q.funcs \in [0 .. q.written - 1 -> Func]
  /\ q.batch_ids \in [0 .. q.written - 1 -> 0 .. BATCH_ID_INVALID]
  /\ q.msg_ids \in [0 .. q.written - 1 -> 0 .. MSG_ID_INVALID]
=============================================================================
