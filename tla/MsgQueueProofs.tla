--------------------------- MODULE MsgQueueProofs ---------------------------
(***************************************************************************)
(* What the operations of MsgQueue return, for every queue: each gives a   *)
(* queue again, and each is described slot by slot.  The client's proofs   *)
(* cite these lemmas and never expand the operations.                      *)
(***************************************************************************)
EXTENDS MsgQueue, FiniteSetTheorems, TLAPS

-----------------------------------------------------------------------------
(* Message ids *)

\* The counters of next_message_id and next_batch_id never take the invalid
\* value, however many ids are handed out.
LEMMA IdAfterType ==
  ASSUME NEW id \in Nat, NEW n \in Nat, NEW invalid \in Nat \ {0}
  PROVE  IdAfter(id, n, invalid) \in 0 .. invalid - 1
BY SMT DEF IdAfter

\* Below the wrap-around an id is the counter plus its number.
LEMMA IdAfterExact ==
  ASSUME NEW id \in Nat, NEW n \in Nat, NEW invalid \in Nat, id + n < invalid
  PROVE  IdAfter(id, n, invalid) = id + n
BY SMT DEF IdAfter

\* The ranks of the slots of a finite set are natural numbers below its
\* cardinality, and grow strictly with the slots.
LEMMA RankType ==
  ASSUME NEW S \in SUBSET Int, IsFiniteSet(S), NEW i \in S
  PROVE  /\ Rank(S, i) \in Nat
         /\ Rank(S, i) < Cardinality(S)
<1> DEFINE B == {j \in S : j < i}
<1>1. B \in SUBSET S /\ B \cup {i} \in SUBSET S /\ i \notin B
  OBVIOUS
<1> HIDE DEF B
<1>2. IsFiniteSet(B)
  BY <1>1, FS_Subset
<1>3. Cardinality(B) \in Nat /\ Cardinality(S) \in Nat
  BY <1>2, FS_CardinalityType
<1>4. Cardinality(B \cup {i}) = Cardinality(B) + 1
  BY <1>1, <1>2, FS_AddElement
<1>5. Cardinality(B \cup {i}) <= Cardinality(S)
  BY <1>1, FS_Subset
<1>6. Rank(S, i) = Cardinality(B)
  BY DEF Rank, B
<1> QED BY <1>3, <1>4, <1>5, <1>6

\* Ids are handed out in slot order.
LEMMA RankMonotone ==
  ASSUME NEW S \in SUBSET Int, IsFiniteSet(S), NEW i \in S, NEW j \in S, i < j
  PROVE  Rank(S, i) < Rank(S, j)
<1> DEFINE B(k) == {l \in S : l < k}
<1>1. IsFiniteSet(B(j)) /\ i \in B(j) /\ B(j) \in SUBSET Int
  BY FS_Subset
<1>2. Rank(B(j), i) < Cardinality(B(j))
  BY <1>1, RankType
<1>3. {l \in B(j) : l < i} = B(i)
  <2>1. \A l \in S : l < i => l < j
    OBVIOUS
  <2> QED BY <2>1
<1> QED BY <1>2, <1>3 DEF Rank

-----------------------------------------------------------------------------
(* The operations, slot by slot *)

\* What a queue is made of, without the shape of the record.
LEMMA QueueParts ==
  ASSUME NEW Msg, NEW Func, NEW q, IsQueue(q, Msg, Func)
  PROVE  /\ q.capacity \in Nat /\ q.written \in Nat /\ q.count \in Nat
         /\ q.count <= q.written
         /\ \A i \in 0 .. q.written - 1 :
              /\ q.msgs[i] \in Msg /\ q.funcs[i] \in Func
              /\ q.batch_ids[i] \in 0 .. BATCH_ID_INVALID
              /\ q.msg_ids[i] \in 0 .. MSG_ID_INVALID
         /\ Live(q) \subseteq 0 .. q.written - 1
BY DEF IsQueue, Live

LEMMA EmptyQueueType ==
  ASSUME NEW Msg, NEW Func
  PROVE  IsQueue(EmptyQueue, Msg, Func) /\ IsQueue(DestroyedQueue, Msg, Func)
BY QueueAssumption DEF IsQueue, EmptyQueue, DestroyedQueue

\* Push stores a message that waits in slot count and leaves the other live
\* slots alone.
LEMMA PushType ==
  ASSUME NEW Msg, NEW Func, NEW q, IsQueue(q, Msg, Func), NEW msg \in Msg, NEW func \in Func
  PROVE  IsQueue(Push(q, msg, func), Msg, Func)
<1> DEFINE w == IF q.count = q.written THEN q.written + 1 ELSE q.written
<1>1. q.count \in Nat /\ q.written \in Nat /\ q.count <= q.written /\ w \in Nat
  BY QueueParts
<1>2. 0 .. w - 1 = 0 .. q.written - 1 \cup {q.count}
  BY <1>1
<1>3. ASSUME NEW V, NEW a \in [0 .. q.written - 1 -> V], NEW v \in V
      PROVE  Store(a, q.count, v) \in [0 .. w - 1 -> V]
  BY <1>2, <1>3 DEF Store
<1>4. BATCH_ID_INVALID \in 0 .. BATCH_ID_INVALID /\ MSG_ID_INVALID \in 0 .. MSG_ID_INVALID
  BY QueueAssumption
<1>5. /\ q.msgs \in [0 .. q.written - 1 -> Msg]
      /\ q.funcs \in [0 .. q.written - 1 -> Func]
      /\ q.batch_ids \in [0 .. q.written - 1 -> 0 .. BATCH_ID_INVALID]
      /\ q.msg_ids \in [0 .. q.written - 1 -> 0 .. MSG_ID_INVALID]
  BY DEF IsQueue
<1> DEFINE p == Push(q, msg, func)
<1>6. /\ p.msgs = Store(q.msgs, q.count, msg) /\ p.funcs = Store(q.funcs, q.count, func)
      /\ p.msg_ids = Store(q.msg_ids, q.count, MSG_ID_INVALID)
      /\ p.batch_ids = Store(q.batch_ids, q.count, BATCH_ID_INVALID)
      /\ p.count = q.count + 1 /\ p.written = w
      /\ p.capacity = IF q.count >= q.capacity THEN q.count + GrowBy ELSE q.capacity
      /\ p = [msgs |-> p.msgs, batch_ids |-> p.batch_ids, msg_ids |-> p.msg_ids, funcs |-> p.funcs,
              capacity |-> p.capacity, count |-> p.count, written |-> p.written]
  BY DEF Push, w
<1>7. q.capacity \in Nat /\ GrowBy \in Nat
  BY QueueParts, QueueAssumption
<1>8. q.count + 1 \in 0 .. w
  BY <1>1 DEF w
<1> HIDE DEF p, w
<1>9. p.capacity \in Nat /\ p.written \in Nat /\ p.count \in 0 .. p.written
  BY <1>1, <1>6, <1>7, <1>8
<1>10. p.msgs \in [0 .. p.written - 1 -> Msg] /\ p.funcs \in [0 .. p.written - 1 -> Func]
  <2>1. Store(q.msgs, q.count, msg) \in [0 .. w - 1 -> Msg]
    BY <1>3, <1>5
  <2>2. Store(q.funcs, q.count, func) \in [0 .. w - 1 -> Func]
    BY <1>3, <1>5
  <2> QED BY <1>6, <2>1, <2>2
<1>11. /\ p.batch_ids \in [0 .. p.written - 1 -> 0 .. BATCH_ID_INVALID]
       /\ p.msg_ids \in [0 .. p.written - 1 -> 0 .. MSG_ID_INVALID]
  <2>1. Store(q.batch_ids, q.count, BATCH_ID_INVALID) \in [0 .. w - 1 -> 0 .. BATCH_ID_INVALID]
    BY <1>3, <1>4, <1>5
  <2>2. Store(q.msg_ids, q.count, MSG_ID_INVALID) \in [0 .. w - 1 -> 0 .. MSG_ID_INVALID]
    BY <1>3, <1>4, <1>5
  <2> QED BY <1>6, <2>1, <2>2
<1>12. IsQueue(p, Msg, Func)
  BY <1>6, <1>9, <1>10, <1>11 DEF IsQueue
<1> QED BY <1>12 DEF p

\* The slots after a push.
LEMMA PushSlots ==
  ASSUME NEW Msg, NEW Func, NEW q, IsQueue(q, Msg, Func), NEW msg \in Msg, NEW func \in Func
  PROVE  LET p == Push(q, msg, func)
         IN  /\ p.count = q.count + 1
             /\ p.written \in {q.written, q.written + 1}
             /\ q.count < p.written
             /\ p.msgs[q.count] = msg /\ p.funcs[q.count] = func
             /\ p.msg_ids[q.count] = MSG_ID_INVALID
             /\ p.batch_ids[q.count] = BATCH_ID_INVALID
             /\ \A i \in 0 .. q.written - 1 : i # q.count =>
                  /\ p.msgs[i] = q.msgs[i] /\ p.funcs[i] = q.funcs[i]
                  /\ p.msg_ids[i] = q.msg_ids[i] /\ p.batch_ids[i] = q.batch_ids[i]
             /\ Live(p) = Live(q) \cup {q.count}
<1> DEFINE p == Push(q, msg, func)
<1>1. q.count \in Nat /\ q.written \in Nat /\ q.count <= q.written
  BY QueueParts
<1>2. /\ p.msgs = Store(q.msgs, q.count, msg) /\ p.funcs = Store(q.funcs, q.count, func)
      /\ p.msg_ids = Store(q.msg_ids, q.count, MSG_ID_INVALID)
      /\ p.batch_ids = Store(q.batch_ids, q.count, BATCH_ID_INVALID)
      /\ p.count = q.count + 1
      /\ p.written = IF q.count = q.written THEN q.written + 1 ELSE q.written
  BY DEF Push
<1>3. /\ DOMAIN q.msgs = 0 .. q.written - 1 /\ DOMAIN q.funcs = 0 .. q.written - 1
      /\ DOMAIN q.msg_ids = 0 .. q.written - 1 /\ DOMAIN q.batch_ids = 0 .. q.written - 1
  BY DEF IsQueue
<1>4. ASSUME NEW a, NEW v, DOMAIN a = 0 .. q.written - 1
      PROVE  /\ Store(a, q.count, v)[q.count] = v
             /\ \A i \in 0 .. q.written - 1 : i # q.count => Store(a, q.count, v)[i] = a[i]
  BY <1>4 DEF Store
<1> HIDE DEF p
<1>5. Live(p) = Live(q) \cup {q.count}
  BY <1>1, <1>2 DEF Live
<1>6. /\ p.msgs[q.count] = msg /\ p.funcs[q.count] = func
      /\ p.msg_ids[q.count] = MSG_ID_INVALID /\ p.batch_ids[q.count] = BATCH_ID_INVALID
  BY <1>2, <1>3, <1>4
<1>7. \A i \in 0 .. q.written - 1 : i # q.count =>
        /\ p.msgs[i] = q.msgs[i] /\ p.funcs[i] = q.funcs[i]
        /\ p.msg_ids[i] = q.msg_ids[i] /\ p.batch_ids[i] = q.batch_ids[i]
  BY <1>2, <1>3, <1>4
<1>8. /\ p.count = q.count + 1 /\ q.count < p.written
      /\ p.written \in {q.written, q.written + 1}
  BY <1>1, <1>2
<1> QED BY <1>5, <1>6, <1>7, <1>8 DEF p

\* A set of natural numbers that is not empty has a smallest element.
LEMMA SmallestSlot ==
  ASSUME NEW T \in SUBSET Nat, T # {}
  PROVE  \E i \in T : \A j \in T : i <= j
<1>1. IsWellFoundedOn(OpToRel(<, Nat), Nat)
  BY NatLessThanWellFounded
<1>2. PICK i \in T : \A j \in T : ~ (<<j, i>> \in OpToRel(<, Nat))
  BY <1>1, WFMin
<1>3. \A j \in T : ~ (j < i)
  BY <1>2 DEF OpToRel
<1> QED BY <1>3

\* The slot that is found is live and holds the id.
LEMMA FindType ==
  ASSUME NEW Msg, NEW Func, NEW q, IsQueue(q, Msg, Func), NEW id
  PROVE  LET at == FindByMsgId(q, id)
         IN  /\ at # -1 => at \in Live(q) /\ q.msg_ids[at] = id
             /\ at = -1 => \A i \in Live(q) : q.msg_ids[i] # id
<1> DEFINE hits == {i \in Live(q) : q.msg_ids[i] = id}
<1>1. CASE hits = {}
  BY <1>1 DEF FindByMsgId
<1>2. CASE hits # {}
  <2>1. hits \in SUBSET Nat
    BY QueueParts DEF Live
  <2>2. \E i \in hits : \A j \in hits : i <= j
    BY <1>2, <2>1, SmallestSlot
  <2>3. FindByMsgId(q, id) \in hits
    BY <1>2, <2>2 DEF FindByMsgId
  <2> QED BY <2>1, <2>3
<1> QED BY <1>1, <1>2

\* Removing slot r moves the live slots behind it down by one.
LEMMA RemoveType ==
  ASSUME NEW Msg, NEW Func, NEW q, IsQueue(q, Msg, Func), NEW r \in Live(q)
  PROVE  IsQueue(RemoveOrdered(q, r), Msg, Func)
<1>1. q.count \in Nat /\ q.written \in Nat /\ q.count <= q.written /\ r \in 0 .. q.count - 1
  BY QueueParts DEF Live
<1>2. ASSUME NEW V, NEW a \in [0 .. q.written - 1 -> V]
      PROVE  MoveDown(q, r, a) \in [0 .. q.written - 1 -> V]
  BY <1>1, <1>2 DEF MoveDown
<1>3. /\ MoveDown(q, r, q.msgs) \in [0 .. q.written - 1 -> Msg]
      /\ MoveDown(q, r, q.funcs) \in [0 .. q.written - 1 -> Func]
      /\ MoveDown(q, r, q.batch_ids) \in [0 .. q.written - 1 -> 0 .. BATCH_ID_INVALID]
      /\ MoveDown(q, r, q.msg_ids) \in [0 .. q.written - 1 -> 0 .. MSG_ID_INVALID]
  BY <1>2 DEF IsQueue
<1> QED
  BY <1>1, <1>3 DEF IsQueue, RemoveOrdered

\* The slots after a removal: slot r and those behind it hold what the next one
\* held, and the last one keeps its value as a left-over.
LEMMA RemoveSlots ==
  ASSUME NEW Msg, NEW Func, NEW q, IsQueue(q, Msg, Func), NEW r \in Live(q)
  PROVE  LET p == RemoveOrdered(q, r)
         IN  /\ p.count = q.count - 1
             /\ p.written = q.written
             /\ \A i \in 0 .. q.written - 1 :
                  LET from == IF r <= i /\ i + 1 < q.count THEN i + 1 ELSE i
                  IN  /\ p.msgs[i] = q.msgs[from] /\ p.funcs[i] = q.funcs[from]
                      /\ p.msg_ids[i] = q.msg_ids[from] /\ p.batch_ids[i] = q.batch_ids[from]
BY DEF IsQueue, RemoveOrdered, MoveDown, Live

\* Sending gives the slots sent an id each and leaves the others alone.
LEMMA AssignType ==
  ASSUME NEW Msg, NEW Func, NEW q, IsQueue(q, Msg, Func), NEW slots \in SUBSET (0 .. q.written - 1),
         NEW message_id \in Nat, NEW batch_id \in 0 .. BATCH_ID_INVALID
  PROVE  IsQueue(AssignIds(q, slots, message_id, batch_id), Msg, Func)
<1>1. q.written \in Nat
  BY QueueParts
<1>2. IsFiniteSet(slots)
  <2>1. IsFiniteSet(0 .. q.written - 1)
    <3>1. 0 \in Int /\ q.written - 1 \in Int
      BY <1>1
    <3> QED BY <3>1, FS_Interval
  <2> QED BY <2>1, FS_Subset
<1>3. ASSUME NEW i \in slots
      PROVE  IdAfter(message_id, Rank(slots, i), MSG_ID_INVALID) \in 0 .. MSG_ID_INVALID
  <2>1. slots \in SUBSET Int
    BY <1>1
  <2>2. Rank(slots, i) \in Nat
    BY <1>2, <2>1, RankType
  <2> QED BY <2>2, IdAfterType, QueueAssumption
<1> DEFINE new_id(i) == IdAfter(message_id, Rank(slots, i), MSG_ID_INVALID)
<1>4. Update(q.msg_ids, slots, new_id) \in [0 .. q.written - 1 -> 0 .. MSG_ID_INVALID]
  BY <1>3 DEF IsQueue, Update
<1>5. Update(q.batch_ids, slots, LAMBDA i : batch_id)
        \in [0 .. q.written - 1 -> 0 .. BATCH_ID_INVALID]
  BY DEF IsQueue, Update
<1> QED
  BY <1>4, <1>5 DEF IsQueue, AssignIds, WithIds

\* The slots after a send.
LEMMA AssignSlots ==
  ASSUME NEW Msg, NEW Func, NEW q, IsQueue(q, Msg, Func), NEW slots \in SUBSET (0 .. q.written - 1),
         NEW message_id, NEW batch_id,
         NEW p, p = AssignIds(q, slots, message_id, batch_id)
  PROVE  /\ p.count = q.count /\ p.written = q.written /\ Live(p) = Live(q)
         /\ p.msgs = q.msgs /\ p.funcs = q.funcs
         /\ \A i \in slots :
              /\ p.msg_ids[i] = IdAfter(message_id, Rank(slots, i), MSG_ID_INVALID)
              /\ p.batch_ids[i] = batch_id
         /\ \A i \in (0 .. q.written - 1) \ slots :
              /\ p.msg_ids[i] = q.msg_ids[i]
              /\ p.batch_ids[i] = q.batch_ids[i]
<1>1. /\ p.count = q.count /\ p.written = q.written
      /\ p.msgs = q.msgs /\ p.funcs = q.funcs
      /\ p.msg_ids = [i \in DOMAIN q.msg_ids |->
           IF i \in slots THEN IdAfter(message_id, Rank(slots, i), MSG_ID_INVALID) ELSE q.msg_ids[i]]
      /\ p.batch_ids = [i \in DOMAIN q.batch_ids |-> IF i \in slots THEN batch_id ELSE q.batch_ids[i]]
  BY DEF AssignIds, WithIds, Update
<1>2. DOMAIN q.msg_ids = 0 .. q.written - 1 /\ DOMAIN q.batch_ids = 0 .. q.written - 1
  BY DEF IsQueue
<1>3. Live(p) = Live(q)
  BY <1>1 DEF Live
<1> QED BY <1>1, <1>2, <1>3

\* on_batch_send_err leaves a queue.
LEMMA ClearBatchType ==
  ASSUME NEW Msg, NEW Func, NEW q, IsQueue(q, Msg, Func), NEW batch_id
  PROVE  IsQueue(ClearBatch(q, batch_id), Msg, Func)
<1> DEFINE batch == {i \in Live(q) : q.batch_ids[i] = batch_id}
<1>1. Update(q.msg_ids, batch, LAMBDA i : MSG_ID_INVALID)
        \in [0 .. q.written - 1 -> 0 .. MSG_ID_INVALID]
  BY QueueAssumption DEF IsQueue, Update
<1>2. Update(q.batch_ids, batch, LAMBDA i : BATCH_ID_INVALID)
        \in [0 .. q.written - 1 -> 0 .. BATCH_ID_INVALID]
  BY QueueAssumption DEF IsQueue, Update
<1> QED
  BY <1>1, <1>2 DEF IsQueue, ClearBatch, WithIds

=============================================================================
