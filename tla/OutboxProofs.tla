---------------------------- MODULE OutboxProofs ----------------------------
(***************************************************************************)
(* Theorems about Outbox, for queues of any length and any number of ids,  *)
(* wrapped around or not: the slots stay in order and inside the arrays,   *)
(* ids are distinct, the queue keeps the promise of Mailbox, and the text  *)
(* of a request is that of its batch.                                      *)
(***************************************************************************)
EXTENDS Outbox, MsgQueueProofs, SequenceTheorems

-----------------------------------------------------------------------------
(* The queue as it is used here *)

Typed ==
  /\ IsQueue(queue, Nat, Nat)
  /\ message_id \in 0 .. MSG_ID_INVALID - 1
  /\ batch_id \in 0 .. BATCH_ID_INVALID - 1
  /\ pushed \in Nat /\ issued \in Nat

\* A live slot holds a message that was pushed and its own handler, and has a
\* batch id exactly when it has a message id.
Aligned ==
  \A i \in Live(queue) :
    /\ queue.msgs[i] \in 1 .. pushed /\ queue.funcs[i] = queue.msgs[i]
    /\ queue.msg_ids[i] = MSG_ID_INVALID <=> queue.batch_ids[i] = BATCH_ID_INVALID

Inv == Typed /\ SlotsFit /\ InOrder /\ Aligned

\* The slots of a queue, those in use and those in flight, are numbers.
LEMMA LiveSlots ==
  ASSUME NEW Msg, NEW q, IsQueue(q, Msg, Msg)
  PROVE  /\ Live(q) \subseteq 0 .. q.written - 1
         /\ Live(q) \subseteq Nat /\ Unsent(q) \subseteq Live(q)
         /\ q.written \in Nat /\ q.count \in Nat
         /\ \A S \in SUBSET Live(q) : IsFiniteSet(S)
<1>1. Live(q) \subseteq 0 .. q.written - 1 /\ q.written \in Nat /\ q.count \in Nat
  BY QueueParts
<1>2. 0 \in Int /\ q.written - 1 \in Int
  BY <1>1
<1>3. IsFiniteSet(0 .. q.written - 1)
  BY <1>2, FS_Interval
<1> QED BY <1>1, <1>3, FS_Subset DEF Unsent

-----------------------------------------------------------------------------
(* The steps keep the slots in order and inside the arrays *)

\* The slots after a push, of which the new one is the last.
LEMMA PushedSlots ==
  ASSUME NEW Msg, NEW q, IsQueue(q, Msg, Msg), NEW m \in Msg, NEW p, p = Push(q, m, m)
  PROVE  /\ IsQueue(p, Msg, Msg)
         /\ p.count = q.count + 1 /\ Live(p) = Live(q) \cup {q.count}
         /\ p.capacity = IF q.count >= q.capacity THEN q.count + GrowBy ELSE q.capacity
         /\ p.msgs[q.count] = m /\ p.funcs[q.count] = m
         /\ p.msg_ids[q.count] = MSG_ID_INVALID /\ p.batch_ids[q.count] = BATCH_ID_INVALID
         /\ \A i \in Live(q) :
              /\ i < q.count
              /\ p.msgs[i] = q.msgs[i] /\ p.funcs[i] = q.funcs[i]
              /\ p.msg_ids[i] = q.msg_ids[i] /\ p.batch_ids[i] = q.batch_ids[i]
<1>1. IsQueue(p, Msg, Msg)
  BY PushType
<1>2. /\ p.count = q.count + 1 /\ Live(p) = Live(q) \cup {q.count}
      /\ p.msgs[q.count] = m /\ p.funcs[q.count] = m
      /\ p.msg_ids[q.count] = MSG_ID_INVALID /\ p.batch_ids[q.count] = BATCH_ID_INVALID
      /\ \A i \in 0 .. q.written - 1 : i # q.count =>
           /\ p.msgs[i] = q.msgs[i] /\ p.funcs[i] = q.funcs[i]
           /\ p.msg_ids[i] = q.msg_ids[i] /\ p.batch_ids[i] = q.batch_ids[i]
  BY PushSlots
<1>3. p.capacity = IF q.count >= q.capacity THEN q.count + GrowBy ELSE q.capacity
  BY DEF Push
<1>4. \A i \in Live(q) : i \in 0 .. q.written - 1 /\ i < q.count /\ i # q.count
  BY LiveSlots DEF Live
<1> QED BY <1>1, <1>2, <1>3, <1>4

\* What PushMsg leaves behind.
LEMMA PushMsgSlots ==
  ASSUME Inv, PushMsg
  PROVE  /\ IsQueue(queue', Nat, Nat) /\ pushed' = pushed + 1 /\ pushed \in Nat
         /\ queue'.count = queue.count + 1 /\ Live(queue') = Live(queue) \cup {queue.count}
         /\ queue'.capacity =
              IF queue.count >= queue.capacity THEN queue.count + GrowBy ELSE queue.capacity
         /\ queue'.msgs[queue.count] = pushed + 1 /\ queue'.funcs[queue.count] = pushed + 1
         /\ queue'.msg_ids[queue.count] = MSG_ID_INVALID
         /\ queue'.batch_ids[queue.count] = BATCH_ID_INVALID
         /\ \A i \in Live(queue) :
              /\ i < queue.count
              /\ queue'.msgs[i] = queue.msgs[i] /\ queue'.funcs[i] = queue.funcs[i]
              /\ queue'.msg_ids[i] = queue.msg_ids[i]
              /\ queue'.batch_ids[i] = queue.batch_ids[i]
<1>1. /\ queue' = Push(queue, pushed + 1, pushed + 1) /\ IsQueue(queue, Nat, Nat)
      /\ pushed + 1 \in Nat /\ pushed' = pushed + 1 /\ pushed \in Nat
  BY DEF Inv, Typed, PushMsg
<1> QED BY <1>1, PushedSlots

LEMMA PushStep ==
  ASSUME Inv, PushMsg
  PROVE  Inv'
<1>1. /\ IsQueue(queue', Nat, Nat) /\ pushed' = pushed + 1 /\ pushed \in Nat
      /\ queue'.count = queue.count + 1 /\ Live(queue') = Live(queue) \cup {queue.count}
      /\ queue'.capacity =
           IF queue.count >= queue.capacity THEN queue.count + GrowBy ELSE queue.capacity
      /\ queue'.msgs[queue.count] = pushed + 1 /\ queue'.funcs[queue.count] = pushed + 1
      /\ queue'.msg_ids[queue.count] = MSG_ID_INVALID
      /\ queue'.batch_ids[queue.count] = BATCH_ID_INVALID
      /\ \A i \in Live(queue) :
           /\ i < queue.count
           /\ queue'.msgs[i] = queue.msgs[i] /\ queue'.funcs[i] = queue.funcs[i]
           /\ queue'.msg_ids[i] = queue.msg_ids[i]
           /\ queue'.batch_ids[i] = queue.batch_ids[i]
  BY PushMsgSlots
<1>2. /\ IsQueue(queue, Nat, Nat)
      /\ message_id' = message_id /\ batch_id' = batch_id /\ issued' = issued
  BY DEF Inv, Typed, PushMsg
<1>3. queue.capacity \in Nat /\ queue.count \in Nat /\ GrowBy \in Nat \ {0}
      /\ Live(queue) \subseteq Nat
  BY <1>2, LiveSlots, QueueParts, QueueAssumption
<1>4. Typed'
  BY <1>1, <1>2 DEF Inv, Typed
<1>5. SlotsFit'
  BY <1>1, <1>3 DEF Inv, SlotsFit
<1>6. InOrder'
  <2> SUFFICES ASSUME NEW i \in Live(queue'), NEW j \in Live(queue'), i < j
               PROVE  queue'.msgs[i] < queue'.msgs[j]
    BY DEF InOrder
  <2>1. i \in Live(queue)
    BY <1>1, <1>3
  <2>2. CASE j = queue.count
    BY <1>1, <2>1, <2>2 DEF Inv, Aligned
  <2>3. CASE j \in Live(queue)
    BY <1>1, <2>1, <2>3 DEF Inv, InOrder
  <2> QED BY <1>1, <2>2, <2>3
<1>7. Aligned'
  BY <1>1 DEF Inv, Aligned
<1> QED BY <1>4, <1>5, <1>6, <1>7 DEF Inv

\* The slots after a send.
LEMMA SentSlots ==
  ASSUME NEW Msg, NEW q, IsQueue(q, Msg, Msg), NEW S, S \in SUBSET Unsent(q),
         NEW id, NEW batch,
         NEW p, p = AssignIds(q, S, id, batch)
  PROVE  /\ p.count = q.count /\ p.capacity = q.capacity /\ Live(p) = Live(q)
         /\ p.msgs = q.msgs /\ p.funcs = q.funcs
         /\ \A i \in S : p.msg_ids[i] = IdAfter(id, Rank(S, i), MSG_ID_INVALID)
                         /\ p.batch_ids[i] = batch
         /\ \A i \in Live(q) \ S :
              p.msg_ids[i] = q.msg_ids[i] /\ p.batch_ids[i] = q.batch_ids[i]
<1>1. S \in SUBSET (0 .. q.written - 1) /\ Live(q) \subseteq 0 .. q.written - 1
  BY LiveSlots
<1>2. S \in SUBSET (0 .. q.written - 1) /\ IsQueue(q, Msg, Msg) /\ p = AssignIds(q, S, id, batch)
  BY <1>1
<1>3. /\ p.count = q.count /\ Live(p) = Live(q)
      /\ p.msgs = q.msgs /\ p.funcs = q.funcs
  BY ONLY <1>2, AssignSlots
<1>4. \A i \in S : p.msg_ids[i] = IdAfter(id, Rank(S, i), MSG_ID_INVALID)
                  /\ p.batch_ids[i] = batch
  BY ONLY <1>2, AssignSlots
<1>5. \A i \in (0 .. q.written - 1) \ S :
        p.msg_ids[i] = q.msg_ids[i] /\ p.batch_ids[i] = q.batch_ids[i]
  BY ONLY <1>2, AssignSlots
<1>6. p.capacity = q.capacity
  BY DEF AssignIds, WithIds
<1> QED BY <1>1, <1>3, <1>4, <1>5, <1>6

\* What a send leaves behind.
LEMMA SendSlots ==
  ASSUME Inv, NEW S \in SUBSET Unsent(queue), Sends(S)
  PROVE  /\ IsQueue(queue', Nat, Nat)
         /\ queue'.count = queue.count /\ queue'.capacity = queue.capacity
         /\ Live(queue') = Live(queue)
         /\ queue'.msgs = queue.msgs /\ queue'.funcs = queue.funcs
         /\ \A i \in S : /\ queue'.msg_ids[i] = IdAfter(message_id, Rank(S, i), MSG_ID_INVALID)
                        /\ queue'.msg_ids[i] \in 0 .. MSG_ID_INVALID - 1
                        /\ queue'.batch_ids[i] = batch_id
         /\ \A i \in Live(queue) \ S :
              /\ queue'.msg_ids[i] = queue.msg_ids[i]
              /\ queue'.batch_ids[i] = queue.batch_ids[i]
         /\ IsFiniteSet(S) /\ S \in SUBSET Int /\ S \subseteq Live(queue)
<1>1. queue' = AssignIds(queue, S, message_id, batch_id) /\ IsQueue(queue, Nat, Nat)
      /\ S \in SUBSET Unsent(queue)
  BY DEF Inv, Typed, Sends
<1>2. S \in SUBSET (0 .. queue.written - 1) /\ IsFiniteSet(S) /\ S \in SUBSET Int
      /\ S \subseteq Live(queue)
  BY <1>1, LiveSlots
<1>3. IsQueue(queue', Nat, Nat)
  <2>1. message_id \in Nat /\ batch_id \in 0 .. BATCH_ID_INVALID
    BY QueueAssumption DEF Inv, Typed
  <2> QED BY <1>1, <1>2, <2>1, AssignType
<1>4. /\ queue'.count = queue.count /\ queue'.capacity = queue.capacity
      /\ Live(queue') = Live(queue)
      /\ queue'.msgs = queue.msgs /\ queue'.funcs = queue.funcs
  BY ONLY <1>1, SentSlots
<1>5. \A i \in Live(queue) \ S :
        /\ queue'.msg_ids[i] = queue.msg_ids[i]
        /\ queue'.batch_ids[i] = queue.batch_ids[i]
  BY ONLY <1>1, SentSlots
<1>6. ASSUME NEW i \in S
      PROVE  /\ queue'.msg_ids[i] = IdAfter(message_id, Rank(S, i), MSG_ID_INVALID)
             /\ queue'.msg_ids[i] \in 0 .. MSG_ID_INVALID - 1
             /\ queue'.batch_ids[i] = batch_id
  <2>1. queue'.batch_ids[i] = batch_id
    BY ONLY <1>1, i \in S, SentSlots
  <2>2. queue'.msg_ids[i] = IdAfter(message_id, Rank(S, i), MSG_ID_INVALID)
    BY ONLY <1>1, i \in S, SentSlots
  <2>3. Rank(S, i) \in Nat /\ message_id \in Nat
    BY <1>2, RankType, QueueAssumption DEF Inv, Typed
  <2>4. IdAfter(message_id, Rank(S, i), MSG_ID_INVALID) \in 0 .. MSG_ID_INVALID - 1
    BY <2>3, IdAfterType, QueueAssumption
  <2> QED BY <2>1, <2>2, <2>4
<1> QED BY <1>2, <1>3, <1>4, <1>5, <1>6

LEMMA SendStep ==
  ASSUME Inv, NEW S \in SUBSET Unsent(queue), Sends(S)
  PROVE  Inv'
<1>0. /\ pushed' = pushed /\ issued' = issued + Cardinality(S)
      /\ message_id' = IdAfter(message_id, Cardinality(S), MSG_ID_INVALID)
      /\ batch_id' = IdAfter(batch_id, 1, BATCH_ID_INVALID)
      /\ message_id \in Nat /\ batch_id \in 0 .. BATCH_ID_INVALID - 1 /\ batch_id \in Nat
      /\ pushed \in Nat /\ issued \in Nat
  BY QueueAssumption DEF Inv, Typed, Sends
<1>1. /\ IsQueue(queue', Nat, Nat) /\ IsFiniteSet(S)
      /\ queue'.count = queue.count /\ queue'.capacity = queue.capacity
      /\ Live(queue') = Live(queue)
      /\ queue'.msgs = queue.msgs /\ queue'.funcs = queue.funcs
      /\ \A i \in S : /\ queue'.msg_ids[i] \in 0 .. MSG_ID_INVALID - 1
                     /\ queue'.batch_ids[i] = batch_id
      /\ \A i \in Live(queue) \ S :
           /\ queue'.msg_ids[i] = queue.msg_ids[i]
           /\ queue'.batch_ids[i] = queue.batch_ids[i]
  BY SendSlots
<1>2. Typed'
  <2>1. Cardinality(S) \in Nat
    BY <1>1, FS_CardinalityType
  <2>2. message_id' \in 0 .. MSG_ID_INVALID - 1
    BY <1>0, <2>1, IdAfterType, QueueAssumption
  <2>3. batch_id' \in 0 .. BATCH_ID_INVALID - 1
    BY <1>0, IdAfterType, QueueAssumption
  <2> QED BY <1>0, <1>1, <2>1, <2>2, <2>3 DEF Typed
<1>3. SlotsFit' /\ InOrder'
  BY <1>1 DEF Inv, SlotsFit, InOrder
<1>4. Aligned'
  <2> SUFFICES ASSUME NEW i \in Live(queue)
               PROVE  queue'.msg_ids[i] = MSG_ID_INVALID <=> queue'.batch_ids[i] = BATCH_ID_INVALID
    BY <1>0, <1>1 DEF Inv, Aligned
  <2>1. CASE i \in S
    BY <1>0, <1>1, <2>1, QueueAssumption
  <2>2. CASE i \notin S
    BY <1>1, <2>2 DEF Inv, Aligned
  <2> QED BY <2>1, <2>2
<1> QED BY <1>2, <1>3, <1>4 DEF Inv

\* The slots after a reply: those at and behind the removed one hold what the
\* next one held.
LEMMA RecvSlots ==
  ASSUME Inv, NEW id, Recv(id)
  PROVE  LET at == FindByMsgId(queue, id)
             from(i) == IF at <= i THEN i + 1 ELSE i
         IN  /\ at \in Live(queue) /\ queue.msg_ids[at] = id
             /\ queue'.count = queue.count - 1
             /\ IsQueue(queue', Nat, Nat)
             /\ queue'.capacity = queue.capacity
             /\ Live(queue') = Live(queue) \ {queue.count - 1}
             /\ \A i \in Live(queue') :
                  /\ from(i) \in Live(queue) \ {at}
                  /\ queue'.msgs[i] = queue.msgs[from(i)]
                  /\ queue'.funcs[i] = queue.funcs[from(i)]
                  /\ queue'.msg_ids[i] = queue.msg_ids[from(i)]
                  /\ queue'.batch_ids[i] = queue.batch_ids[from(i)]
             /\ \A j \in Live(queue) \ {at} :
                  LET i == IF at < j THEN j - 1 ELSE j IN i \in Live(queue') /\ from(i) = j
<1> DEFINE at == FindByMsgId(queue, id)
           from(i) == IF at <= i THEN i + 1 ELSE i
           p == RemoveOrdered(queue, at)
<1>0. IsQueue(queue, Nat, Nat) /\ at # -1 /\ queue' = p
  BY DEF Inv, Typed, Recv
<1>1. at \in Live(queue) /\ queue.msg_ids[at] = id
  BY <1>0, FindType
<1>2. IsQueue(p, Nat, Nat) /\ p.capacity = queue.capacity
  <2> HIDE DEF at
  <2>1. IsQueue(p, Nat, Nat)
    BY <1>0, <1>1, RemoveType
  <2> QED BY <2>1 DEF RemoveOrdered
<1>3. /\ p.count = queue.count - 1
      /\ \A i \in 0 .. queue.written - 1 :
           LET f == IF at <= i /\ i + 1 < queue.count THEN i + 1 ELSE i
           IN  /\ p.msgs[i] = queue.msgs[f] /\ p.funcs[i] = queue.funcs[f]
               /\ p.msg_ids[i] = queue.msg_ids[f] /\ p.batch_ids[i] = queue.batch_ids[f]
  <2> HIDE DEF at
  <2> QED BY <1>0, <1>1, RemoveSlots
<1> HIDE DEF at, p
<1>4. queue.count \in Nat /\ queue.written \in Nat /\ queue.count <= queue.written
  BY <1>0, QueueParts
<1>5. Live(queue) = 0 .. queue.count - 1 /\ Live(p) = 0 .. queue.count - 2
  BY <1>3, <1>4 DEF Live
<1>6. \A i \in Live(p) :
        /\ from(i) \in Live(queue) \ {at}
        /\ p.msgs[i] = queue.msgs[from(i)] /\ p.funcs[i] = queue.funcs[from(i)]
        /\ p.msg_ids[i] = queue.msg_ids[from(i)] /\ p.batch_ids[i] = queue.batch_ids[from(i)]
  <2> SUFFICES ASSUME NEW i \in Live(p)
               PROVE  /\ from(i) \in Live(queue) \ {at}
                      /\ p.msgs[i] = queue.msgs[from(i)] /\ p.funcs[i] = queue.funcs[from(i)]
                      /\ p.msg_ids[i] = queue.msg_ids[from(i)]
                      /\ p.batch_ids[i] = queue.batch_ids[from(i)]
    OBVIOUS
  <2>1. i \in 0 .. queue.written - 1 /\ i + 1 < queue.count /\ from(i) \in Live(queue) \ {at}
    BY <1>1, <1>4, <1>5
  <2>2. (IF at <= i /\ i + 1 < queue.count THEN i + 1 ELSE i) = from(i)
    BY <2>1
  <2> HIDE DEF from
  <2> QED BY <1>3, <2>1, <2>2
<1>7. \A j \in Live(queue) \ {at} :
        LET i == IF at < j THEN j - 1 ELSE j IN i \in Live(p) /\ from(i) = j
  BY <1>1, <1>4, <1>5
<1>8. Live(p) = Live(queue) \ {queue.count - 1}
  BY <1>4, <1>5
<1> QED BY <1>0, <1>1, <1>2, <1>3, <1>6, <1>7, <1>8 DEF at

LEMMA RecvStep ==
  ASSUME Inv, NEW id, Recv(id)
  PROVE  Inv'
<1> DEFINE at == FindByMsgId(queue, id)
           from(i) == IF at <= i THEN i + 1 ELSE i
<1>1. /\ at \in Live(queue) /\ queue'.count = queue.count - 1 /\ IsQueue(queue', Nat, Nat)
      /\ queue'.capacity = queue.capacity
      /\ Live(queue') = Live(queue) \ {queue.count - 1}
      /\ \A i \in Live(queue') :
           /\ from(i) \in Live(queue) \ {at}
           /\ queue'.msgs[i] = queue.msgs[from(i)] /\ queue'.funcs[i] = queue.funcs[from(i)]
           /\ queue'.msg_ids[i] = queue.msg_ids[from(i)]
           /\ queue'.batch_ids[i] = queue.batch_ids[from(i)]
  BY RecvSlots
<1>2. UNCHANGED <<message_id, batch_id, pushed, issued>>
  BY DEF Recv
<1>3. IsQueue(queue, Nat, Nat) /\ Live(queue) \subseteq Nat
      /\ queue.count \in Nat /\ queue.capacity \in Nat
  <2>1. IsQueue(queue, Nat, Nat)
    BY DEF Inv, Typed
  <2> QED BY <2>1, LiveSlots, QueueParts
<1> HIDE DEF at
<1>4. Typed' /\ SlotsFit'
  BY <1>1, <1>2, <1>3 DEF Inv, Typed, SlotsFit
<1>5. InOrder'
  <2> SUFFICES ASSUME NEW i \in Live(queue'), NEW j \in Live(queue'), i < j
               PROVE  queue'.msgs[i] < queue'.msgs[j]
    BY DEF InOrder
  <2>1. at \in Nat /\ i \in Nat /\ j \in Nat
    BY <1>1, <1>3
  <2>2. from(i) < from(j)
    BY <2>1
  <2> HIDE DEF from
  <2> QED BY <1>1, <2>2 DEF Inv, InOrder
<1>6. Aligned'
  <2> HIDE DEF from
  <2> QED BY <1>1, <1>2 DEF Inv, Aligned
<1> QED BY <1>4, <1>5, <1>6 DEF Inv

\* The slots after a batch could not be sent.
LEMMA ClearSlots ==
  ASSUME NEW q, IsQueue(q, Nat, Nat), NEW batch, NEW p, p = ClearBatch(q, batch)
  PROVE  /\ IsQueue(p, Nat, Nat)
         /\ p.count = q.count /\ p.capacity = q.capacity /\ Live(p) = Live(q)
         /\ p.msgs = q.msgs /\ p.funcs = q.funcs
         /\ \A i \in Live(q) :
              IF q.batch_ids[i] = batch
              THEN p.msg_ids[i] = MSG_ID_INVALID /\ p.batch_ids[i] = BATCH_ID_INVALID
              ELSE p.msg_ids[i] = q.msg_ids[i] /\ p.batch_ids[i] = q.batch_ids[i]
<1>1. IsQueue(p, Nat, Nat)
  BY ClearBatchType
<1> DEFINE T == {i \in Live(q) : q.batch_ids[i] = batch}
<1>2. /\ p.count = q.count /\ p.capacity = q.capacity /\ p.msgs = q.msgs /\ p.funcs = q.funcs
      /\ p.msg_ids = [i \in DOMAIN q.msg_ids |-> IF i \in T THEN MSG_ID_INVALID ELSE q.msg_ids[i]]
      /\ p.batch_ids =
           [i \in DOMAIN q.batch_ids |-> IF i \in T THEN BATCH_ID_INVALID ELSE q.batch_ids[i]]
  BY DEF ClearBatch, WithIds, Update
<1>3. DOMAIN q.msg_ids = 0 .. q.written - 1 /\ DOMAIN q.batch_ids = 0 .. q.written - 1
  BY DEF IsQueue
<1>4. Live(p) = Live(q)
  BY <1>2 DEF Live
<1>5. Live(q) \subseteq 0 .. q.written - 1
  BY LiveSlots
<1> QED BY <1>1, <1>2, <1>3, <1>4, <1>5

LEMMA SendErrStep ==
  ASSUME Inv, NEW batch, OnBatchSendErr(batch)
  PROVE  Inv'
<1>0. IsQueue(queue, Nat, Nat) /\ queue' = ClearBatch(queue, batch)
      /\ UNCHANGED <<message_id, batch_id, pushed, issued>>
  BY DEF Inv, Typed, OnBatchSendErr
<1>1. /\ IsQueue(queue', Nat, Nat)
      /\ queue'.count = queue.count /\ queue'.capacity = queue.capacity
      /\ Live(queue') = Live(queue) /\ queue'.msgs = queue.msgs /\ queue'.funcs = queue.funcs
      /\ \A i \in Live(queue) :
           IF queue.batch_ids[i] = batch
           THEN queue'.msg_ids[i] = MSG_ID_INVALID /\ queue'.batch_ids[i] = BATCH_ID_INVALID
           ELSE queue'.msg_ids[i] = queue.msg_ids[i] /\ queue'.batch_ids[i] = queue.batch_ids[i]
  BY <1>0, ClearSlots
<1>2. Typed'
  BY <1>0, <1>1 DEF Inv, Typed
<1>3. SlotsFit' /\ InOrder'
  BY <1>1 DEF Inv, SlotsFit, InOrder
<1>4. Aligned'
  BY <1>0, <1>1 DEF Inv, Aligned
<1> QED BY <1>2, <1>3, <1>4 DEF Inv

LEMMA Invariance == Spec => []Inv
<1>1. Init => Inv
  <2> SUFFICES ASSUME Init PROVE Inv
    OBVIOUS
  <2>1. IsQueue(queue, Nat, Nat)
    BY EmptyQueueType DEF Init
  <2>2. queue.count = 0 /\ queue.capacity \in Nat /\ Live(queue) = {}
    BY QueueAssumption DEF Init, EmptyQueue, Live
  <2> QED BY <2>1, <2>2, QueueAssumption DEF Init, Inv, Typed, SlotsFit, InOrder, Aligned
<1>2. Inv /\ [Next]_vars => Inv'
  <2> SUFFICES ASSUME Inv, [Next]_vars PROVE Inv'
    OBVIOUS
  <2>1. CASE PushMsg
    BY <2>1, PushStep
  <2>2. CASE Flush
    BY <2>2, SendStep DEF Flush
  <2>3. ASSUME NEW i \in Live(queue), FlushOne(i)
        PROVE  Inv'
    BY <2>3, SendStep DEF FlushOne
  <2>4. ASSUME NEW id, Recv(id)
        PROVE  Inv'
    BY <2>4, RecvStep
  <2>5. ASSUME NEW batch, OnBatchSendErr(batch)
        PROVE  Inv'
    BY <2>5, SendErrStep
  <2>6. CASE UNCHANGED vars
    BY <2>6 DEF vars, Inv, Typed, SlotsFit, InOrder, Aligned
  <2> QED BY <2>1, <2>2, <2>3, <2>4, <2>5, <2>6 DEF Next
<1> QED BY <1>1, <1>2, PTL DEF Spec

\* Every slot in use lies inside the four arrays, over any number of pushes
\* onto a full queue: msg_queue_push grows them before it stores.
THEOREM QueueFits == Spec => []SlotsFit
<1>1. Inv => SlotsFit
  BY DEF Inv
<1> QED BY <1>1, Invariance, PTL

\* Messages stay in the order the application queued them, through replies
\* that remove slots from the middle and batches that wait again, so that every
\* flush sends them in that order.
THEOREM OldestFirst == Spec => []InOrder
<1>1. Inv => InOrder
  BY DEF Inv
<1> QED BY <1>1, Invariance, PTL

-----------------------------------------------------------------------------
(* Message ids that wrap around *)

\* A quotient and a remainder in range are the only ones.
LEMMA Division ==
  ASSUME NEW m \in Nat \ {0}, NEW k \in Int, NEW r \in 0 .. m - 1
  PROVE  (m * k + r) % m = r
<1> DEFINE x == m * k + r  d == x \div m  e == k - d
<1>1. x \in Int /\ d \in Int /\ x % m \in 0 .. m - 1 /\ x = m * d + (x % m)
  BY SMT
<1>2. m * e = (x % m) - r
  BY <1>1, SMT
<1>3. e \in Int
  BY <1>1
<1> HIDE DEF e
<1>4. e >= 1 => m * e >= m
  BY <1>3, SMT
<1>5. e <= -1 => m * e <= -m
  BY <1>3, SMT
<1>6. e = 0
  BY <1>1, <1>2, <1>3, <1>4, <1>5, SMT
<1>7. m * 0 = 0
  OBVIOUS
<1> QED BY <1>1, <1>2, <1>6, <1>7

\* Numbers with the same remainder are a whole divisor apart.
LEMMA SameRemainder ==
  ASSUME NEW m \in Nat \ {0}, NEW a \in Nat, NEW b \in Nat, a < b, a % m = b % m
  PROVE  b - a >= m
<1> DEFINE e == (b \div m) - (a \div m)
<1>1. e \in Int /\ m * e = b - a
  BY SMT
<1> HIDE DEF e
<1>2. e <= 0 => m * e <= 0
  BY <1>1, SMT
<1>3. e >= 1 => m * e >= m
  BY <1>1, SMT
<1> QED BY <1>1, <1>2, <1>3

\* What is added to a remainder may as well be added before.
LEMMA RemainderPlus ==
  ASSUME NEW m \in Nat \ {0}, NEW x \in Nat, NEW n \in Nat
  PROVE  ((x % m) + n) % m = (x + n) % m
<1> DEFINE y == (x % m) + n  k == (x \div m) + (y \div m)
<1>1. y \in Nat /\ k \in Int /\ y % m \in 0 .. m - 1
  BY SMT
<1>2. x + n = m * k + (y % m)
  BY <1>1, SMT
<1> HIDE DEF y, k
<1>3. (x + n) % m = y % m
  BY <1>1, <1>2, Division
<1> QED BY <1>3 DEF y
\* The ids that were handed out number the messages in flight: the message id
\* in a slot is the remainder of that number, and no number is used twice.
Numbered ==
  /\ message_id = issued % MSG_ID_INVALID
  /\ DOMAIN sent_as = {queue.msgs[i] : i \in InFlight}
  /\ \A i \in InFlight :
       /\ sent_as[queue.msgs[i]] \in 0 .. issued - 1
       /\ queue.msg_ids[i] = sent_as[queue.msgs[i]] % MSG_ID_INVALID
  /\ \A i, j \in InFlight : i # j => sent_as[queue.msgs[i]] # sent_as[queue.msgs[j]]

\* A message is in one slot only.
LEMMA OneSlot ==
  ASSUME Inv, NEW i \in Live(queue), NEW j \in Live(queue), queue.msgs[i] = queue.msgs[j]
  PROVE  i = j
<1>1. i \in Nat /\ j \in Nat /\ queue.msgs[i] \in Nat
  <2>1. IsQueue(queue, Nat, Nat)
    BY DEF Inv, Typed
  <2> QED BY <2>1, LiveSlots DEF Inv, Aligned
<1>2. CASE i < j
  BY <1>1, <1>2 DEF Inv, InOrder
<1>3. CASE j < i
  BY <1>1, <1>3 DEF Inv, InOrder
<1> QED BY <1>1, <1>2, <1>3

\* The slots in flight after each step.
LEMMA PushFlight ==
  ASSUME Inv, PushMsg
  PROVE  InFlight' = InFlight /\ Unsent(queue') = Unsent(queue) \cup {queue.count}
BY PushMsgSlots DEF InFlight, Unsent

LEMMA SendFlight ==
  ASSUME Inv, NEW S \in SUBSET Unsent(queue), Sends(S)
  PROVE  InFlight' = InFlight \cup S /\ Unsent(queue') = Unsent(queue) \ S
<1>1. \A i \in S : queue'.msg_ids[i] # MSG_ID_INVALID
  BY SendSlots, QueueAssumption
<1> QED BY <1>1, SendSlots DEF InFlight, Unsent

LEMMA SendErrFlight ==
  ASSUME Inv, NEW batch, batch # BATCH_ID_INVALID, OnBatchSendErr(batch)
  PROVE  LET B == {i \in Live(queue) : queue.batch_ids[i] = batch}
         IN  /\ B \subseteq InFlight
             /\ InFlight' = InFlight \ B /\ Unsent(queue') = Unsent(queue) \cup B
             /\ queue'.msgs = queue.msgs /\ Live(queue') = Live(queue)
             /\ \A i \in InFlight' : /\ queue'.msg_ids[i] = queue.msg_ids[i]
                                   /\ queue'.batch_ids[i] = queue.batch_ids[i]
<1>1. IsQueue(queue, Nat, Nat) /\ queue' = ClearBatch(queue, batch)
  BY DEF Inv, Typed, OnBatchSendErr
<1>2. /\ Live(queue') = Live(queue) /\ queue'.msgs = queue.msgs
      /\ \A i \in Live(queue) :
           IF queue.batch_ids[i] = batch
           THEN queue'.msg_ids[i] = MSG_ID_INVALID /\ queue'.batch_ids[i] = BATCH_ID_INVALID
           ELSE queue'.msg_ids[i] = queue.msg_ids[i] /\ queue'.batch_ids[i] = queue.batch_ids[i]
  BY <1>1, ClearSlots
<1>3. \A i \in Live(queue) : queue.batch_ids[i] = batch => queue.msg_ids[i] # MSG_ID_INVALID
  BY DEF Inv, Aligned
<1> QED BY <1>2, <1>3 DEF InFlight, Unsent

LEMMA RecvFlight ==
  ASSUME Inv, NEW id, Recv(id)
  PROVE  LET at == FindByMsgId(queue, id)
             from(i) == IF at <= i THEN i + 1 ELSE i
             to(j) == IF at < j THEN j - 1 ELSE j
         IN  /\ at \in IF id = MSG_ID_INVALID THEN Unsent(queue) ELSE InFlight
             /\ \A i \in InFlight' : from(i) \in InFlight \ {at}
             /\ \A j \in InFlight \ {at} : to(j) \in InFlight' /\ from(to(j)) = j
             /\ \A i \in Unsent(queue') : from(i) \in Unsent(queue) \ {at}
             /\ \A j \in Unsent(queue) \ {at} : to(j) \in Unsent(queue') /\ from(to(j)) = j
<1> DEFINE at == FindByMsgId(queue, id)
           from(i) == IF at <= i THEN i + 1 ELSE i
           to(j) == IF at < j THEN j - 1 ELSE j
<1>1. /\ at \in Live(queue) /\ queue.msg_ids[at] = id
      /\ \A i \in Live(queue') :
           from(i) \in Live(queue) \ {at} /\ queue'.msg_ids[i] = queue.msg_ids[from(i)]
      /\ \A j \in Live(queue) \ {at} : to(j) \in Live(queue') /\ from(to(j)) = j
  BY RecvSlots
<1> HIDE DEF at, from, to
<1>2. at \in IF id = MSG_ID_INVALID THEN Unsent(queue) ELSE InFlight
  BY <1>1 DEF InFlight, Unsent
<1>3. \A i \in Live(queue') : i \in Unsent(queue') <=> from(i) \in Unsent(queue)
  BY <1>1 DEF Unsent
<1>4. \A j \in Live(queue) \ {at} : to(j) \in Unsent(queue') <=> j \in Unsent(queue)
  BY <1>1, <1>3
<1>5. InFlight' = Live(queue') \ Unsent(queue')
  BY DEF InFlight
<1>6. \A i \in InFlight' : from(i) \in InFlight \ {at}
  BY <1>1, <1>3, <1>5 DEF InFlight
<1>7. \A j \in InFlight \ {at} : to(j) \in InFlight' /\ from(to(j)) = j
  BY <1>1, <1>4, <1>5 DEF InFlight
<1>8. \A i \in Unsent(queue') : from(i) \in Unsent(queue) \ {at}
  BY <1>1, <1>3 DEF Unsent
<1>9. \A j \in Unsent(queue) \ {at} : to(j) \in Unsent(queue') /\ from(to(j)) = j
  <2>1. Unsent(queue) \subseteq Live(queue)
    BY DEF Unsent
  <2> QED BY <1>1, <1>4, <2>1
<1> QED BY <1>2, <1>6, <1>7, <1>8, <1>9 DEF at, from, to

LEMMA NumberedPush ==
  ASSUME Inv, Numbered, PushMsg
  PROVE  Numbered'
<1>1. InFlight' = InFlight /\ \A i \in InFlight : /\ queue'.msgs[i] = queue.msgs[i]
                                               /\ queue'.msg_ids[i] = queue.msg_ids[i]
  BY PushFlight, PushMsgSlots DEF InFlight
<1>2. UNCHANGED <<message_id, issued, sent_as>>
  BY DEF PushMsg
<1> QED BY <1>1, <1>2 DEF Numbered

LEMMA NumberedSend ==
  ASSUME Inv, Numbered, NEW S \in SUBSET Unsent(queue), Sends(S)
  PROVE  Numbered'
<1> DEFINE nr(i) == issued + Rank(S, i)
<1>1. /\ InFlight' = InFlight \cup S /\ InFlight \cap S = {}
      /\ InFlight \subseteq Live(queue) /\ S \subseteq Live(queue)
  BY SendFlight, SendSlots DEF InFlight
<1>2. /\ IsFiniteSet(S) /\ S \in SUBSET Int /\ queue'.msgs = queue.msgs
      /\ \A i \in S : queue'.msg_ids[i] = IdAfter(message_id, Rank(S, i), MSG_ID_INVALID)
      /\ \A i \in Live(queue) \ S : queue'.msg_ids[i] = queue.msg_ids[i]
  BY SendSlots
<1>3. /\ issued' = issued + Cardinality(S) /\ issued \in Nat
      /\ message_id' = IdAfter(message_id, Cardinality(S), MSG_ID_INVALID)
      /\ message_id = issued % MSG_ID_INVALID /\ MSG_ID_INVALID \in Nat \ {0}
  BY QueueAssumption DEF Inv, Typed, Numbered, Sends
<1>4. Cardinality(S) \in Nat
  BY <1>2, FS_CardinalityType
<1>5. ASSUME NEW i \in S
      PROVE  Rank(S, i) \in Nat /\ nr(i) \in issued .. issued' - 1
  <2>1. Rank(S, i) \in Nat /\ Rank(S, i) < Cardinality(S)
    BY <1>2, RankType
  <2> QED BY <1>3, <1>4, <2>1
<1>6. \A i, j \in S : i # j => nr(i) # nr(j)
  <2> SUFFICES ASSUME NEW i \in S, NEW j \in S, i < j
               PROVE  nr(i) # nr(j)
    BY <1>2
  <2>1. Rank(S, i) < Rank(S, j)
    BY <1>2, RankMonotone
  <2> QED BY <1>3, <1>5, <2>1
<1>7. \A i \in S : queue.msgs[i] \notin DOMAIN sent_as
  BY <1>1, OneSlot DEF Numbered
<1>8. sent_as' = [m \in DOMAIN sent_as \cup {queue.msgs[i] : i \in S} |->
                   IF m \in DOMAIN sent_as THEN sent_as[m]
                   ELSE LET i == CHOOSE i \in S : queue.msgs[i] = m IN issued + Rank(S, i)]
  BY DEF Sends
<1>9. DOMAIN sent_as' = {queue'.msgs[i] : i \in InFlight'}
  <2>1. DOMAIN sent_as' = DOMAIN sent_as \cup {queue.msgs[i] : i \in S}
    BY <1>8
  <2>2. DOMAIN sent_as = {queue.msgs[i] : i \in InFlight}
    BY DEF Numbered
  <2> QED BY <1>1, <1>2, <2>1, <2>2
<1>10. \A i \in S : sent_as'[queue.msgs[i]] = nr(i)
  <2> SUFFICES ASSUME NEW i \in S
               PROVE  sent_as'[queue.msgs[i]] = nr(i)
    OBVIOUS
  <2>1. (CHOOSE j \in S : queue.msgs[j] = queue.msgs[i]) = i
    BY <1>1, OneSlot
  <2> QED BY <1>7, <1>8, <2>1
<1>11. \A i \in InFlight : sent_as'[queue.msgs[i]] = sent_as[queue.msgs[i]]
  BY <1>8 DEF Numbered
<1>12. message_id' = issued' % MSG_ID_INVALID
  BY <1>3, <1>4, RemainderPlus DEF IdAfter
<1>13. ASSUME NEW i \in S
       PROVE  queue'.msg_ids[i] = nr(i) % MSG_ID_INVALID
  BY <1>2, <1>3, <1>5, RemainderPlus DEF IdAfter
<1>14. \A i \in InFlight : /\ sent_as[queue.msgs[i]] \in 0 .. issued - 1
                          /\ queue.msg_ids[i] = sent_as[queue.msgs[i]] % MSG_ID_INVALID
                          /\ queue'.msg_ids[i] = queue.msg_ids[i]
  BY <1>1, <1>2 DEF Numbered
<1>15. \A i \in InFlight' :
         /\ sent_as'[queue'.msgs[i]] \in 0 .. issued' - 1
         /\ queue'.msg_ids[i] = sent_as'[queue'.msgs[i]] % MSG_ID_INVALID
  <2> HIDE DEF nr
  <2>1. \A i \in S : /\ sent_as'[queue'.msgs[i]] \in 0 .. issued' - 1
                    /\ queue'.msg_ids[i] = sent_as'[queue'.msgs[i]] % MSG_ID_INVALID
    BY <1>2, <1>3, <1>4, <1>5, <1>10, <1>13
  <2>2. \A i \in InFlight : /\ sent_as'[queue'.msgs[i]] \in 0 .. issued' - 1
                           /\ queue'.msg_ids[i] = sent_as'[queue'.msgs[i]] % MSG_ID_INVALID
    BY <1>2, <1>3, <1>4, <1>11, <1>14
  <2> QED BY <1>1, <2>1, <2>2
<1>16. ASSUME NEW i \in InFlight', NEW j \in InFlight', i # j
       PROVE  sent_as'[queue'.msgs[i]] # sent_as'[queue'.msgs[j]]
  <2> HIDE DEF nr
  <2>0. queue'.msgs = queue.msgs
    BY <1>2
  <2>1. \A k \in S : sent_as'[queue.msgs[k]] = nr(k) /\ nr(k) \in issued .. issued' - 1
    BY <1>5, <1>10
  <2>2. \A k \in InFlight : /\ sent_as'[queue.msgs[k]] = sent_as[queue.msgs[k]]
                           /\ sent_as'[queue.msgs[k]] \in 0 .. issued - 1
    BY <1>11, <1>14
  <2>3. \A k \in InFlight, l \in S : sent_as'[queue.msgs[k]] < sent_as'[queue.msgs[l]]
    BY ONLY <1>3, <2>1, <2>2
  <2>4. CASE i \in S /\ j \in S
    BY <1>6, <1>16, <2>0, <2>1, <2>4
  <2>5. CASE i \in S /\ j \in InFlight
    BY ONLY <1>3, <2>0, <2>1, <2>2, <2>3, <2>5
  <2>6. CASE i \in InFlight /\ j \in S
    BY ONLY <1>3, <2>0, <2>1, <2>2, <2>3, <2>6
  <2>7. CASE i \in InFlight /\ j \in InFlight
    BY <1>16, <2>0, <2>2, <2>7 DEF Numbered
  <2> QED BY <1>1, <2>4, <2>5, <2>6, <2>7
<1> QED BY <1>9, <1>12, <1>15, <1>16 DEF Numbered

LEMMA NumberedRecv ==
  ASSUME Inv, Numbered, NEW id, Recv(id)
  PROVE  Numbered'
<1> DEFINE at == FindByMsgId(queue, id)
           from(i) == IF at <= i THEN i + 1 ELSE i
           to(j) == IF at < j THEN j - 1 ELSE j
<1>1. /\ at \in Live(queue)
      /\ \A i \in InFlight' : from(i) \in InFlight \ {at}
      /\ \A j \in InFlight \ {at} : to(j) \in InFlight' /\ from(to(j)) = j
  BY RecvFlight, RecvSlots
<1>2. \A i \in Live(queue') :
        queue'.msgs[i] = queue.msgs[from(i)] /\ queue'.msg_ids[i] = queue.msg_ids[from(i)]
  BY RecvSlots
<1>3. /\ sent_as' = [m \in DOMAIN sent_as \ {queue.msgs[at]} |-> sent_as[m]]
      /\ UNCHANGED <<message_id, issued>>
  BY DEF Recv, Landed
<1>4. ASSUME NEW i \in InFlight', NEW j \in InFlight', i # j
      PROVE  from(i) # from(j)
  <2>1. i \in Int /\ j \in Int /\ at \in Int
    <3>1. IsQueue(queue, Nat, Nat) /\ IsQueue(queue', Nat, Nat)
      BY RecvSlots DEF Inv, Typed
    <3>2. Live(queue) \subseteq Nat /\ Live(queue') \subseteq Nat
      BY <3>1, LiveSlots
    <3> QED BY <1>1, <3>2 DEF InFlight
  <2> QED BY <1>4, <2>1
<1>5. InFlight' \subseteq Live(queue') /\ InFlight \subseteq Live(queue)
  BY DEF InFlight
<1> HIDE DEF at, from, to
<1>6. \A j \in InFlight \ {at} : queue.msgs[j] # queue.msgs[at]
  BY <1>1, <1>5, OneSlot
<1>7. \A i \in InFlight' : sent_as'[queue'.msgs[i]] = sent_as[queue.msgs[from(i)]]
  BY <1>1, <1>2, <1>3, <1>5, <1>6 DEF Numbered
<1>8. DOMAIN sent_as' = {queue'.msgs[i] : i \in InFlight'}
  <2>1. \A m \in DOMAIN sent_as' : \E i \in InFlight' : m = queue'.msgs[i]
    <3> SUFFICES ASSUME NEW j \in InFlight, queue.msgs[j] # queue.msgs[at]
                 PROVE  \E i \in InFlight' : queue.msgs[j] = queue'.msgs[i]
      BY <1>3 DEF Numbered
    <3> QED BY <1>1, <1>2, <1>5
  <2>2. \A i \in InFlight' : queue'.msgs[i] \in DOMAIN sent_as'
    BY <1>1, <1>2, <1>3, <1>5, <1>6 DEF Numbered
  <2> QED BY <2>1, <2>2
<1>9. \A i \in InFlight' :
        /\ sent_as'[queue'.msgs[i]] \in 0 .. issued' - 1
        /\ queue'.msg_ids[i] = sent_as'[queue'.msgs[i]] % MSG_ID_INVALID
  BY <1>1, <1>2, <1>3, <1>5, <1>7 DEF Numbered
<1>10. \A i, j \in InFlight' : i # j => sent_as'[queue'.msgs[i]] # sent_as'[queue'.msgs[j]]
  BY <1>1, <1>4, <1>7 DEF Numbered
<1> QED BY <1>3, <1>8, <1>9, <1>10 DEF Numbered

LEMMA NumberedSendErr ==
  ASSUME Inv, Numbered, NEW batch, batch # BATCH_ID_INVALID, OnBatchSendErr(batch)
  PROVE  Numbered'
<1> DEFINE B == {i \in Live(queue) : queue.batch_ids[i] = batch}
           M == {queue.msgs[i] : i \in B}
<1>1. /\ B \subseteq InFlight /\ InFlight' = InFlight \ B
      /\ queue'.msgs = queue.msgs /\ InFlight \subseteq Live(queue)
      /\ \A i \in InFlight' : queue'.msg_ids[i] = queue.msg_ids[i]
  BY SendErrFlight DEF InFlight
<1>2. /\ sent_as' = [m \in DOMAIN sent_as \ M |-> sent_as[m]]
      /\ UNCHANGED <<message_id, issued>>
  BY DEF OnBatchSendErr, Landed
<1> HIDE DEF B
<1>3. \A i \in InFlight : i \in B <=> queue.msgs[i] \in M
  BY <1>1, OneSlot
<1>4. DOMAIN sent_as' = {queue'.msgs[i] : i \in InFlight'}
  BY <1>1, <1>2, <1>3 DEF Numbered
<1>5. \A i \in InFlight' : sent_as'[queue'.msgs[i]] = sent_as[queue.msgs[i]]
  BY <1>1, <1>2, <1>3 DEF Numbered
<1> QED BY <1>1, <1>2, <1>4, <1>5 DEF Numbered

\* What Next adds to a failed batch: it is one of a message in flight.
LEMMA FlightIds ==
  ASSUME Inv, NEW i \in InFlight
  PROVE  queue.msg_ids[i] # MSG_ID_INVALID /\ queue.batch_ids[i] # BATCH_ID_INVALID
BY DEF Inv, Aligned, InFlight, Unsent

LEMMA NumberedInvariance == Spec => []Numbered
<1>1. Init => Numbered
  <2> SUFFICES ASSUME Init PROVE Numbered
    OBVIOUS
  <2>1. InFlight = {}
    BY DEF Init, EmptyQueue, Live, InFlight
  <2>2. 0 = 0 % MSG_ID_INVALID
    BY QueueAssumption
  <2> QED BY <2>1, <2>2 DEF Init, Numbered
<1>2. Inv /\ Numbered /\ [Next]_vars => Numbered'
  <2> SUFFICES ASSUME Inv, Numbered, [Next]_vars PROVE Numbered'
    OBVIOUS
  <2>1. CASE PushMsg
    BY <2>1, NumberedPush
  <2>2. CASE Flush
    BY <2>2, NumberedSend DEF Flush
  <2>3. ASSUME NEW i \in Live(queue), FlushOne(i)
        PROVE  Numbered'
    BY <2>3, NumberedSend DEF FlushOne
  <2>4. ASSUME NEW id, Recv(id)
        PROVE  Numbered'
    BY <2>4, NumberedRecv
  <2>5. ASSUME NEW i \in InFlight, OnBatchSendErr(queue.batch_ids[i])
        PROVE  Numbered'
    BY <2>5, FlightIds, NumberedSendErr
  <2>6. CASE UNCHANGED vars
    BY <2>6 DEF vars, Numbered, InFlight
  <2> QED BY <2>1, <2>2, <2>3, <2>4, <2>5, <2>6 DEF Next, InFlight
<1> QED BY <1>1, <1>2, Invariance, PTL DEF Spec

\* Two messages in flight share a message id only if one was sent a whole
\* cycle of ids before the other, although ids skip the invalid one and wrap
\* around: until then a reply can only answer the message it is about.
THEOREM IdsApart == Spec => []IdsDistinct
<1>1. Inv /\ Numbered => IdsDistinct
  <2> SUFFICES ASSUME Inv, Numbered, NEW i \in InFlight, NEW j \in InFlight, i # j,
                      queue.msg_ids[i] = queue.msg_ids[j],
                      NEW a, a = sent_as[queue.msgs[i]], NEW b, b = sent_as[queue.msgs[j]]
               PROVE  a - b >= MSG_ID_INVALID \/ b - a >= MSG_ID_INVALID
    BY DEF IdsDistinct
  <2>1. /\ a \in Nat /\ b \in Nat /\ a # b
        /\ a % MSG_ID_INVALID = b % MSG_ID_INVALID
    BY DEF Numbered, Inv, Typed
  <2>2. CASE a < b
    BY <2>1, <2>2, SameRemainder, QueueAssumption
  <2>3. CASE b < a
    BY <2>1, <2>3, SameRemainder, QueueAssumption
  <2> QED BY <2>1, <2>2, <2>3
<1> QED BY <1>1, Invariance, NumberedInvariance, PTL

-----------------------------------------------------------------------------
(* The promise of Mailbox *)

\* What the refinement mapping sees of a queue.
WaitingIn(q) == {q.msgs[i] : i \in Unsent(q)}
FlightIn(q) ==
  [m \in {q.msgs[i] : i \in Live(q) \ Unsent(q)} |->
     LET i == CHOOSE i \in Live(q) : q.msgs[i] = m
     IN  [id |-> q.msg_ids[i], batch |-> q.batch_ids[i]]]

\* No message is in two slots.
Distinct(q) == \A i, j \in Live(q) : q.msgs[i] = q.msgs[j] => i = j

LEMMA OrderedDistinct ==
  ASSUME NEW q, IsQueue(q, Nat, Nat), \A i, j \in Live(q) : i < j => q.msgs[i] < q.msgs[j]
  PROVE  Distinct(q)
<1>1. \A i \in Live(q) : i \in Nat /\ q.msgs[i] \in Nat
  <2>1. Live(q) \subseteq 0 .. q.written - 1 /\ Live(q) \subseteq Nat
    BY LiveSlots
  <2> QED BY <2>1, QueueParts
<1> QED BY <1>1 DEF Distinct

LEMMA InvDistinct ==
  /\ Inv => Distinct(queue)
  /\ Inv' => Distinct(queue')
BY OrderedDistinct DEF Inv, Typed, InOrder

LEMMA FlightParts ==
  ASSUME NEW q, Distinct(q)
  PROVE  /\ DOMAIN FlightIn(q) = {q.msgs[i] : i \in Live(q) \ Unsent(q)}
         /\ \A i \in Live(q) \ Unsent(q) :
              FlightIn(q)[q.msgs[i]] = [id |-> q.msg_ids[i], batch |-> q.batch_ids[i]]
<1>1. DOMAIN FlightIn(q) = {q.msgs[i] : i \in Live(q) \ Unsent(q)}
  BY DEF FlightIn
<1>2. ASSUME NEW i \in Live(q) \ Unsent(q)
      PROVE  FlightIn(q)[q.msgs[i]] = [id |-> q.msg_ids[i], batch |-> q.batch_ids[i]]
  <2>1. (CHOOSE j \in Live(q) : q.msgs[j] = q.msgs[i]) = i
    BY DEF Distinct
  <2> QED BY <2>1 DEF FlightIn
<1> QED BY <1>1, <1>2

\* A queue whose slots in flight all are slots in flight of another one has
\* a part of its flight.
LEMMA FlightFrom ==
  ASSUME NEW p, Distinct(p), NEW q, Distinct(q),
         \A i \in Live(p) \ Unsent(p) : \E j \in Live(q) \ Unsent(q) :
           p.msgs[i] = q.msgs[j] /\ p.msg_ids[i] = q.msg_ids[j] /\ p.batch_ids[i] = q.batch_ids[j],
         NEW T, {p.msgs[i] : i \in Live(p) \ Unsent(p)} = T
  PROVE  FlightIn(p) = [m \in T |-> FlightIn(q)[m]]
<1>1. /\ DOMAIN FlightIn(p) = T /\ T = {p.msgs[i] : i \in Live(p) \ Unsent(p)}
      /\ \A i \in Live(p) \ Unsent(p) :
           FlightIn(p)[p.msgs[i]] = [id |-> p.msg_ids[i], batch |-> p.batch_ids[i]]
  BY FlightParts
<1>2. \A j \in Live(q) \ Unsent(q) :
        FlightIn(q)[q.msgs[j]] = [id |-> q.msg_ids[j], batch |-> q.batch_ids[j]]
  BY FlightParts
<1>3. FlightIn(p) = [m \in DOMAIN FlightIn(p) |-> FlightIn(p)[m]]
  BY DEF FlightIn
<1>4. ASSUME NEW m \in T
      PROVE  FlightIn(p)[m] = FlightIn(q)[m]
  <2>1. PICK i \in Live(p) \ Unsent(p) : m = p.msgs[i]
    BY ONLY <1>1, m \in T
  <2>2. PICK j \in Live(q) \ Unsent(q) :
          p.msgs[i] = q.msgs[j] /\ p.msg_ids[i] = q.msg_ids[j] /\ p.batch_ids[i] = q.batch_ids[j]
    OBVIOUS
  <2>3. FlightIn(p)[p.msgs[i]] = [id |-> p.msg_ids[i], batch |-> p.batch_ids[i]]
    BY ONLY <1>1, i \in Live(p) \ Unsent(p)
  <2>4. FlightIn(q)[q.msgs[j]] = [id |-> q.msg_ids[j], batch |-> q.batch_ids[j]]
    BY ONLY <1>2, j \in Live(q) \ Unsent(q)
  <2> QED BY ONLY <2>1, <2>2, <2>3, <2>4
<1> HIDE DEF FlightIn
<1> QED BY <1>1, <1>3, <1>4

\* FindByMsgId finds the oldest message with the id.
LEMMA FindsOldest ==
  ASSUME Inv, NEW id, FindByMsgId(queue, id) # -1, NEW j \in Live(queue), queue.msg_ids[j] = id
  PROVE  queue.msgs[FindByMsgId(queue, id)] <= queue.msgs[j]
<1> DEFINE at == FindByMsgId(queue, id)
           hits == {i \in Live(queue) : queue.msg_ids[i] = id}
<1>1. IsQueue(queue, Nat, Nat) /\ Live(queue) \subseteq Nat
  BY LiveSlots DEF Inv, Typed
<1>2. hits \in SUBSET Nat /\ j \in hits
  BY <1>1
<1>3. \E i \in hits : \A k \in hits : i <= k
  BY <1>2, SmallestSlot
<1>4. at \in hits /\ \A k \in hits : at <= k
  BY <1>2, <1>3 DEF FindByMsgId
<1> HIDE DEF at
<1>5. at <= j /\ at \in Live(queue) /\ at \in Nat /\ j \in Nat
  BY <1>1, <1>2, <1>4
<1>6. queue.msgs[at] \in Nat /\ queue.msgs[j] \in Nat
  BY <1>5 DEF Inv, Aligned, Typed
<1> QED BY <1>5, <1>6 DEF Inv, InOrder, at

\* The mapping of Mail, in these terms.
Waiting == WaitingIn(queue)
Flight == FlightIn(queue)

LEMMA PushMails ==
  ASSUME Inv, Inv', PushMsg, NEW m, m = pushed + 1
  PROVE  Mail!Queue(m)
<1>1. /\ queue'.msgs[queue.count] = m /\ Live(queue') = Live(queue) \cup {queue.count}
      /\ pushed \in Nat
      /\ \A i \in Live(queue) : /\ queue'.msgs[i] = queue.msgs[i]
                               /\ queue'.msg_ids[i] = queue.msg_ids[i]
                               /\ queue'.batch_ids[i] = queue.batch_ids[i]
  BY PushMsgSlots
<1>2. /\ Live(queue') \ Unsent(queue') = Live(queue) \ Unsent(queue)
      /\ Unsent(queue') = Unsent(queue) \cup {queue.count}
      /\ Unsent(queue) \subseteq Live(queue)
  BY PushFlight DEF InFlight, Unsent
<1>3. Waiting' = Waiting \cup {m}
  BY <1>1, <1>2 DEF Waiting, WaitingIn
<1>4. Distinct(queue) /\ Distinct(queue')
  BY InvDistinct
<1>5. Flight' = Flight
  <2>0. DOMAIN FlightIn(queue) = {queue.msgs[i] : i \in Live(queue) \ Unsent(queue)}
    BY DEF FlightIn
  <2>1. {queue'.msgs[i] : i \in Live(queue') \ Unsent(queue')} = DOMAIN FlightIn(queue)
    BY <1>1, <1>2, <2>0
  <2>2. FlightIn(queue') = [n \in DOMAIN FlightIn(queue) |-> FlightIn(queue)[n]]
    <3>1. \A i \in Live(queue') \ Unsent(queue') : \E j \in Live(queue) \ Unsent(queue) :
            /\ queue'.msgs[i] = queue.msgs[j] /\ queue'.msg_ids[i] = queue.msg_ids[j]
            /\ queue'.batch_ids[i] = queue.batch_ids[j]
      BY <1>1, <1>2
    <3> QED BY ONLY <1>4, <2>1, <3>1, FlightFrom
  <2>3. FlightIn(queue) = [n \in DOMAIN FlightIn(queue) |-> FlightIn(queue)[n]]
    BY DEF FlightIn
  <2> QED BY <2>2, <2>3 DEF Flight
<1>6. \A n \in Waiting \cup DOMAIN Flight : n < m
  BY <1>1, <1>2 DEF Inv, Aligned, Waiting, Flight, WaitingIn, FlightIn
<1>7. UNCHANGED handled
  BY DEF PushMsg
<1> QED
  BY <1>3, <1>5, <1>6, <1>7
  DEF Mail!Queue, Mail!Held, Waiting, Flight, WaitingIn, FlightIn, InFlight, Slot

LEMMA SendMails ==
  ASSUME Inv, Inv', NEW S \in SUBSET Unsent(queue), Sends(S),
         NEW M, M = {queue.msgs[i] : i \in S}
  PROVE  M \in SUBSET Waiting /\ Mail!Send(M)
<1>1. /\ queue'.msgs = queue.msgs /\ Live(queue') = Live(queue)
      /\ Unsent(queue') = Unsent(queue) \ S /\ Unsent(queue) \subseteq Live(queue)
  BY SendSlots, SendFlight DEF Unsent
<1>2. /\ \A i \in S : queue'.batch_ids[i] = batch_id
      /\ \A i \in Live(queue) \ S : /\ queue'.msg_ids[i] = queue.msg_ids[i]
                                   /\ queue'.batch_ids[i] = queue.batch_ids[i]
  BY SendSlots
<1>3. Distinct(queue) /\ Distinct(queue')
  BY InvDistinct
<1>4. Live(queue') \ Unsent(queue') = (Live(queue) \ Unsent(queue)) \cup S
  BY <1>1
<1>5. M \in SUBSET Waiting
  BY DEF Waiting, WaitingIn
<1>6. Waiting' = Waiting \ M
  BY <1>1, <1>3 DEF Waiting, WaitingIn, Distinct
<1>7. /\ DOMAIN Flight = {queue.msgs[i] : i \in Live(queue) \ Unsent(queue)}
      /\ \A i \in Live(queue) \ Unsent(queue) :
           Flight[queue.msgs[i]] = [id |-> queue.msg_ids[i], batch |-> queue.batch_ids[i]]
  BY <1>3, FlightParts DEF Flight
<1>8. /\ DOMAIN Flight' = {queue'.msgs[i] : i \in Live(queue') \ Unsent(queue')}
      /\ \A i \in Live(queue') \ Unsent(queue') :
           Flight'[queue'.msgs[i]] = [id |-> queue'.msg_ids[i], batch |-> queue'.batch_ids[i]]
  BY <1>3, FlightParts DEF Flight
<1>9. DOMAIN Flight' = DOMAIN Flight \cup M
  BY <1>1, <1>4, <1>7, <1>8
<1>10. \A m \in DOMAIN Flight : Flight'[m] = Flight[m]
  <2> SUFFICES ASSUME NEW i \in Live(queue) \ Unsent(queue)
               PROVE  Flight'[queue.msgs[i]] = Flight[queue.msgs[i]]
    BY <1>7
  <2>1. i \in Live(queue') \ Unsent(queue') /\ i \in Live(queue) \ S
    BY <1>1, <1>4
  <2>2. Flight'[queue'.msgs[i]] = [id |-> queue'.msg_ids[i], batch |-> queue'.batch_ids[i]]
    BY <1>8, <2>1
  <2>3. Flight[queue.msgs[i]] = [id |-> queue.msg_ids[i], batch |-> queue.batch_ids[i]]
    BY <1>7
  <2>4. queue'.msg_ids[i] = queue.msg_ids[i] /\ queue'.batch_ids[i] = queue.batch_ids[i]
    BY <1>2, <2>1
  <2> QED BY ONLY <1>1, <2>2, <2>3, <2>4
<1>11. \A m \in M : Flight'[m].batch = batch_id
  <2> SUFFICES ASSUME NEW i \in S
               PROVE  Flight'[queue.msgs[i]].batch = batch_id
    OBVIOUS
  <2>1. Flight'[queue'.msgs[i]] = [id |-> queue'.msg_ids[i], batch |-> queue'.batch_ids[i]]
    BY <1>4, <1>8
  <2>2. queue'.batch_ids[i] = batch_id
    BY <1>2
  <2> QED BY ONLY <1>1, <2>1, <2>2
<1>12. UNCHANGED handled
  BY DEF Sends
<1>13. Mail!Send(M)
  <2>1. \A m, n \in M : Flight'[m].batch = Flight'[n].batch
    BY <1>11
  <2>2. M \subseteq Waiting
    BY <1>5
  <2> QED
    BY ONLY <1>6, <1>9, <1>10, <1>12, <2>1, <2>2
    DEF Mail!Send, Waiting, Flight, WaitingIn, FlightIn, InFlight, Slot
<1> QED BY <1>5, <1>13

LEMMA RecvMails ==
  ASSUME Inv, Inv', NEW id, id # MSG_ID_INVALID, Recv(id),
         NEW m, m = queue.msgs[FindByMsgId(queue, id)]
  PROVE  m \in DOMAIN Flight /\ Mail!Answer(m)
<1> DEFINE at == FindByMsgId(queue, id)
           from(i) == IF at <= i THEN i + 1 ELSE i
           to(j) == IF at < j THEN j - 1 ELSE j
<1>0. m = queue.msgs[at]
  OBVIOUS
<1>1. /\ at \in InFlight
      /\ \A i \in InFlight' : from(i) \in InFlight \ {at}
      /\ \A j \in InFlight \ {at} : to(j) \in InFlight' /\ from(to(j)) = j
      /\ \A i \in Unsent(queue') : from(i) \in Unsent(queue)
      /\ \A j \in Unsent(queue) : to(j) \in Unsent(queue') /\ from(to(j)) = j
  BY RecvFlight DEF InFlight
<1>2. \A i \in Live(queue') :
        /\ queue'.msgs[i] = queue.msgs[from(i)] /\ queue'.msg_ids[i] = queue.msg_ids[from(i)]
        /\ queue'.batch_ids[i] = queue.batch_ids[from(i)]
  BY RecvSlots
<1>3. Distinct(queue) /\ Distinct(queue')
  BY InvDistinct
<1>4. at # -1 /\ handled' = queue.funcs[at] /\ queue.msg_ids[at] = id
  BY RecvSlots DEF Recv
<1>5. \A j \in Live(queue) : queue.msg_ids[j] = id => m <= queue.msgs[j]
  BY <1>0, <1>4, FindsOldest
<1> HIDE DEF at, from, to
<1>6. InFlight \subseteq Live(queue) /\ Unsent(queue') \subseteq Live(queue')
  BY DEF InFlight, Unsent
<1>7. InFlight' = Live(queue') \ Unsent(queue') /\ InFlight = Live(queue) \ Unsent(queue)
  BY DEF InFlight
<1>8. handled' = m
  BY <1>0, <1>1, <1>4, <1>6 DEF Inv, Aligned
<1>9. Waiting' = Waiting
  <2>1. \A i \in Unsent(queue') : queue'.msgs[i] \in Waiting
    BY <1>1, <1>2, <1>6 DEF Waiting, WaitingIn
  <2>2. \A j \in Unsent(queue) : \E i \in Unsent(queue') : queue.msgs[j] = queue'.msgs[i]
    BY <1>1, <1>2, <1>6
  <2> QED BY <2>1, <2>2 DEF Waiting, WaitingIn
<1>10. /\ DOMAIN Flight = {queue.msgs[i] : i \in InFlight}
       /\ \A i \in InFlight :
            Flight[queue.msgs[i]] = [id |-> queue.msg_ids[i], batch |-> queue.batch_ids[i]]
  BY <1>3, <1>7, FlightParts DEF Flight
<1>11. \A i \in InFlight' : \E j \in InFlight :
         /\ queue'.msgs[i] = queue.msgs[j] /\ queue'.msg_ids[i] = queue.msg_ids[j]
         /\ queue'.batch_ids[i] = queue.batch_ids[j]
  BY <1>1, <1>2, <1>7
<1>12. {queue'.msgs[i] : i \in InFlight'} = DOMAIN Flight \ {m}
  <2>1. \A i \in InFlight' : queue'.msgs[i] \in DOMAIN Flight \ {m}
    <3> SUFFICES ASSUME NEW i \in InFlight'
                 PROVE  queue'.msgs[i] \in DOMAIN Flight \ {m}
      OBVIOUS
    <3>1. from(i) \in InFlight /\ from(i) # at /\ queue'.msgs[i] = queue.msgs[from(i)]
      BY <1>1, <1>2, <1>7
    <3> QED BY <1>0, <1>1, <1>3, <1>6, <1>10, <3>1 DEF Distinct
  <2>2. \A j \in InFlight : queue.msgs[j] # m => \E i \in InFlight' : queue'.msgs[i] = queue.msgs[j]
    BY <1>0, <1>1, <1>2, <1>7
  <2> QED BY <1>10, <2>1, <2>2
<1>13. Flight' = [n \in DOMAIN Flight \ {m} |-> Flight[n]]
  <2>1. FlightIn(queue') = [n \in DOMAIN Flight \ {m} |-> FlightIn(queue)[n]]
    <3> DEFINE T == DOMAIN Flight \ {m}
    <3>1. {queue'.msgs[i] : i \in Live(queue') \ Unsent(queue')} = T
      BY <1>7, <1>11, <1>12
    <3>2. \A i \in Live(queue') \ Unsent(queue') : \E j \in Live(queue) \ Unsent(queue) :
            /\ queue'.msgs[i] = queue.msgs[j] /\ queue'.msg_ids[i] = queue.msg_ids[j]
            /\ queue'.batch_ids[i] = queue.batch_ids[j]
      BY <1>7, <1>11, <1>12
    <3> HIDE DEF T
    <3>3. FlightIn(queue') = [n \in T |-> FlightIn(queue)[n]]
      BY ONLY <1>3, <3>1, <3>2, FlightFrom
    <3> QED BY <3>3 DEF T
  <2> QED BY <2>1 DEF Flight
<1>14. m \in DOMAIN Flight
  BY <1>0, <1>1, <1>10
<1>15. \A n \in DOMAIN Flight : Flight[n].id = Flight[m].id => m <= n
  <2> SUFFICES ASSUME NEW j \in InFlight, Flight[queue.msgs[j]].id = Flight[m].id
               PROVE  m <= queue.msgs[j]
    BY <1>10
  <2>1. Flight[m] = [id |-> id, batch |-> queue.batch_ids[at]]
    BY <1>0, <1>1, <1>4, <1>10
  <2>2. Flight[queue.msgs[j]] = [id |-> queue.msg_ids[j], batch |-> queue.batch_ids[j]]
    BY <1>10
  <2>3. queue.msg_ids[j] = id
    BY ONLY <2>1, <2>2, Flight[queue.msgs[j]].id = Flight[m].id
  <2> QED BY <1>5, <1>6, <2>3
<1>16. Mail!Answer(m)
  BY <1>8, <1>9, <1>13, <1>14, <1>15
  DEF Mail!Answer, Waiting, Flight, WaitingIn, FlightIn, InFlight, Slot
<1> QED BY <1>14, <1>16

\* A reply with the invalid id takes the oldest message that waits away.
LEMMA RecvUnsentMails ==
  ASSUME Inv, Inv', StrayIds, Recv(MSG_ID_INVALID),
         NEW m, m = queue.msgs[FindByMsgId(queue, MSG_ID_INVALID)]
  PROVE  m \in Waiting /\ Mail!AnswerUnsent(m)
<1> DEFINE at == FindByMsgId(queue, MSG_ID_INVALID)
           from(i) == IF at <= i THEN i + 1 ELSE i
           to(j) == IF at < j THEN j - 1 ELSE j
<1>1. /\ at \in Unsent(queue)
      /\ \A i \in InFlight' : from(i) \in InFlight
      /\ \A j \in InFlight : to(j) \in InFlight' /\ from(to(j)) = j
      /\ \A i \in Unsent(queue') : from(i) \in Unsent(queue) \ {at}
      /\ \A j \in Unsent(queue) \ {at} : to(j) \in Unsent(queue') /\ from(to(j)) = j
  BY RecvFlight DEF InFlight
<1>2. \A i \in Live(queue') :
        /\ queue'.msgs[i] = queue.msgs[from(i)] /\ queue'.msg_ids[i] = queue.msg_ids[from(i)]
        /\ queue'.batch_ids[i] = queue.batch_ids[from(i)]
  BY RecvSlots
<1>3. Distinct(queue) /\ Distinct(queue') /\ m = queue.msgs[at]
  BY InvDistinct
<1>4. at # -1 /\ handled' = queue.funcs[at]
  BY RecvSlots DEF Recv
<1>5. \A j \in Unsent(queue) : m <= queue.msgs[j]
  BY <1>4, FindsOldest DEF Unsent
<1> HIDE DEF at, from, to
<1>6. /\ Unsent(queue) \subseteq Live(queue) /\ Unsent(queue') \subseteq Live(queue')
      /\ InFlight' = Live(queue') \ Unsent(queue') /\ InFlight = Live(queue) \ Unsent(queue)
  BY DEF InFlight, Unsent
<1>7. handled' = m
  BY <1>1, <1>3, <1>4, <1>6 DEF Inv, Aligned
<1>8. Waiting' = Waiting \ {m}
  <2>1. ASSUME NEW i \in Unsent(queue')
        PROVE  queue'.msgs[i] \in Waiting \ {m}
    <3>1. from(i) \in Unsent(queue) /\ from(i) # at /\ queue'.msgs[i] = queue.msgs[from(i)]
      BY <1>1, <1>2, <1>6
    <3> QED BY <1>1, <1>3, <1>6, <3>1 DEF Distinct, Waiting, WaitingIn
  <2>2. \A j \in Unsent(queue) :
          queue.msgs[j] # m => \E i \in Unsent(queue') : queue.msgs[j] = queue'.msgs[i]
    BY <1>1, <1>2, <1>3, <1>6
  <2> QED BY <2>1, <2>2 DEF Waiting, WaitingIn
<1>9. \A i \in InFlight' : \E j \in InFlight :
        /\ queue'.msgs[i] = queue.msgs[j] /\ queue'.msg_ids[i] = queue.msg_ids[j]
        /\ queue'.batch_ids[i] = queue.batch_ids[j]
  BY <1>1, <1>2, <1>6
<1>10. {queue'.msgs[i] : i \in InFlight'} = {queue.msgs[i] : i \in InFlight}
  <2>1. \A j \in InFlight : \E i \in InFlight' : queue.msgs[j] = queue'.msgs[i]
    BY <1>1, <1>2, <1>6
  <2> QED BY <1>9, <2>1
<1>11. Flight' = Flight
  <2> DEFINE T == {queue.msgs[i] : i \in Live(queue) \ Unsent(queue)}
  <2>1. {queue'.msgs[i] : i \in Live(queue') \ Unsent(queue')} = T
    BY <1>6, <1>10
  <2>2. \A i \in Live(queue') \ Unsent(queue') : \E j \in Live(queue) \ Unsent(queue) :
          /\ queue'.msgs[i] = queue.msgs[j] /\ queue'.msg_ids[i] = queue.msg_ids[j]
          /\ queue'.batch_ids[i] = queue.batch_ids[j]
    BY <1>6, <1>9
  <2>3. FlightIn(queue) = [n \in T |-> FlightIn(queue)[n]]
    BY DEF FlightIn
  <2> HIDE DEF T
  <2>4. FlightIn(queue') = [n \in T |-> FlightIn(queue)[n]]
    BY ONLY <1>3, <2>1, <2>2, FlightFrom
  <2> QED BY <2>3, <2>4 DEF Flight
<1>12. m \in Waiting /\ \A n \in Waiting : m <= n
  BY <1>1, <1>3, <1>5 DEF Waiting, WaitingIn
<1> QED
  BY <1>7, <1>8, <1>11, <1>12
  DEF Mail!AnswerUnsent, Waiting, Flight, WaitingIn, FlightIn, InFlight, Slot

LEMMA SendErrMails ==
  ASSUME Inv, Inv', NEW i0 \in InFlight, OnBatchSendErr(queue.batch_ids[i0]),
         NEW m, m = queue.msgs[i0]
  PROVE  m \in DOMAIN Flight /\ Mail!Return(Flight[m].batch)
<1> DEFINE b == queue.batch_ids[i0]
           B == {i \in Live(queue) : queue.batch_ids[i] = b}
           M == {n \in DOMAIN Flight : Flight[n].batch = b}
<1>1. /\ B \subseteq InFlight
      /\ InFlight' = InFlight \ B /\ Unsent(queue') = Unsent(queue) \cup B
      /\ queue'.msgs = queue.msgs /\ Live(queue') = Live(queue)
      /\ \A i \in InFlight' : /\ queue'.msg_ids[i] = queue.msg_ids[i]
                            /\ queue'.batch_ids[i] = queue.batch_ids[i]
  BY FlightIds, SendErrFlight
<1>2. Distinct(queue) /\ Distinct(queue')
  BY InvDistinct
<1>3. InFlight' = Live(queue') \ Unsent(queue') /\ InFlight = Live(queue) \ Unsent(queue)
  BY DEF InFlight
<1>4. /\ DOMAIN Flight = {queue.msgs[i] : i \in InFlight}
      /\ \A i \in InFlight :
           Flight[queue.msgs[i]] = [id |-> queue.msg_ids[i], batch |-> queue.batch_ids[i]]
  BY <1>2, <1>3, FlightParts DEF Flight
<1>5. \A i \in InFlight : Flight[queue.msgs[i]].batch = queue.batch_ids[i]
  <2> SUFFICES ASSUME NEW i \in InFlight
               PROVE  Flight[queue.msgs[i]].batch = queue.batch_ids[i]
    OBVIOUS
  <2>1. Flight[queue.msgs[i]] = [id |-> queue.msg_ids[i], batch |-> queue.batch_ids[i]]
    BY <1>4
  <2> QED BY ONLY <2>1
<1>6. \A i \in InFlight : queue.msgs[i] \in M <=> i \in B
  <2> SUFFICES ASSUME NEW i \in InFlight
               PROVE  queue.msgs[i] \in M <=> i \in B
    OBVIOUS
  <2>1. queue.msgs[i] \in DOMAIN Flight /\ i \in Live(queue)
    BY <1>3, <1>4
  <2>2. Flight[queue.msgs[i]].batch = queue.batch_ids[i]
    BY <1>5
  <2> QED BY <2>1, <2>2
<1>7. M = {queue.msgs[i] : i \in B}
  BY <1>1, <1>4, <1>6
<1>8. m \in DOMAIN Flight /\ Flight[m].batch = b
  BY <1>4, <1>5
<1>9. Waiting' = Waiting \cup M
  BY <1>1, <1>7 DEF Waiting, WaitingIn
<1>10. {queue'.msgs[i] : i \in InFlight'} = DOMAIN Flight \ M
  BY <1>1, <1>4, <1>6
<1>11. \A i \in InFlight' : \E j \in InFlight :
         /\ queue'.msgs[i] = queue.msgs[j] /\ queue'.msg_ids[i] = queue.msg_ids[j]
         /\ queue'.batch_ids[i] = queue.batch_ids[j]
  BY <1>1
<1>12. Flight' = [n \in DOMAIN Flight \ M |-> Flight[n]]
  <2>1. FlightIn(queue') = [n \in DOMAIN Flight \ M |-> FlightIn(queue)[n]]
    <3> DEFINE T == DOMAIN Flight \ M
    <3>1. {queue'.msgs[i] : i \in Live(queue') \ Unsent(queue')} = T
      BY <1>3, <1>10, <1>11
    <3>2. \A i \in Live(queue') \ Unsent(queue') : \E j \in Live(queue) \ Unsent(queue) :
            /\ queue'.msgs[i] = queue.msgs[j] /\ queue'.msg_ids[i] = queue.msg_ids[j]
            /\ queue'.batch_ids[i] = queue.batch_ids[j]
      BY <1>3, <1>10, <1>11
    <3> HIDE DEF T
    <3>3. FlightIn(queue') = [n \in T |-> FlightIn(queue)[n]]
      BY ONLY <1>2, <3>1, <3>2, FlightFrom
    <3> QED BY <3>3 DEF T
  <2> QED BY <2>1 DEF Flight
<1>13. UNCHANGED handled
  BY DEF OnBatchSendErr
<1>14. Mail!Return(Flight[m].batch)
  <2>1. Waiting' = Waiting \cup {n \in DOMAIN Flight : Flight[n].batch = Flight[m].batch}
    BY <1>8, <1>9
  <2>2. Flight' = [n \in DOMAIN Flight \ {k \in DOMAIN Flight : Flight[k].batch = Flight[m].batch}
                     |-> Flight[n]]
    BY <1>8, <1>12
  <2> QED
    BY <1>13, <2>1, <2>2
    DEF Mail!Return, Waiting, Flight, WaitingIn, FlightIn, InFlight, Slot
<1> QED BY <1>8, <1>14

\* The parallel arrays keep the promise of Mailbox: what waits is sent in
\* batches and nothing twice, a reply is given to the handler of the oldest
\* message with its id and removes that message alone, be it one that waits and
\* has no id, and the messages of a batch that could not be sent wait again.
THEOREM QueueImplementsMailbox == Spec => MailSpec
<1>1. Init => Mail!Init
  <2> SUFFICES ASSUME Init PROVE Mail!Init
    OBVIOUS
  <2>1. Live(queue) = {} /\ Unsent(queue) = {} /\ InFlight = {}
    BY DEF Init, EmptyQueue, Live, Unsent, InFlight
  <2> QED BY <2>1 DEF Init, Mail!Init
<1>2. Inv /\ Inv' /\ [Next]_vars => [Mail!Next]_Mail!vars
  <2> SUFFICES ASSUME Inv, Inv', [Next]_vars PROVE [Mail!Next]_Mail!vars
    OBVIOUS
  <2> DEFINE F == [m \in {queue.msgs[i] : i \in InFlight} |->
                    [id |-> queue.msg_ids[Slot(m)], batch |-> queue.batch_ids[Slot(m)]]]
  <2>0. Waiting = {queue.msgs[i] : i \in Unsent(queue)} /\ Flight = F
    BY DEF Waiting, Flight, WaitingIn, FlightIn, InFlight, Slot
  <2>1. CASE PushMsg
    <3>1. PICK m : m = pushed + 1
      OBVIOUS
    <3>2. m \in 1 .. MaxPushed
      BY <2>1, <3>1, OutboxAssumption DEF PushMsg, Inv, Typed
    <3>3. Mail!Queue(m)
      BY <2>1, <3>1, PushMails
    <3> QED BY <3>2, <3>3 DEF Mail!Next
  <2>2. ASSUME NEW S \in SUBSET Unsent(queue), Sends(S)
        PROVE  Mail!Next
    <3>1. PICK M : M = {queue.msgs[i] : i \in S}
      OBVIOUS
    <3>2. M \in SUBSET Waiting /\ Mail!Send(M)
      BY <2>2, <3>1, SendMails
    <3> QED BY <2>0, <3>2 DEF Mail!Next
  <2>3. ASSUME NEW i \in InFlight, Recv(queue.msg_ids[i])
        PROVE  Mail!Next
    <3>1. PICK m : m = queue.msgs[FindByMsgId(queue, queue.msg_ids[i])]
      OBVIOUS
    <3>2. m \in DOMAIN Flight /\ Mail!Answer(m)
      BY <2>3, <3>1, FlightIds, RecvMails
    <3> QED BY <2>0, <3>2 DEF Mail!Next
  <2>4. ASSUME NEW i \in InFlight, OnBatchSendErr(queue.batch_ids[i])
        PROVE  Mail!Next
    <3>1. PICK m : m = queue.msgs[i]
      OBVIOUS
    <3>2. m \in DOMAIN Flight /\ Mail!Return(Flight[m].batch)
      BY <2>4, <3>1, SendErrMails
    <3> QED BY <3>2 DEF Mail!Next, Flight, FlightIn, InFlight, Slot
  <2>8. CASE StrayIds /\ Recv(MSG_ID_INVALID)
    <3>1. PICK m : m = queue.msgs[FindByMsgId(queue, MSG_ID_INVALID)]
      OBVIOUS
    <3>2. m \in Waiting /\ Mail!AnswerUnsent(m)
      BY <2>8, <3>1, RecvUnsentMails
    <3> QED BY <2>0, <3>2 DEF Mail!Next
  <2>5. CASE UNCHANGED vars
    <3>1. Waiting' = Waiting /\ Flight' = Flight /\ handled' = handled
      BY <2>5 DEF vars, Waiting, Flight
    <3> QED
      BY <3>1 DEF Mail!vars, Waiting, Flight, WaitingIn, FlightIn, InFlight, Slot
  <2>6. ASSUME NEW i \in Live(queue), FlushOne(i)
        PROVE  Mail!Next
    BY <2>2, <2>6 DEF FlushOne
  <2>7. CASE Flush
    BY <2>2, <2>7 DEF Flush
  <2> QED BY <2>1, <2>3, <2>4, <2>5, <2>6, <2>7, <2>8 DEF Next, InFlight
<1> QED BY <1>1, <1>2, Invariance, PTL DEF Spec, MailSpec, Mail!Spec

-----------------------------------------------------------------------------
(* The text of a request *)

\* What the text consists of: brackets, commas and messages.
Open == "["
Comma == ","
Close == "]"
Tokens == Nat \cup {Open, Comma, Close}

\* The slot of S with k slots before it.
Nth(S, k) == CHOOSE i \in S : Rank(S, i) = k

\* The p-th token of the text with the messages of S, f[i] that of slot i.
Token(S, f, p) ==
  IF p = 1 THEN Open ELSE IF p % 2 = 0 THEN f[Nth(S, (p - 2) \div 2)] ELSE Comma

\* The length of the text with k messages, before it is closed.
Size(k) == IF k = 0 THEN 1 ELSE 2 * k

\* The text once the slots below n are written, without any recursion.
Line(S, f, n) == [p \in 1 .. Size(Rank(S, n)) |-> Token(S, f, p)]

\* The rank counts the slots of S that are passed.
LEMMA RankBelow ==
  ASSUME NEW S \in SUBSET Nat, IsFiniteSet(S), NEW n \in Nat
  PROVE  /\ Rank(S, n) \in Nat /\ Rank(S, n) <= Cardinality(S)
         /\ n \in S => Rank(S, n) < Cardinality(S)
         /\ Rank(S, n + 1) = IF n \in S THEN Rank(S, n) + 1 ELSE Rank(S, n)
         /\ Rank(S, 0) = 0
         /\ (\A i \in S : i < n) => Rank(S, n) = Cardinality(S)
<1> DEFINE B(m) == {j \in S : j < m}
<1>1. IsFiniteSet(B(n)) /\ Cardinality(B(n)) \in Nat /\ Cardinality(B(n)) <= Cardinality(S)
  <2>1. B(n) \in SUBSET S
    OBVIOUS
  <2> HIDE DEF B
  <2> QED BY <2>1, FS_Subset, FS_CardinalityType
<1>2. B(n + 1) = IF n \in S THEN B(n) \cup {n} ELSE B(n)
  <2>1. \A j \in S : j < n + 1 <=> j < n \/ j = n
    OBVIOUS
  <2> QED BY <2>1
<1>3. B(0) = {}
  <2>1. \A j \in S : ~ (j < 0)
    OBVIOUS
  <2> QED BY <2>1
<1>4. (\A i \in S : i < n) => B(n) = S
  OBVIOUS
<1>5. n \notin B(n)
  OBVIOUS
<1>6. \A m : Rank(S, m) = Cardinality(B(m))
  BY DEF Rank
<1> HIDE DEF B
<1>7. Cardinality(B(n) \cup {n}) = Cardinality(B(n)) + 1
  BY <1>1, <1>5, FS_AddElement
<1>8. n \in S => Rank(S, n) < Cardinality(S)
  BY RankType
<1> QED BY <1>1, <1>2, <1>3, <1>4, <1>6, <1>7, <1>8, FS_EmptySet

\* No two slots have the same rank.
LEMMA SameRank ==
  ASSUME NEW S \in SUBSET Nat, IsFiniteSet(S), NEW i \in S, NEW j \in S, Rank(S, i) = Rank(S, j)
  PROVE  i = j
<1>1. \A k \in S : Rank(S, k) \in Nat
  BY RankBelow
<1>2. CASE i < j
  BY <1>1, <1>2, RankMonotone
<1>3. CASE j < i
  BY <1>1, <1>3, RankMonotone
<1> QED BY <1>2, <1>3

\* Every rank is that of one slot.
LEMMA RanksFill ==
  ASSUME NEW S \in SUBSET Nat, IsFiniteSet(S)
  PROVE  /\ \A k \in 0 .. Cardinality(S) - 1 : Nth(S, k) \in S /\ Rank(S, Nth(S, k)) = k
         /\ \A i \in S : Nth(S, Rank(S, i)) = i
<1> DEFINE T == 0 .. Cardinality(S) - 1
           f == [i \in S |-> Rank(S, i)]
<1>1. Cardinality(S) \in Nat
  BY FS_CardinalityType
<1>2. \A i \in S : Rank(S, i) \in T
  BY <1>1, RankBelow
<1>3. f \in Injection(S, T)
  BY <1>2, SameRank DEF Injection, IsInjective
<1>4. IsFiniteSet(T) /\ Cardinality(T) = Cardinality(S)
  <2>1. 0 \in Int /\ Cardinality(S) - 1 \in Int
    BY <1>1
  <2> QED BY <1>1, <2>1, FS_Interval
<1>5. f \in Surjection(S, T)
  <2> HIDE DEF f, T
  <2> QED BY <1>3, <1>4, FS_Injection
<1>6. \A k \in T : \E i \in S : Rank(S, i) = k
  BY <1>5 DEF Surjection
<1>7. \A k \in T : Nth(S, k) \in S /\ Rank(S, Nth(S, k)) = k
  BY <1>6 DEF Nth
<1>8. ASSUME NEW i \in S
      PROVE  Nth(S, Rank(S, i)) = i
  <2>1. \A a, b \in S : Rank(S, a) = Rank(S, b) => a = b
    BY SameRank
  <2>2. PICK k \in T : k = Rank(S, i)
    BY <1>2
  <2>3. Nth(S, k) \in S /\ Rank(S, Nth(S, k)) = k
    BY <1>7
  <2> QED BY <2>1, <2>2, <2>3
<1> QED BY <1>7, <1>8

LEMMA LineType ==
  ASSUME NEW S \in SUBSET Nat, IsFiniteSet(S), NEW f, \A i \in S : f[i] \in Nat, NEW n \in Nat
  PROVE  /\ Line(S, f, n) \in Seq(Tokens)
         /\ Len(Line(S, f, n)) = Size(Rank(S, n))
         /\ \A p \in 1 .. Size(Rank(S, n)) : Line(S, f, n)[p] = Token(S, f, p)
<1>1. Rank(S, n) \in Nat /\ Rank(S, n) <= Cardinality(S) /\ Cardinality(S) \in Nat
  BY RankBelow, FS_CardinalityType
<1>2. Size(Rank(S, n)) \in Nat
  BY <1>1 DEF Size
<1>3. ASSUME NEW p \in 1 .. Size(Rank(S, n))
      PROVE  Token(S, f, p) \in Tokens
  <2>1. CASE p = 1 \/ p % 2 # 0
    BY <2>1 DEF Token, Tokens
  <2>2. CASE p # 1 /\ p % 2 = 0
    <3> DEFINE k == (p - 2) \div 2
    <3>1. k \in 0 .. Cardinality(S) - 1
      BY <1>1, <1>3, <2>2 DEF Size
    <3> HIDE DEF k
    <3>2. Nth(S, k) \in S
      BY <3>1, RanksFill
    <3> QED BY <2>2, <3>2 DEF Token, Tokens, k
  <2> QED BY <2>1, <2>2
<1>4. Line(S, f, n) = [p \in 1 .. Size(Rank(S, n)) |-> Token(S, f, p)]
  BY DEF Line
<1>5. Line(S, f, n) \in Seq(Tokens)
  BY <1>2, <1>3, <1>4, IsASeq
<1>6. DOMAIN Line(S, f, n) = 1 .. Size(Rank(S, n))
  BY <1>4
<1>7. Len(Line(S, f, n)) = Size(Rank(S, n))
  BY <1>2, <1>5, <1>6, LenProperties
<1> QED BY <1>4, <1>5, <1>7

\* The text next is line, which has k messages, followed by the message m.
Longer(Tok, line, next, m, k) ==
  /\ Comma \in Tok /\ line \in Seq(Tok) /\ next \in Seq(Tok) /\ m \in Tok /\ k \in Nat
  /\ Len(line) = Size(k) /\ Len(next) = Size(k + 1)
  /\ \A p \in 1 .. Size(k) : next[p] = line[p]
  /\ next[2 * k + 2] = m
  /\ k # 0 => next[2 * k + 1] = Comma

LEMMA MessageAdded ==
  ASSUME NEW Tok, NEW line, NEW next, NEW m, NEW k, Longer(Tok, line, next, m, k)
  PROVE  next = WithMessage(line, m)
<1> USE DEF Longer
<1>1. line \in Seq(Tok) /\ m \in Tok
  OBVIOUS
<1>2. Len(next) = 2 * k + 2
  BY DEF Size
<1>3. CASE k = 0
  <2>1. Len(line) = 1
    BY <1>3 DEF Size
  <2>2. WithMessage(line, m) = Append(line, m)
    <3>1. ~ (Len(line) > 1)
      BY <2>1
    <3> QED BY <3>1, Zenon DEF WithMessage
  <2>3. PICK s : s = Append(line, m)
    OBVIOUS
  <2>4. /\ s \in Seq(Tok) /\ Len(s) = 2
        /\ s[1] = line[1] /\ s[2] = m
    <3>1. /\ s \in Seq(Tok) /\ Len(s) = Len(line) + 1
          /\ \A p \in 1 .. Len(line) : s[p] = line[p]
          /\ s[Len(line) + 1] = m
      <4>1. /\ Append(line, m) \in Seq(Tok)
            /\ Len(Append(line, m)) = Len(line) + 1
        BY ONLY <1>1, AppendProperties, Zenon
      <4>2. \A p \in 1 .. Len(line) : Append(line, m)[p] = line[p]
        BY ONLY <1>1, AppendProperties, SMT
      <4>3. Append(line, m)[Len(line) + 1] = m
        BY ONLY <1>1, AppendProperties, Zenon
      <4> QED BY ONLY <2>3, <4>1, <4>2, <4>3, Zenon
    <3> QED BY <2>1, <3>1
  <2>5. Len(next) = 2 /\ next[1] = line[1] /\ next[2] = m
    BY <1>2, <1>3 DEF Size
  <2>6. \A p \in 1 .. Len(next) : next[p] = s[p]
    <3>1. \A p \in 1 .. 2 : p = 1 \/ p = 2
      OBVIOUS
    <3> QED BY ONLY <2>4, <2>5, <3>1
  <2>7. next = s
    BY <2>4, <2>5, <2>6, SeqEqual
  <2> QED BY <2>2, <2>3, <2>7
<1>4. CASE k # 0
  <2>1. Len(line) = 2 * k /\ Size(k) = 2 * k /\ 2 * k > 1
    BY <1>4 DEF Size
  <2>2. PICK t : t = <<Comma, m>>
    OBVIOUS
  <2>3. WithMessage(line, m) = line \o t
    <3>1. Len(line) > 1
      BY <2>1
    <3> QED BY <2>2, <3>1, Zenon DEF WithMessage, Comma
  <2>4. /\ t \in Seq(Tok) /\ Len(t) = 2
        /\ t[1] = Comma /\ t[2] = m
    BY <2>2
  <2>5. PICK s : s = line \o t
    OBVIOUS
  <2>6. /\ s \in Seq(Tok) /\ Len(s) = 2 * k + 2
        /\ \A p \in 1 .. 2 * k + 2 : s[p] = IF p <= 2 * k THEN line[p] ELSE t[p - 2 * k]
    <3>1. /\ s \in Seq(Tok) /\ Len(s) = Len(line) + Len(t)
          /\ \A p \in 1 .. Len(line) + Len(t) :
               s[p] = IF p <= Len(line) THEN line[p] ELSE t[p - Len(line)]
      BY <2>4, <2>5, ConcatProperties, Zenon
    <3> QED BY <2>1, <2>4, <3>1
  <2>7. ASSUME NEW p \in 1 .. 2 * k + 2
        PROVE  next[p] = s[p]
    <3>1. CASE p <= 2 * k
      BY <2>1, <2>6, <3>1
    <3>2. CASE p = 2 * k + 1
      BY <1>4, <2>4, <2>6, <3>2
    <3>3. CASE p = 2 * k + 2
      BY <2>4, <2>6, <3>3
    <3>4. p <= 2 * k \/ p = 2 * k + 1 \/ p = 2 * k + 2
      BY ONLY Longer(Tok, line, next, m, k), p \in 1 .. 2 * k + 2
    <3> QED BY ONLY <3>1, <3>2, <3>3, <3>4
  <2>8. next = s
    BY <1>2, <2>6, <2>7, SeqEqual
  <2> QED BY <2>3, <2>5, <2>8
<1> QED BY <1>3, <1>4

LEMMA TokenParts ==
  ASSUME NEW S \in SUBSET Nat, IsFiniteSet(S), NEW f, NEW k \in Nat
  PROVE  /\ Token(S, f, 2 * k + 2) = f[Nth(S, k)]
         /\ k # 0 => Token(S, f, 2 * k + 1) = Comma
<1>1. (2 * k + 2) % 2 = 0 /\ 2 * k + 2 # 1 /\ (2 * k + 2 - 2) \div 2 = k
  OBVIOUS
<1>2. (2 * k + 1) % 2 # 0 /\ (k # 0 => 2 * k + 1 # 1)
  OBVIOUS
<1> QED BY <1>1, <1>2 DEF Token

\* Going one slot further adds the message of that slot, if it is one of S.
LEMMA LineGrows ==
  ASSUME NEW S \in SUBSET Nat, IsFiniteSet(S), NEW f, \A i \in S : f[i] \in Nat, NEW n \in Nat
  PROVE  Line(S, f, n + 1) =
           IF n \in S THEN WithMessage(Line(S, f, n), f[n]) ELSE Line(S, f, n)
<1>1. PICK k \in Nat : k = Rank(S, n) /\ Rank(S, n + 1) = IF n \in S THEN k + 1 ELSE k
  BY RankBelow
<1>2. CASE n \notin S
  BY <1>1, <1>2 DEF Line
<1>3. CASE n \in S
  <2>1. PICK line : /\ line = Line(S, f, n) /\ line \in Seq(Tokens) /\ Len(line) = Size(k)
                    /\ \A p \in 1 .. Size(k) : line[p] = Token(S, f, p)
    BY <1>1, LineType
  <2>2. PICK next : /\ next = Line(S, f, n + 1) /\ next \in Seq(Tokens)
                    /\ Len(next) = Size(k + 1)
                    /\ \A p \in 1 .. Size(k + 1) : next[p] = Token(S, f, p)
    <3>1. n + 1 \in Nat /\ Rank(S, n + 1) = k + 1
      BY <1>1, <1>3
    <3> QED BY <3>1, LineType
  <2>3. f[n] \in Tokens /\ Comma \in Tokens
    BY <1>3 DEF Tokens
  <2>4. \A p \in 1 .. Size(k) : next[p] = line[p]
    <3>1. \A p \in 1 .. Size(k) : p \in 1 .. Size(k + 1)
      BY DEF Size
    <3> QED BY <2>1, <2>2, <3>1
  <2>5. next[2 * k + 2] = f[n] /\ (k # 0 => next[2 * k + 1] = Comma)
    <3>1. 2 * k + 2 \in 1 .. Size(k + 1) /\ 2 * k + 1 \in 1 .. Size(k + 1)
      BY DEF Size
    <3>2. Nth(S, k) = n
      BY <1>1, <1>3, RanksFill
    <3> QED BY <2>2, <3>1, <3>2, TokenParts
  <2>6. next = WithMessage(line, f[n])
    <3>1. Longer(Tokens, line, next, f[n], k)
      BY ONLY <2>1, <2>2, <2>3, <2>4, <2>5, k \in Nat DEF Longer
    <3> QED BY ONLY <3>1, MessageAdded
  <2> QED BY <1>3, <2>1, <2>2, <2>6
<1> QED BY <1>2, <1>3

LEMMA LineStarts ==
  ASSUME NEW S \in SUBSET Nat, IsFiniteSet(S), NEW f
  PROVE  Line(S, f, 0) = <<Open>>
<1>1. Rank(S, 0) = 0
  BY RankBelow
<1> QED BY <1>1 DEF Line, Size, Token

\* The loop of msg_queue_flush computes that text: Line solves the equation of
\* the recursive function, and the least slot at which another solution differs
\* from it does not exist.
LEMMA TextIsLine ==
  ASSUME queue.count \in Nat, NEW S \in SUBSET Nat, IsFiniteSet(S),
         \A i \in S : i < queue.count /\ queue.msgs[i] \in Nat
  PROVE  Text(S) = Append(Line(S, queue.msgs, queue.count), Close)
<1> DEFINE D == 0 .. queue.count
           F(t, n) == IF n = 0 THEN <<Open>>
                      ELSE IF n - 1 \in S THEN WithMessage(t[n - 1], queue.msgs[n - 1])
                      ELSE t[n - 1]
           line == [n \in D |-> Line(S, queue.msgs, n)]
           text == CHOOSE t : t = [n \in D |-> F(t, n)]
<1>1. Text(S) = Append(text[queue.count], Close)
  BY DEF Text, Open, Close
<1>2. line = [n \in D |-> F(line, n)]
  <2> SUFFICES ASSUME NEW n \in D
               PROVE  line[n] = F(line, n)
    OBVIOUS
  <2>1. CASE n = 0
    BY <2>1, LineStarts
  <2>2. CASE n # 0
    <3>1. n - 1 \in Nat /\ n - 1 \in D /\ (n - 1) + 1 = n
      BY <2>2
    <3>2. Line(S, queue.msgs, (n - 1) + 1) =
            IF n - 1 \in S THEN WithMessage(Line(S, queue.msgs, n - 1), queue.msgs[n - 1])
            ELSE Line(S, queue.msgs, n - 1)
      BY <3>1, LineGrows
    <3> QED BY <2>2, <3>1, <3>2
  <2> QED BY <2>1, <2>2
<1>3. text = [n \in D |-> F(text, n)]
  <2> HIDE DEF line, F, D
  <2> QED BY <1>2
<1> HIDE DEF text
<1>4. \A n \in D : text[n] = line[n]
  <2>1. PICK T : T = {n \in D : text[n] # line[n]}
    OBVIOUS
  <2> SUFFICES ASSUME T # {}
               PROVE  FALSE
    BY <2>1
  <2>2. T \in SUBSET Nat
    BY <2>1
  <2>3. PICK n \in T : \A m \in T : n <= m
    BY <2>2, SmallestSlot
  <2>4. text[n] = F(text, n) /\ line[n] = F(line, n)
    BY <1>2, <1>3, <2>1
  <2>5. n # 0 => text[n - 1] = line[n - 1]
    <3> HIDE DEF line
    <3>1. ASSUME n # 0 PROVE n - 1 \in D /\ n - 1 \notin T
      BY <2>1, <2>3, <3>1
    <3> QED BY <2>1, <3>1
  <2> HIDE DEF line
  <2> QED BY <2>1, <2>3, <2>4, <2>5
<1>5. text[queue.count] = Line(S, queue.msgs, queue.count)
  <2> HIDE DEF F
  <2>1. queue.count \in D
    OBVIOUS
  <2> QED BY <1>4, <2>1
<1> QED BY <1>1, <1>5

LEMMA ImageSize ==
  ASSUME NEW B, IsFiniteSet(B), NEW f, \A i, j \in B : f[i] = f[j] => i = j
  PROVE  IsFiniteSet({f[i] : i \in B}) /\ Cardinality({f[i] : i \in B}) = Cardinality(B)
<1> DEFINE I == {f[i] : i \in B}
           g == [i \in B |-> f[i]]
<1>1. g \in Bijection(B, I)
  BY DEF Bijection, Injection, Surjection, IsInjective
<1>2. ExistsBijection(B, I)
  BY <1>1 DEF ExistsBijection
<1> HIDE DEF I
<1>3. IsFiniteSet(I) /\ Cardinality(I) = Cardinality(B)
  BY <1>2, FS_Bijection
<1> QED BY <1>3 DEF I

\* The message of the batch with k older ones in it.
Oldest(batch, k) == CHOOSE m \in batch : Cardinality({n \in batch : n < m}) = k

\* Slots are in order of age, so that the rank of a slot is that of its message.
LEMMA BatchByAge ==
  ASSUME NEW S \in SUBSET Nat, IsFiniteSet(S), NEW f,
         \A i \in S : f[i] \in Nat, \A i, j \in S : i < j => f[i] < f[j],
         NEW batch, \A m : m \in batch <=> \E i \in S : m = f[i]
  PROVE  /\ Cardinality(batch) = Cardinality(S)
         /\ \A k \in 0 .. Cardinality(S) - 1 :
              Oldest(batch, k) = f[Nth(S, k)]
<1>1. \A i, j \in S : /\ f[i] = f[j] => i = j
                      /\ f[i] < f[j] <=> i < j
  <2> SUFFICES ASSUME NEW i \in S, NEW j \in S
               PROVE  (f[i] = f[j] => i = j) /\ (f[i] < f[j] <=> i < j)
    OBVIOUS
  <2>1. i \in Nat /\ j \in Nat /\ f[i] \in Nat /\ f[j] \in Nat
    OBVIOUS
  <2>2. i < j \/ j < i \/ i = j
    BY ONLY <2>1
  <2>3. i < j => f[i] < f[j]
    OBVIOUS
  <2>4. j < i => f[j] < f[i]
    OBVIOUS
  <2> QED BY ONLY <2>1, <2>2, <2>3, <2>4
<1>2. Cardinality(batch) = Cardinality(S)
  <2>1. \A i, j \in S : f[i] = f[j] => i = j
    BY <1>1
  <2>2. Cardinality({f[i] : i \in S}) = Cardinality(S)
    BY ONLY <2>1, ImageSize, IsFiniteSet(S)
  <2>3. batch = {f[i] : i \in S}
    OBVIOUS
  <2> QED BY <2>2, <2>3
<1>3. ASSUME NEW i \in S
      PROVE  Cardinality({n \in batch : n < f[i]}) = Rank(S, i)
  <2> DEFINE B == {j \in S : j < i}
  <2>1. {n \in batch : n < f[i]} = {f[j] : j \in B}
    BY <1>1
  <2>2. IsFiniteSet(B) /\ \A a, b \in B : f[a] = f[b] => a = b
    BY <1>1, FS_Subset
  <2>3. Rank(S, i) = Cardinality(B)
    BY DEF Rank
  <2> HIDE DEF B
  <2>4. Cardinality({f[j] : j \in B}) = Cardinality(B)
    BY <2>2, ImageSize
  <2> QED BY <2>1, <2>3, <2>4
<1>4. ASSUME NEW k \in 0 .. Cardinality(S) - 1
      PROVE  Oldest(batch, k) = f[Nth(S, k)]
  <2>1. Nth(S, k) \in S /\ Rank(S, Nth(S, k)) = k
    BY RanksFill
  <2>2. \A a, b \in S : Rank(S, a) = Rank(S, b) => a = b
    BY SameRank
  <2>3. ASSUME NEW m \in batch
        PROVE  Cardinality({n \in batch : n < m}) = k <=> m = f[Nth(S, k)]
    <3>1. PICK i \in S : m = f[i]
      OBVIOUS
    <3>2. Cardinality({n \in batch : n < m}) = Rank(S, i)
      BY <1>3, <3>1
    <3>3. f[i] = f[Nth(S, k)] => i = Nth(S, k)
      BY <1>1, <2>1
    <3> QED BY ONLY <2>1, <2>2, <3>1, <3>2, <3>3
  <2>4. f[Nth(S, k)] \in batch
    BY <2>1
  <2> QED BY <2>3, <2>4 DEF Oldest
<1> QED BY <1>2, <1>4

\* What stands between the brackets.
Entries(S, f, c) ==
  [k \in 1 .. 2 * c - 1 |-> IF k % 2 = 1 THEN f[Nth(S, k \div 2)] ELSE Comma]

\* The whole text of a request, closing bracket included.
LEMMA LineWritten ==
  ASSUME NEW S \in SUBSET Nat, IsFiniteSet(S), S # {}, NEW f, \A i \in S : f[i] \in Nat,
         NEW n \in Nat, \A i \in S : i < n,
         NEW c, c = Cardinality(S),
         NEW e, e = Entries(S, f, c)
  PROVE  Append(Line(S, f, n), Close) = <<Open>> \o e \o <<Close>>
<1>1. c \in Nat /\ c # 0 /\ Rank(S, n) = c
  BY FS_CardinalityType, FS_EmptySet, RankBelow
<1>2. PICK line : /\ line = Line(S, f, n) /\ line \in Seq(Tokens) /\ Len(line) = 2 * c
                  /\ \A p \in 1 .. 2 * c : line[p] = Token(S, f, p)
  <2>1. Size(c) = 2 * c
    BY <1>1 DEF Size
  <2> QED BY <1>1, <2>1, LineType
<1>3. Open \in Tokens /\ Comma \in Tokens /\ Close \in Tokens /\ Nat \subseteq Tokens
  BY DEF Tokens
<1>4. \A k \in 1 .. 2 * c - 1 : k % 2 = 1 => k \div 2 \in 0 .. c - 1
  BY <1>1
<1>5. e = [k \in 1 .. 2 * c - 1 |-> IF k % 2 = 1 THEN f[Nth(S, k \div 2)] ELSE Comma]
  BY DEF Entries
<1>6. /\ e \in Seq(Tokens) /\ Len(e) = 2 * c - 1
      /\ \A k \in 1 .. 2 * c - 1 :
           e[k] = IF k % 2 = 1 THEN f[Nth(S, k \div 2)] ELSE Comma
  <2>1. ASSUME NEW k \in 1 .. 2 * c - 1
        PROVE  (IF k % 2 = 1 THEN f[Nth(S, k \div 2)] ELSE Comma) \in Tokens
    <3>1. k % 2 = 1 => Nth(S, k \div 2) \in S
      BY <1>4, RanksFill
    <3>2. k % 2 = 1 => f[Nth(S, k \div 2)] \in Tokens
      BY <1>3, <3>1
    <3> QED BY <1>3, <3>2
  <2>2. 2 * c - 1 \in Nat
    BY <1>1
  <2>3. e \in Seq(Tokens)
    BY <1>5, <2>1, <2>2, IsASeq
  <2>4. DOMAIN e = 1 .. 2 * c - 1 /\ DOMAIN e = 1 .. Len(e) /\ Len(e) \in Nat
    BY <1>5, <2>3, LenProperties
  <2> QED BY <1>5, <2>2, <2>3, <2>4
<1>7. PICK s : s = <<Open>>
  OBVIOUS
<1>8. s \in Seq(Tokens) /\ Len(s) = 1 /\ s[1] = Open
  BY <1>3, <1>7
<1>9. PICK t : t = s \o e
  OBVIOUS
<1>10. /\ t \in Seq(Tokens) /\ Len(t) = 2 * c
      /\ \A p \in 1 .. 2 * c : t[p] = IF p <= 1 THEN s[p] ELSE e[p - 1]
  <2>1. /\ t \in Seq(Tokens) /\ Len(t) = Len(s) + Len(e)
        /\ \A p \in 1 .. Len(s) + Len(e) : t[p] = IF p <= Len(s) THEN s[p] ELSE e[p - Len(s)]
    BY ONLY <1>6, <1>8, <1>9, ConcatProperties, Zenon
  <2> QED BY ONLY <1>1, <1>6, <1>8, <2>1
<1>11. ASSUME NEW p \in 1 .. 2 * c
       PROVE  line[p] = t[p]
  <2>1. CASE p = 1
    <3>1. 1 \in 1 .. 2 * c /\ 1 <= 1
      BY ONLY <2>1, p \in 1 .. 2 * c
    <3>2. line[1] = Open /\ t[1] = Open
      BY ONLY <1>2, <1>8, <1>10, <3>1 DEF Token
    <3> QED BY <2>1, <3>2
  <2>2. CASE p # 1 /\ p % 2 = 0
    <3>1. (p - 1) % 2 = 1 /\ (p - 1) \div 2 = (p - 2) \div 2 /\ p - 1 \in 1 .. 2 * c - 1 /\ ~ (p <= 1)
      BY ONLY <1>1, <2>2, p \in 1 .. 2 * c
    <3>2. t[p] = f[Nth(S, (p - 2) \div 2)]
      BY <1>6, <1>10, <3>1
    <3>3. line[p] = f[Nth(S, (p - 2) \div 2)]
      BY <1>2, <2>2 DEF Token
    <3> QED BY <3>2, <3>3
  <2>3. CASE p # 1 /\ p % 2 # 0
    <3>1. (p - 1) % 2 # 1 /\ p - 1 \in 1 .. 2 * c - 1 /\ ~ (p <= 1)
      BY ONLY <1>1, <2>3, p \in 1 .. 2 * c
    <3>2. t[p] = Comma
      BY <1>6, <1>10, <3>1
    <3>3. line[p] = Comma
      BY <1>2, <2>3 DEF Token
    <3> QED BY <3>2, <3>3
  <2> QED BY <2>1, <2>2, <2>3
<1>12. line = t
  BY <1>2, <1>10, <1>11, SeqEqual
<1>13. Append(line, Close) = line \o <<Close>>
  BY <1>2, <1>3, AppendIsConcat, Zenon
<1> QED BY ONLY <1>2, <1>7, <1>9, <1>12, <1>13

LEMMA SendWrites ==
  ASSUME Inv, NEW S \in SUBSET Unsent(queue), Sends(S)
  PROVE  BatchWritten
<1>1. /\ IsFiniteSet(S) /\ S \subseteq Live(queue) /\ queue'.msgs = queue.msgs
      /\ InFlight' = InFlight \cup S /\ InFlight \subseteq Live(queue) /\ InFlight \cap S = {}
  BY SendSlots, SendFlight DEF InFlight
<1>2. /\ S \in SUBSET Nat /\ queue.count \in Nat
      /\ \A i \in S : i < queue.count /\ queue.msgs[i] \in Nat
      /\ \A i, j \in S : i < j => queue.msgs[i] < queue.msgs[j]
  <2>1. IsQueue(queue, Nat, Nat)
    BY DEF Inv, Typed
  <2>2. Live(queue) \subseteq Nat /\ queue.count \in Nat
    BY <2>1, LiveSlots
  <2>3. \A i \in Live(queue) : i < queue.count /\ queue.msgs[i] \in Nat
    BY <2>2 DEF Inv, Typed, Aligned, Live
  <2> QED BY <1>1, <2>2, <2>3 DEF Inv, InOrder
<1>3. request' = Append(Line(S, queue.msgs, queue.count), Close)
  BY <1>1, <1>2, TextIsLine DEF Sends
<1> DEFINE batch == {queue'.msgs[i] : i \in InFlight'} \ {queue.msgs[i] : i \in InFlight}
           c == Cardinality(batch)
           e == [k \in 1 .. 2 * c - 1 |-> IF k % 2 = 1 THEN Oldest(batch, k \div 2) ELSE Comma]
<1>4. batch = {queue.msgs[i] : i \in S}
  BY <1>1, OneSlot
<1> HIDE DEF batch
<1>5. /\ c = Cardinality(S) /\ c \in Nat
      /\ \A k \in 0 .. c - 1 : Oldest(batch, k) = queue.msgs[Nth(S, k)]
  <2>1. PICK f : f = queue.msgs
    OBVIOUS
  <2>2. /\ S \in SUBSET Nat /\ IsFiniteSet(S) /\ \A i \in S : f[i] \in Nat
        /\ \A i, j \in S : i < j => f[i] < f[j]
        /\ \A m : m \in batch <=> \E i \in S : m = f[i]
    BY <1>1, <1>2, <1>4, <2>1
  <2>3. /\ Cardinality(batch) = Cardinality(S)
        /\ \A k \in 0 .. Cardinality(S) - 1 :
             Oldest(batch, k) = f[Nth(S, k)]
    BY ONLY <2>2, BatchByAge
  <2>4. Cardinality(S) \in Nat
    BY <1>1, FS_CardinalityType
  <2> QED BY <2>1, <2>3, <2>4
<1>6. e = Entries(S, queue.msgs, c)
  <2> HIDE DEF c
  <2>1. \A k \in 1 .. 2 * c - 1 : k % 2 = 1 => k \div 2 \in 0 .. c - 1
    BY <1>5
  <2> QED BY <1>5, <2>1 DEF Entries
<1>7. ASSUME batch # {}
      PROVE  request' = <<Open>> \o e \o <<Close>>
  <2>1. S # {}
    BY <1>4, <1>7
  <2> HIDE DEF e, c
  <2>2. PICK f, n : f = queue.msgs /\ n = queue.count
    OBVIOUS
  <2>3. /\ S \in SUBSET Nat /\ IsFiniteSet(S) /\ \A i \in S : f[i] \in Nat
        /\ n \in Nat /\ \A i \in S : i < n
    BY <1>1, <1>2, <2>2
  <2>4. /\ c = Cardinality(S)
        /\ e = Entries(S, f, c)
    BY <1>5, <1>6, <2>2
  <2>5. Append(Line(S, f, n), Close) = <<Open>> \o e \o <<Close>>
    BY ONLY <2>1, <2>3, <2>4, LineWritten
  <2> QED BY <1>3, <2>2, <2>5
<1> QED BY <1>7, Zenon DEF BatchWritten, batch, Oldest, Open, Comma, Close

\* At every step the request is the JSON array of the messages the step takes
\* into flight, oldest first, with a comma between two and none at the ends:
\* msg_queue_flush writes well-formed text from whichever slots are unsent.
THEOREM RequestsAreBatches == Spec => RequestIsBatch
<1>1. Inv /\ [Next]_vars => [BatchWritten]_vars
  <2> SUFFICES ASSUME Inv, Next
               PROVE  BatchWritten
    OBVIOUS
  <2>1. CASE Flush
    BY <2>1, SendWrites DEF Flush
  <2>2. ASSUME NEW i \in Live(queue), FlushOne(i)
        PROVE  BatchWritten
    BY <2>2, SendWrites DEF FlushOne
  <2>3. ASSUME {queue'.msgs[i] : i \in InFlight'} \subseteq {queue.msgs[i] : i \in InFlight}
        PROVE  BatchWritten
    BY <2>3, Zenon DEF BatchWritten
  <2>4. CASE PushMsg
    BY <2>3, <2>4, PushFlight, PushMsgSlots DEF InFlight
  <2>5. ASSUME NEW id, Recv(id)
        PROVE  BatchWritten
    <3> DEFINE at == FindByMsgId(queue, id)
               from(j) == IF at <= j THEN j + 1 ELSE j
    <3>1. \A j \in InFlight' : from(j) \in InFlight \ {at}
      BY <2>5, RecvFlight
    <3>2. \A j \in Live(queue') : queue'.msgs[j] = queue.msgs[from(j)]
      BY <2>5, RecvSlots
    <3>3. InFlight' \subseteq Live(queue')
      BY DEF InFlight
    <3> HIDE DEF at, from
    <3> QED BY <2>3, <3>1, <3>2, <3>3
  <2>6. ASSUME NEW i \in InFlight, OnBatchSendErr(queue.batch_ids[i])
        PROVE  BatchWritten
    BY <2>3, <2>6, FlightIds, SendErrFlight
  <2> QED BY <2>1, <2>2, <2>4, <2>5, <2>6 DEF Next, InFlight
<1> QED BY <1>1, Invariance, PTL DEF Spec, RequestIsBatch
=============================================================================
