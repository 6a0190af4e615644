------------------------------ MODULE Mailbox -------------------------------
(***************************************************************************)
(* What the client's outbox promises, without slots and arrays.  A message *)
(* waits, or is in flight under an id and in a batch, or has been answered *)
(* and forgotten.  Messages are numbered in the order they are queued.     *)
(***************************************************************************)
EXTENDS Naturals

CONSTANTS
  Messages,  \* numbers, from 1 on
  StrayIds   \* whether replies may carry the id that stands for "none yet"

VARIABLES
  waiting,   \* messages to be sent
  flight,    \* [id, batch] of each message in flight
  answered   \* the message whose handler was called last, 0 at first

vars == <<waiting, flight, answered>>

Init == waiting = {} /\ flight = [m \in {} |-> 0] /\ answered = 0

Held == waiting \cup DOMAIN flight

\* A new message is younger than all that are held.
Queue(m) ==
  /\ \A n \in Held : n < m
  /\ waiting' = waiting \cup {m}
  /\ UNCHANGED <<flight, answered>>

\* The messages of S go out in one batch.
Send(S) ==
  /\ S \subseteq waiting
  /\ waiting' = waiting \ S
  /\ DOMAIN flight' = DOMAIN flight \cup S
  /\ \A m \in DOMAIN flight : flight'[m] = flight[m]
  /\ \A m, n \in S : flight'[m].batch = flight'[n].batch
  /\ UNCHANGED answered

\* The reply to the message m, of those with its id the oldest.
Answer(m) ==
  /\ m \in DOMAIN flight
  /\ \A n \in DOMAIN flight : flight[n].id = flight[m].id => m <= n
  /\ flight' = [n \in DOMAIN flight \ {m} |-> flight[n]]
  /\ answered' = m
  /\ UNCHANGED waiting

\* A reply with the id that stands for "none yet" takes the oldest message that
\* waits away, as if it had been sent and answered.
AnswerUnsent(m) ==
  /\ StrayIds
  /\ m \in waiting /\ \A n \in waiting : m <= n
  /\ waiting' = waiting \ {m}
  /\ answered' = m
  /\ UNCHANGED flight

\* A batch could not be sent: its messages wait again.
Return(b) ==
  LET batch == {m \in DOMAIN flight : flight[m].batch = b}
  IN  /\ waiting' = waiting \cup batch
      /\ flight' = [m \in DOMAIN flight \ batch |-> flight[m]]
      /\ UNCHANGED answered

Next ==
  \/ \E m \in Messages : Queue(m)
  \/ \E S \in SUBSET waiting : Send(S)
  \/ \E m \in DOMAIN flight : Answer(m) \/ Return(flight[m].batch)
  \/ \E m \in waiting : AnswerUnsent(m)

Spec == Init /\ [][Next]_vars
=============================================================================
