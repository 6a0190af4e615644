------------------------------ MODULE EventBus ------------------------------
(***************************************************************************)
(* What an application is promised about events: a callback is called for  *)
(* every event on a channel it was subscribed to when the event came, in   *)
(* the order of the subscriptions and once for each of them.  A callback   *)
(* may subscribe more callbacks, for this channel or another; they are     *)
(* called from the next event on.  A callback that can be withdrawn and is *)
(* unsubscribed is not called again from the next event on.                *)
(***************************************************************************)
EXTENDS Sequences

CONSTANTS
  Names,         \* of channels
  Callbacks,
  Withdrawable,  \* those of Callbacks that unsubscribing takes back
  NULL           \* no callback, and none of Callbacks

VARIABLES
  subscribers,  \* of each channel, in order
  running,      \* the callback being called, or NULL
  pending       \* the callbacks to be called next for the same event

vars == <<subscribers, running, pending>>

Init ==
  /\ subscribers = [n \in Names |-> <<>>]
  /\ running = NULL
  /\ pending = <<>>

Subscribe(n, callback) ==
  /\ subscribers' = [subscribers EXCEPT ![n] = Append(@, callback)]
  /\ UNCHANGED <<running, pending>>

Unsubscribe(n, callback) ==
  /\ subscribers' = [subscribers EXCEPT ![n] = SelectSeq(@, LAMBDA f : f # callback)]
  /\ UNCHANGED <<running, pending>>

\* Calls the first callback of the list, if there is one.
Call(list) ==
  /\ running' = IF list = <<>> THEN NULL ELSE Head(list)
  /\ pending' = IF list = <<>> THEN <<>> ELSE Tail(list)
  /\ UNCHANGED subscribers

Event(n) == running = NULL /\ Call(subscribers[n])

Return == running # NULL /\ Call(pending)

Next ==
  \/ \E n \in Names :
       \/ Event(n)
       \/ \E callback \in Callbacks : Subscribe(n, callback)
       \/ \E callback \in Withdrawable : Unsubscribe(n, callback)
  \/ Return

Spec == Init /\ [][Next]_vars
=============================================================================
