------------------------------ MODULE Channels ------------------------------
(***************************************************************************)
(* The channel registry of src/src/bayeux.c and the delivery of events:    *)
(* channels_subscribe, which finds or creates a channel and appends to its *)
(* growing list, and channel_deliver, whose loops read the number of       *)
(* channels and subscriptions once and the pointers at every turn.         *)
(*                                                                         *)
(* A callback is application code: while one runs the application may      *)
(* subscribe and unsubscribe, also on the channel being delivered.  It     *)
(* cannot start another delivery, as only the event loop does.             *)
(*                                                                         *)
(* Lists are sequences, so index i of the code is element i + 1 here.      *)
(***************************************************************************)
EXTENDS Integers, Sequences

CONSTANTS
  Names,           \* of channels the application subscribes to
  Callbacks,       \* pairs of a callback and its context
  NULL,            \* no delivery under way
  ChannelGrowBy,   \* 64 in the code: growth of the full array of channels
  FirstCapacity,   \* 4 in the code: capacity of a new channel's list
  Alignment,       \* 16 in the code: a full list grows to a multiple of it
  MaxPerChannel    \* bound: subscriptions on a channel

\* Where the loops of channel_deliver can be.
Positions == [name : Names, chan_count : Nat, chan : Nat, sub : Nat, sub_count : Nat]

ASSUME ChannelsAssumption ==
  /\ NULL \notin Callbacks
  /\ NULL \notin Positions
  /\ ChannelGrowBy \in Nat \ {0}
  /\ FirstCapacity \in Nat \ {0}
  /\ Alignment \in Nat \ {0}
  /\ MaxPerChannel \in Nat

VARIABLES
  channels,          \* of [name, subscriptions, capacity]
  channel_capacity,
  at,                \* the callback being called: indices and counts of the loops
  asked              \* of each channel, the callbacks the application has asked
                     \* for and not taken back, in order (not in the code)

registry == <<channels, channel_capacity, at, asked>>

ChannelsInit ==
  /\ channels = <<>>
  /\ channel_capacity = 0
  /\ at = NULL
  /\ asked = [name \in Names |-> <<>>]

-----------------------------------------------------------------------------
\* Faulty: rounding down.
GrownDown(capacity) == capacity - (capacity % Alignment)

\* (capacity + 15) & ~15, the next multiple of the alignment: a capacity that
\* is one already stays.
GrownList(capacity) == (capacity + Alignment - 1) - ((capacity + Alignment - 1) % Alignment)

\* The positions of the channel's name: one or none.
Find(name) == {c \in DOMAIN channels : channels[c].name = name}

NewChannel(name) == [name |-> name, subscriptions |-> <<>>, capacity |-> FirstCapacity]

\* Faulty: growing after it was too late.
ChannelsGrownLate ==
  IF Len(channels) > channel_capacity THEN channel_capacity + ChannelGrowBy ELSE channel_capacity

ChannelsGrown ==
  IF Len(channels) = channel_capacity THEN channel_capacity + ChannelGrowBy ELSE channel_capacity

\* A channel with one more subscription, stored behind the others.
WithSubscription(channel, callback) ==
  [name          |-> channel.name,
   subscriptions |-> Append(channel.subscriptions, callback),
   capacity      |-> IF Len(channel.subscriptions) = channel.capacity
                     THEN GrownList(channel.capacity) ELSE channel.capacity]

\* channels_subscribe, from the event loop or from a callback.
Subscribe(name, callback) ==
  /\ \A c \in Find(name) : Len(channels[c].subscriptions) < MaxPerChannel
  /\ IF Find(name) = {}
     THEN /\ channel_capacity' = ChannelsGrown
          /\ channels' = Append(channels, WithSubscription(NewChannel(name), callback))
     ELSE /\ channels' = [c \in DOMAIN channels |->
                            IF c \in Find(name) THEN WithSubscription(channels[c], callback)
                            ELSE channels[c]]
          /\ UNCHANGED channel_capacity
  /\ asked' = [asked EXCEPT ![name] = Append(@, callback)]
  /\ UNCHANGED at

\* bayeux_client_unsubscribe sends a message and leaves the registry alone: the
\* callback stays.
Unsubscribe(name, callback) ==
  /\ asked' = [asked EXCEPT ![name] = SelectSeq(@, LAMBDA f : f # callback)]
  /\ UNCHANGED <<channels, channel_capacity, at>>

-----------------------------------------------------------------------------
(* channel_deliver *)

\* The outer loop, from channel first on: the next callback to call, or NULL
\* when there is none.  It starts on a channel by reading how many
\* subscriptions there are.
Walk(name, first, chan_count) ==
  LET stops == {c \in first .. chan_count : channels[c].name = name /\ channels[c].subscriptions # <<>>}
  IN  IF stops = {} THEN NULL
      ELSE LET c == CHOOSE c \in stops : \A d \in stops : c <= d
           IN  [name |-> name, chan_count |-> chan_count, chan |-> c,
                sub |-> 1, sub_count |-> Len(channels[c].subscriptions)]

\* An event comes for the channel.
Deliver(name) ==
  /\ at = NULL
  /\ at' = Walk(name, 1, Len(channels))
  /\ UNCHANGED <<channels, channel_capacity, asked>>

\* Faulty: reading the number of subscriptions again; skipping one.
CallbackReturnsRereads ==
  /\ at # NULL
  /\ at' = IF at.sub < Len(channels[at.chan].subscriptions)
           THEN [at EXCEPT !.sub = @ + 1, !.sub_count = Len(channels[at.chan].subscriptions)]
           ELSE Walk(at.name, at.chan + 1, at.chan_count)
  /\ UNCHANGED <<channels, channel_capacity, asked>>

\* The callback returns to the inner loop.
CallbackReturns ==
  /\ at # NULL
  /\ at' = IF at.sub < at.sub_count
           THEN [at EXCEPT !.sub = @ + 1]
           ELSE Walk(at.name, at.chan + 1, at.chan_count)
  /\ UNCHANGED <<channels, channel_capacity, asked>>

-----------------------------------------------------------------------------
ChannelsStep ==
  \/ \E name \in Names :
       \/ Deliver(name)
       \/ \E callback \in Callbacks : Subscribe(name, callback) \/ Unsubscribe(name, callback)
  \/ CallbackReturns

ChannelsSpec == ChannelsInit /\ [][ChannelsStep]_registry

-----------------------------------------------------------------------------
\* Nothing is stored behind the end of a list: neither of the array of
\* channels nor of the subscriptions of one, over all growths.
ListsFit ==
  /\ Len(channels) <= channel_capacity
  /\ \A c \in DOMAIN channels : Len(channels[c].subscriptions) <= channels[c].capacity

\* The callbacks of a channel in order.
Subscribers(name) ==
  IF Find(name) = {} THEN <<>>
  ELSE channels[CHOOSE c \in Find(name) : TRUE].subscriptions

Running == IF at = NULL THEN NULL ELSE channels[at.chan].subscriptions[at.sub]

\* What is left of the list the delivery has begun on.
Pending ==
  IF at = NULL THEN <<>>
  ELSE SubSeq(channels[at.chan].subscriptions, at.sub + 1, at.sub_count)

Bus == INSTANCE EventBus
         WITH subscribers <- [name \in Names |-> Subscribers(name)],
              running <- Running, pending <- Pending, Withdrawable <- {}

\* The registry is an EventBus from which nothing can be withdrawn: an event is
\* given to exactly those callbacks that were registered when it came, the
\* unsubscribed ones included, in order, although callbacks subscribe others,
\* and lists move and grow, while it is delivered.
BusSpec == Bus!Spec

Promised == INSTANCE EventBus
              WITH subscribers <- asked,
                   running <- Running, pending <- Pending, Withdrawable <- Callbacks

\* bayeux.h says of bayeux_client_unsubscribe that it unsubscribes from the
\* channel: a callback that was taken back is not called again.
PromisedSpec == Promised!Spec
=============================================================================
