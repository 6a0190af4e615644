--------------------------- MODULE ChannelsProofs ---------------------------
(***************************************************************************)
(* Two theorems about the channel registry: no list is overrun as long as  *)
(* no channel has more subscriptions than the first growth of its list     *)
(* provides for, and the registry implements EventBus.                     *)
(***************************************************************************)
EXTENDS Channels, SequenceTheorems, TLAPS

ChannelRecords == [name : Names, subscriptions : Seq(Callbacks), capacity : Nat]

\* A registry of channels with distinct names, none of them without a callback.
Registry ==
  /\ channels \in Seq(ChannelRecords)
  /\ channel_capacity \in Nat
  /\ \A c \in DOMAIN channels : channels[c].subscriptions # <<>>
  /\ \A c, d \in DOMAIN channels : channels[c].name = channels[d].name => c = d

\* The delivery is within the lists it has counted.
Position ==
  at # NULL =>
    /\ at \in Positions
    /\ at.chan \in DOMAIN channels
    /\ at.chan_count <= Len(channels)
    /\ at.name = channels[at.chan].name
    /\ 1 <= at.sub /\ at.sub <= at.sub_count
    /\ at.sub_count <= Len(channels[at.chan].subscriptions)

LEMMA ChannelType ==
  ASSUME Registry, NEW c \in DOMAIN channels
  PROVE  /\ DOMAIN channels = 1 .. Len(channels) /\ Len(channels) \in Nat
         /\ c \in Nat
         /\ channels[c] = [name |-> channels[c].name, subscriptions |-> channels[c].subscriptions,
                           capacity |-> channels[c].capacity]
         /\ channels[c].name \in Names
         /\ channels[c].subscriptions \in Seq(Callbacks)
         /\ Len(channels[c].subscriptions) \in Nat \ {0}
         /\ channels[c].capacity \in Nat
<1>1. channels \in Seq(ChannelRecords)
  BY DEF Registry
<1>2. DOMAIN channels = 1 .. Len(channels) /\ Len(channels) \in Nat
  BY <1>1, LenProperties
<1>3. channels[c] \in ChannelRecords
  BY <1>1, <1>2, ElementOfSeq
<1>4. channels[c].subscriptions # <<>>
  BY DEF Registry
<1>5. Len(channels[c].subscriptions) \in Nat \ {0}
  BY <1>3, <1>4, EmptySeq DEF ChannelRecords
<1> QED BY <1>2, <1>3, <1>5 DEF ChannelRecords

\* A name is found where it is, and there alone.
LEMMA FindKnown ==
  ASSUME Registry, NEW c \in DOMAIN channels, NEW name, name = channels[c].name
  PROVE  Find(name) = {c} /\ Subscribers(name) = channels[c].subscriptions
<1>1. Find(name) = {c}
  BY DEF Find, Registry
<1> QED BY <1>1 DEF Subscribers

LEMMA FindUnknown ==
  ASSUME NEW name, Find(name) = {}
  PROVE  Subscribers(name) = <<>>
BY DEF Subscribers

\* The delivery of an event goes to the channel of that name, or nowhere.
LEMMA WalkStart ==
  ASSUME Registry, NEW name
  PROVE  /\ Find(name) = {} => Walk(name, 1, Len(channels)) = NULL
         /\ \A c \in DOMAIN channels :
              channels[c].name = name =>
                Walk(name, 1, Len(channels)) =
                  [name |-> name, chan_count |-> Len(channels), chan |-> c, sub |-> 1,
                   sub_count |-> Len(channels[c].subscriptions)]
<1>0. DOMAIN channels = 1 .. Len(channels)
  BY LenProperties DEF Registry
<1>1. ASSUME Find(name) = {}
      PROVE  Walk(name, 1, Len(channels)) = NULL
  BY <1>0, <1>1 DEF Walk, Find
<1>2. ASSUME NEW c \in DOMAIN channels, channels[c].name = name
      PROVE  Walk(name, 1, Len(channels)) =
                  [name |-> name, chan_count |-> Len(channels), chan |-> c, sub |-> 1,
                   sub_count |-> Len(channels[c].subscriptions)]
  <2> DEFINE stops == {d \in 1 .. Len(channels) : channels[d].name = name
                                               /\ channels[d].subscriptions # <<>>}
  <2>1. stops = {c}
    BY <1>0, <1>2 DEF Registry
  <2>2. c <= c
    BY <1>0, <1>2, ChannelType
  <2>3. (CHOOSE x \in stops : \A d \in stops : x <= d) = c
    BY <2>1, <2>2
  <2> QED BY <2>1, <2>3 DEF Walk
<1> QED BY <1>1, <1>2

\* No second channel of the name follows.
LEMMA WalkOn ==
  ASSUME Registry, Position, at # NULL
  PROVE  Walk(at.name, at.chan + 1, at.chan_count) = NULL
<1>0. DOMAIN channels = 1 .. Len(channels) /\ Len(channels) \in Nat
  BY LenProperties DEF Registry
<1>1. /\ at.chan \in 1 .. Len(channels) /\ at.chan_count \in Nat
      /\ at.chan_count <= Len(channels) /\ at.name = channels[at.chan].name
  BY <1>0 DEF Position, Positions
<1>2. \A d \in (at.chan + 1) .. at.chan_count : d \in DOMAIN channels /\ d # at.chan
  BY <1>0, <1>1
<1>3. {d \in (at.chan + 1) .. at.chan_count :
         channels[d].name = at.name /\ channels[d].subscriptions # <<>>} = {}
  BY <1>0, <1>1, <1>2 DEF Registry
<1> QED BY <1>3 DEF Walk

-----------------------------------------------------------------------------
\* What one subscription does to the lists: the channel of the name, found or
\* new, has one callback more, and the others are what they were.
LEMMA SubscribeLists ==
  ASSUME Registry, NEW name \in Names, NEW callback \in Callbacks, Subscribe(name, callback)
  PROVE  /\ Registry'
         /\ DOMAIN channels \subseteq DOMAIN channels'
         /\ Len(channels) <= Len(channels')
         /\ \A c \in DOMAIN channels :
              /\ channels[c].name # name => channels'[c] = channels[c]
              /\ channels[c].name = name =>
                   channels'[c] = WithSubscription(channels[c], callback)
         /\ \A c \in DOMAIN channels' \ DOMAIN channels :
              Find(name) = {} /\ channels'[c] = WithSubscription(NewChannel(name), callback)
<1>0. /\ DOMAIN channels = 1 .. Len(channels) /\ Len(channels) \in Nat
      /\ channels \in Seq(ChannelRecords) /\ channel_capacity \in Nat
  BY LenProperties DEF Registry
<1>1. ASSUME NEW ch \in ChannelRecords
      PROVE  /\ WithSubscription(ch, callback) \in ChannelRecords
             /\ WithSubscription(ch, callback).name = ch.name
             /\ WithSubscription(ch, callback).subscriptions # <<>>
  <2>1. /\ ch.name \in Names /\ ch.subscriptions \in Seq(Callbacks) /\ ch.capacity \in Nat
    BY DEF ChannelRecords
  <2>2. Append(ch.subscriptions, callback) \in Seq(Callbacks) /\ Append(ch.subscriptions, callback) # <<>>
    BY <2>1, AppendProperties
  <2>3. GrownList(ch.capacity) \in Nat
    BY <2>1, ChannelsAssumption DEF GrownList
  <2> QED BY <2>1, <2>2, <2>3 DEF WithSubscription, ChannelRecords
<1>2. CASE Find(name) = {}
  <2> DEFINE new == WithSubscription(NewChannel(name), callback)
  <2>1. /\ new \in ChannelRecords /\ new.name = name /\ new.subscriptions # <<>>
    <3>1. <<>> \in Seq(Callbacks)
      BY EmptySeq
    <3>2. NewChannel(name) \in ChannelRecords /\ NewChannel(name).name = name
      BY <3>1, ChannelsAssumption DEF NewChannel, ChannelRecords
    <3> QED BY <3>2, <1>1
  <2>2. channels' = Append(channels, new) /\ channel_capacity' = ChannelsGrown
    BY <1>2 DEF Subscribe
  <2> HIDE DEF new
  <2>3. /\ channels' \in Seq(ChannelRecords)
        /\ Len(channels') = Len(channels) + 1
        /\ \A c \in 1 .. Len(channels) : channels'[c] = channels[c]
        /\ channels'[Len(channels) + 1] = new
    BY <1>0, <2>1, <2>2, AppendProperties
  <2>4. DOMAIN channels' = 1 .. Len(channels) + 1
    BY <2>3, LenProperties
  <2>5. \A c \in DOMAIN channels : channels[c].name # name
    BY <1>2 DEF Find
  <2>6. channel_capacity' \in Nat
    <3>1. ChannelGrowBy \in Nat
      BY ChannelsAssumption
    <3>2. channel_capacity + ChannelGrowBy \in Nat
      BY <1>0, <3>1
    <3>3. channel_capacity' = ChannelsGrown
      BY <2>2
    <3> QED BY ONLY <1>0, <3>2, <3>3 DEF ChannelsGrown
  <2>7. Registry'
    <3>1. \A c \in DOMAIN channels' : channels'[c].subscriptions # <<>>
      BY <1>0, <2>1, <2>3, <2>4 DEF Registry
    <3>2. \A c, d \in DOMAIN channels' : channels'[c].name = channels'[d].name => c = d
      BY <1>0, <2>1, <2>3, <2>4, <2>5 DEF Registry
    <3> QED BY <2>3, <2>6, <3>1, <3>2 DEF Registry
  <2> QED BY <1>0, <1>2, <2>3, <2>4, <2>5, <2>7 DEF new
<1>3. CASE Find(name) # {}
  <2>1. /\ channels' = [c \in DOMAIN channels |->
                          IF c \in Find(name) THEN WithSubscription(channels[c], callback)
                          ELSE channels[c]]
        /\ channel_capacity' = channel_capacity
    BY <1>3 DEF Subscribe
  <2>2. DOMAIN channels' = 1 .. Len(channels)
    BY <1>0, <2>1
  <2>3. \A c \in DOMAIN channels : c \in Find(name) <=> channels[c].name = name
    BY DEF Find
  <2>4. \A c \in DOMAIN channels : channels[c] \in ChannelRecords
    BY <1>0, ElementOfSeq
  <2>5. \A c \in DOMAIN channels :
          /\ channels'[c] \in ChannelRecords
          /\ channels'[c].name = channels[c].name
          /\ channels'[c].subscriptions # <<>>
    BY <1>1, <2>1, <2>4 DEF Registry
  <2>6. channels' \in [1 .. Len(channels) -> ChannelRecords]
    BY <1>0, <2>1, <2>5
  <2>7. channels' \in Seq(ChannelRecords) /\ Len(channels') = Len(channels)
    <3>1. channels' \in Seq(ChannelRecords)
      BY <1>0, <2>6, SeqDef
    <3> QED BY <1>0, <2>2, <3>1, LenProperties
  <2>8. Registry'
    BY <1>0, <2>1, <2>2, <2>5, <2>7 DEF Registry
  <2> QED BY <1>0, <2>1, <2>2, <2>3, <2>7, <2>8
<1> QED BY <1>2, <1>3

\* A subscription leaves the delivery where it was.
LEMMA SubscribePosition ==
  ASSUME Registry, Position, NEW name \in Names, NEW callback \in Callbacks,
         Subscribe(name, callback)
  PROVE  /\ Position'
         /\ at # NULL =>
              \/ channels'[at.chan].subscriptions = channels[at.chan].subscriptions
              \/ channels'[at.chan].subscriptions =
                   Append(channels[at.chan].subscriptions, callback)
<1>1. at' = at
  BY DEF Subscribe
<1>2. CASE at = NULL
  BY <1>1, <1>2 DEF Position
<1>3. CASE at # NULL
  <2> DEFINE ch == channels[at.chan]
             list == ch.subscriptions
  <2>1. /\ at \in Positions /\ at.chan \in DOMAIN channels /\ at.chan_count <= Len(channels)
        /\ at.name = ch.name /\ 1 <= at.sub /\ at.sub <= at.sub_count /\ at.sub_count <= Len(list)
    BY <1>3 DEF Position
  <2>2. /\ list \in Seq(Callbacks) /\ Len(list) \in Nat
        /\ Len(channels) \in Nat
    BY <2>1, ChannelType
  <2>3. /\ Registry' /\ DOMAIN channels \subseteq DOMAIN channels' /\ Len(channels) <= Len(channels')
        /\ channels'[at.chan] = ch \/ channels'[at.chan] = WithSubscription(ch, callback)
    BY <2>1, SubscribeLists
  <2>4. Len(channels') \in Nat
    BY <2>3, LenProperties DEF Registry
  <2>5. /\ channels'[at.chan].name = ch.name
        /\ channels'[at.chan].subscriptions = list
             \/ channels'[at.chan].subscriptions = Append(list, callback)
    BY <2>3 DEF WithSubscription
  <2>6. Len(Append(list, callback)) = Len(list) + 1
    BY <2>2, AppendProperties
  <2>7. Len(list) <= Len(channels'[at.chan].subscriptions)
    BY <2>2, <2>5, <2>6
  <2>8. /\ at.sub_count <= Len(channels'[at.chan].subscriptions)
        /\ at.chan_count <= Len(channels')
    <3>1. at.sub_count \in Nat /\ at.chan_count \in Nat
      BY <2>1 DEF Positions
    <3>2. Len(channels'[at.chan].subscriptions) \in Nat
      BY <2>2, <2>5, <2>6
    <3> QED BY <2>1, <2>2, <2>3, <2>4, <2>7, <3>1, <3>2
  <2>9. Position'
    BY <1>1, <2>1, <2>3, <2>5, <2>8 DEF Position
  <2> QED BY <2>5, <2>9
<1> QED BY <1>2, <1>3

LEMMA DeliverPosition ==
  ASSUME Registry, NEW name \in Names, Deliver(name)
  PROVE  Position'
<1>1. at' = Walk(name, 1, Len(channels)) /\ channels' = channels
  BY DEF Deliver
<1>2. CASE Find(name) = {}
  BY <1>1, <1>2, WalkStart DEF Position
<1>3. ASSUME NEW c \in Find(name)
      PROVE  Position'
  <2>1. c \in DOMAIN channels /\ channels[c].name = name
    BY <1>3 DEF Find
  <2>2. at' = [name |-> name, chan_count |-> Len(channels), chan |-> c, sub |-> 1,
               sub_count |-> Len(channels[c].subscriptions)]
    BY <1>1, <2>1, WalkStart
  <2>3. Len(channels) \in Nat /\ c \in Nat /\ Len(channels[c].subscriptions) \in Nat \ {0}
    BY <2>1, ChannelType
  <2>4. at' \in Positions
    BY <2>2, <2>3 DEF Positions
  <2> QED BY <1>1, <2>1, <2>2, <2>3, <2>4 DEF Position
<1> QED BY <1>2, <1>3

LEMMA ReturnPosition ==
  ASSUME Registry, Position, CallbackReturns
  PROVE  /\ Position'
         /\ at.sub < at.sub_count =>
              at' = [name |-> at.name, chan_count |-> at.chan_count, chan |-> at.chan,
                     sub |-> at.sub + 1, sub_count |-> at.sub_count]
         /\ ~(at.sub < at.sub_count) => at' = NULL
<1>1. at # NULL /\ channels' = channels
  BY DEF CallbackReturns
<1>2. /\ at \in Positions /\ at.sub \in Nat /\ at.sub_count \in Nat
      /\ at = [name |-> at.name, chan_count |-> at.chan_count, chan |-> at.chan,
               sub |-> at.sub, sub_count |-> at.sub_count]
  BY <1>1 DEF Position, Positions
<1>3. CASE at.sub < at.sub_count
  <2>1. at' = [at EXCEPT !.sub = at.sub + 1]
    BY <1>3 DEF CallbackReturns
  <2>2. at' = [name |-> at.name, chan_count |-> at.chan_count, chan |-> at.chan,
               sub |-> at.sub + 1, sub_count |-> at.sub_count]
    BY <1>2, <2>1
  <2>3. at' \in Positions
    BY <1>2, <2>2 DEF Positions
  <2> QED BY <1>1, <1>2, <1>3, <2>2, <2>3 DEF Position
<1>4. CASE ~(at.sub < at.sub_count)
  <2>1. at' = Walk(at.name, at.chan + 1, at.chan_count)
    BY <1>4 DEF CallbackReturns
  <2>2. at' = NULL
    BY <1>1, <2>1, WalkOn
  <2> QED BY <1>4, <2>2 DEF Position
<1> QED BY <1>3, <1>4

LEMMA RegistryInvariant == ChannelsSpec => [](Registry /\ Position)
<1>1. ChannelsInit => Registry /\ Position
  BY EmptySeq DEF ChannelsInit, Registry, Position
<1>2. Registry /\ Position /\ [ChannelsStep]_registry => (Registry /\ Position)'
  <2> SUFFICES ASSUME Registry, Position, [ChannelsStep]_registry
               PROVE  Registry' /\ Position'
    BY DEF Bus!vars
  <2>1. ASSUME NEW name \in Names, Deliver(name)
        PROVE  Registry' /\ Position'
    BY <2>1, DeliverPosition DEF Deliver, Registry
  <2>2. ASSUME NEW name \in Names, NEW callback \in Callbacks, Subscribe(name, callback)
        PROVE  Registry' /\ Position'
    BY <2>2, SubscribeLists, SubscribePosition
  <2>3. ASSUME NEW name \in Names, NEW callback \in Callbacks, Unsubscribe(name, callback)
        PROVE  Registry' /\ Position'
    BY <2>3 DEF Unsubscribe, Registry, Position
  <2>4. CASE CallbackReturns
    BY <2>4, ReturnPosition DEF CallbackReturns, Registry
  <2>5. CASE UNCHANGED registry
    BY <2>5 DEF registry, Registry, Position
  <2> QED BY <2>1, <2>2, <2>3, <2>4, <2>5 DEF ChannelsStep
<1> QED BY <1>1, <1>2, PTL DEF ChannelsSpec

-----------------------------------------------------------------------------
(* No list is overrun *)

\* A list has its first capacity or has grown once; the second growth would
\* leave it as long as it is.
Fit ==
  /\ Len(channels) <= channel_capacity
  /\ \A c \in DOMAIN channels :
       /\ channels[c].capacity \in {FirstCapacity, GrownList(FirstCapacity)}
       /\ Len(channels[c].subscriptions) <= channels[c].capacity

LEMMA WithSubscriptionFits ==
  ASSUME MaxPerChannel <= GrownList(FirstCapacity),
         NEW callback \in Callbacks, NEW ch,
         ch.subscriptions \in Seq(Callbacks),
         ch.capacity \in {FirstCapacity, GrownList(FirstCapacity)},
         Len(ch.subscriptions) <= ch.capacity,
         Len(ch.subscriptions) < MaxPerChannel
  PROVE  LET new == WithSubscription(ch, callback)
         IN  /\ new.capacity \in {FirstCapacity, GrownList(FirstCapacity)}
             /\ Len(new.subscriptions) <= new.capacity
<1> DEFINE n == Len(ch.subscriptions)
<1>1. n \in Nat /\ Len(Append(ch.subscriptions, callback)) = n + 1
  BY LenProperties, AppendProperties
<1>2. FirstCapacity \in Nat /\ GrownList(FirstCapacity) \in Nat /\ MaxPerChannel \in Nat
  BY ChannelsAssumption DEF GrownList
<1>3. /\ WithSubscription(ch, callback).capacity = IF n = ch.capacity THEN GrownList(ch.capacity) ELSE ch.capacity
      /\ Len(WithSubscription(ch, callback).subscriptions) = n + 1
  BY <1>1 DEF WithSubscription
<1>4. n = ch.capacity => ch.capacity = FirstCapacity
  BY <1>1, <1>2
<1> QED BY <1>1, <1>2, <1>3, <1>4

\* As long as no channel gets more subscriptions than its list has room for
\* after its first growth (16 in the code), nothing is stored behind the end
\* of a list, and the array of channels is never overrun at all.
THEOREM RegistryFits ==
  ASSUME MaxPerChannel <= GrownList(FirstCapacity), FirstCapacity <= MaxPerChannel
  PROVE  ChannelsSpec => []ListsFit
<1>1. ChannelsInit => Fit
  BY EmptySeq DEF ChannelsInit, Fit
<1>2. Registry /\ Fit /\ [ChannelsStep]_registry => Fit'
  <2> SUFFICES ASSUME Registry, Fit, [ChannelsStep]_registry
               PROVE  Fit'
    OBVIOUS
  <2>1. ASSUME NEW name \in Names, NEW callback \in Callbacks, Subscribe(name, callback)
        PROVE  Fit'
    <3>0. /\ Len(channels) \in Nat /\ channel_capacity \in Nat /\ ChannelGrowBy \in Nat \ {0}
          /\ channels \in Seq(ChannelRecords)
          /\ DOMAIN channels = 1 .. Len(channels)
      BY ChannelsAssumption, LenProperties DEF Registry
    <3>1. Len(channels') <= channel_capacity'
      <4>1. CASE Find(name) = {}
        <5>1. /\ channels' = Append(channels, WithSubscription(NewChannel(name), callback))
              /\ channel_capacity' = ChannelsGrown
          BY <2>1, <4>1 DEF Subscribe
        <5>2. Len(channels') = Len(channels) + 1
          BY <3>0, <5>1 
        <5> HIDE DEF Fit
        <5>3. Len(channels) <= channel_capacity
          BY DEF Fit
        <5>4. ChannelsGrown >= Len(channels) + 1
          <6>1. CASE Len(channels) = channel_capacity
            <7>1. ChannelsGrown = channel_capacity + ChannelGrowBy
              BY <6>1 DEF ChannelsGrown
            <7>2. ChannelGrowBy \in Nat /\ 1 <= ChannelGrowBy
              BY <3>0
            <7> QED BY ONLY <3>0, <6>1, <7>1, <7>2
          <6>2. CASE Len(channels) # channel_capacity
            <7>1. ChannelsGrown = channel_capacity
              BY <6>2 DEF ChannelsGrown
            <7>2. \A m, n \in Nat : m <= n /\ m # n => n >= m + 1
              OBVIOUS
            <7>3. Len(channels) \in Nat /\ channel_capacity \in Nat
              BY <3>0
            <7>4. channel_capacity >= Len(channels) + 1
              BY ONLY <5>3, <6>2, <7>2, <7>3
            <7> QED BY <7>1, <7>4
          <6> QED BY <6>1, <6>2
        <5> QED BY <5>1, <5>2, <5>4
      <4>2. CASE Find(name) # {}
        <5>1. /\ channels' = [c \in DOMAIN channels |->
                                IF c \in Find(name) THEN WithSubscription(channels[c], callback)
                                ELSE channels[c]]
              /\ channel_capacity' = channel_capacity
          BY <2>1, <4>2 DEF Subscribe
        <5>2. DOMAIN channels' = 1 .. Len(channels)
          BY <3>0, <5>1
        <5>3. Registry'
          BY <2>1, SubscribeLists
        <5>4. Len(channels') \in Nat /\ DOMAIN channels' = 1 .. Len(channels')
          BY <5>3, LenProperties DEF Registry
        <5>5. Len(channels') = Len(channels)
          BY <3>0, <5>2, <5>4
        <5> QED BY <5>1, <5>5 DEF Fit
      <4> QED BY <4>1, <4>2
    <3>2. ASSUME NEW c \in DOMAIN channels'
          PROVE  /\ channels'[c].capacity \in {FirstCapacity, GrownList(FirstCapacity)}
                 /\ Len(channels'[c].subscriptions) <= channels'[c].capacity
      <4>1. CASE c \in DOMAIN channels /\ channels[c].name # name
        <5>1. channels'[c] = channels[c]
          BY <2>1, <4>1, SubscribeLists
        <5> QED BY <4>1, <5>1 DEF Fit
      <4>2. CASE c \in DOMAIN channels /\ channels[c].name = name
        <5>1. channels'[c] = WithSubscription(channels[c], callback)
          BY <2>1, <4>2, SubscribeLists
        <5>2. Len(channels[c].subscriptions) < MaxPerChannel
          BY <2>1, <4>2 DEF Subscribe, Find
        <5>3. channels[c].subscriptions \in Seq(Callbacks)
          BY <4>2, ChannelType
        <5>4. /\ channels[c].capacity \in {FirstCapacity, GrownList(FirstCapacity)}
              /\ Len(channels[c].subscriptions) <= channels[c].capacity
          BY <4>2 DEF Fit
        <5> QED BY <5>1, <5>2, <5>3, <5>4, WithSubscriptionFits
      <4>3. CASE c \notin DOMAIN channels
        <5>1. channels'[c] = WithSubscription(NewChannel(name), callback)
          BY <2>1, <3>2, <4>3, SubscribeLists
        <5>2. /\ NewChannel(name).subscriptions = <<>> /\ <<>> \in Seq(Callbacks)
              /\ Len(<<>>) = 0 /\ NewChannel(name).capacity = FirstCapacity
          BY EmptySeq DEF NewChannel
        <5>3. 0 <= FirstCapacity /\ 0 < MaxPerChannel
          BY ChannelsAssumption
        <5> QED BY <5>1, <5>2, <5>3, WithSubscriptionFits
      <4> QED BY <4>1, <4>2, <4>3
    <3> QED BY <3>1, <3>2 DEF Fit
  <2>2. CASE UNCHANGED <<channels, channel_capacity>>
    BY <2>2 DEF Fit
  <2> QED BY <2>1, <2>2 DEF ChannelsStep, Deliver, Unsubscribe, CallbackReturns, registry
<1>3. Fit => ListsFit
  BY DEF Fit, ListsFit
<1> QED BY <1>1, <1>2, <1>3, RegistryInvariant, PTL DEF ChannelsSpec

-----------------------------------------------------------------------------
(* The registry implements the bus *)

LEMMA RunningCallback ==
  ASSUME Registry, Position, at # NULL
  PROVE  /\ channels[at.chan].subscriptions \in Seq(Callbacks)
         /\ at.sub \in 1 .. Len(channels[at.chan].subscriptions)
         /\ at.sub_count \in at.sub .. Len(channels[at.chan].subscriptions)
         /\ Running = channels[at.chan].subscriptions[at.sub]
         /\ Running # NULL
<1>1. /\ at \in Positions /\ at.chan \in DOMAIN channels
      /\ 1 <= at.sub /\ at.sub <= at.sub_count
      /\ at.sub_count <= Len(channels[at.chan].subscriptions)
  BY DEF Position
<1>2. /\ channels[at.chan].subscriptions \in Seq(Callbacks)
      /\ Len(channels[at.chan].subscriptions) \in Nat
  BY <1>1, ChannelType
<1>3. /\ at.sub \in 1 .. Len(channels[at.chan].subscriptions)
      /\ at.sub_count \in at.sub .. Len(channels[at.chan].subscriptions)
  BY <1>1, <1>2 DEF Positions
<1>4. channels[at.chan].subscriptions[at.sub] \in Callbacks
  BY <1>2, <1>3, ElementOfSeq
<1> QED BY <1>2, <1>3, <1>4, ChannelsAssumption DEF Running

\* A subscription is one of the bus, for that channel and no other.
LEMMA SubscribeImplements ==
  ASSUME Registry, Position, NEW name \in Names, NEW callback \in Callbacks,
         Subscribe(name, callback)
  PROVE  Bus!Subscribe(name, callback)
<1>0. Registry' /\ at' = at
  BY SubscribeLists DEF Subscribe
<1>1. ASSUME NEW n \in Names, n # name
      PROVE  Subscribers(n)' = Subscribers(n)
  <2>1. Find(n)' = Find(n)
    <3>1. ASSUME NEW c \in DOMAIN channels
          PROVE  c \in DOMAIN channels' /\ (channels'[c].name = n <=> channels[c].name = n)
      <4>1. c \in DOMAIN channels'
        BY SubscribeLists
      <4>2. channels'[c] \in {channels[c], WithSubscription(channels[c], callback)}
        BY SubscribeLists
      <4>3. WithSubscription(channels[c], callback).name = channels[c].name
        BY DEF WithSubscription
      <4> QED BY <4>1, <4>2, <4>3
    <3>2. \A c \in DOMAIN channels' \ DOMAIN channels : channels'[c].name = name
      BY SubscribeLists DEF WithSubscription, NewChannel
    <3> QED BY <1>1, <3>1, <3>2 DEF Find
  <2>2. CASE Find(n) = {}
    BY <2>1, <2>2 DEF Subscribers
  <2>3. ASSUME NEW c \in Find(n)
        PROVE  Subscribers(n)' = Subscribers(n)
    <3>1. c \in DOMAIN channels /\ channels[c].name = n
      BY <2>3 DEF Find
    <3>2. channels'[c] = channels[c]
      BY <1>1, <3>1, SubscribeLists
    <3>3. Find(n) = {c} /\ Find(n)' = {c}
      BY <2>1, <3>1, FindKnown
    <3> QED BY <3>2, <3>3 DEF Subscribers
  <2> QED BY <2>2, <2>3
<1>2. Subscribers(name)' = Append(Subscribers(name), callback)
  <2>1. CASE Find(name) = {}
    <3>1. channels' = Append(channels, WithSubscription(NewChannel(name), callback))
      BY <2>1 DEF Subscribe
    <3>2. PICK c : c \in DOMAIN channels' /\ c \notin DOMAIN channels
      <4>1. channels \in Seq(ChannelRecords) /\ channels' \in Seq(ChannelRecords)
        BY <1>0 DEF Registry
      <4>2. Len(channels') = Len(channels) + 1
        BY <3>1, <4>1
      <4>3. /\ DOMAIN channels = 1 .. Len(channels) /\ DOMAIN channels' = 1 .. Len(channels')
            /\ Len(channels) \in Nat
        BY <4>1, LenProperties
      <4> WITNESS Len(channels) + 1
      <4> QED BY <4>2, <4>3
    <3>3. channels'[c] = WithSubscription(NewChannel(name), callback)
      BY <3>2, SubscribeLists
    <3>4. /\ channels'[c].name = name
          /\ channels'[c].subscriptions = Append(<<>>, callback)
      BY <3>3 DEF WithSubscription, NewChannel
    <3>5. Find(name)' = {c}
      BY <1>0, <3>2, <3>4 DEF Find, Registry
    <3> QED BY <2>1, <3>4, <3>5, FindUnknown DEF Subscribers
  <2>2. ASSUME NEW c \in Find(name)
        PROVE  Subscribers(name)' = Append(Subscribers(name), callback)
    <3>1. c \in DOMAIN channels /\ channels[c].name = name
      BY <2>2 DEF Find
    <3>2. channels'[c] = WithSubscription(channels[c], callback) /\ c \in DOMAIN channels'
      BY <3>1, SubscribeLists
    <3>3. /\ channels'[c].name = name
          /\ channels'[c].subscriptions = Append(channels[c].subscriptions, callback)
      BY <3>1, <3>2 DEF WithSubscription
    <3>4. Find(name)' = {c}
      BY <1>0, <3>2, <3>3 DEF Find, Registry
    <3>5. Subscribers(name) = channels[c].subscriptions
      BY <3>1, FindKnown
    <3> QED BY <3>3, <3>4, <3>5 DEF Subscribers
  <2> QED BY <2>1, <2>2
<1>3. Running' = Running /\ Pending' = Pending
  <2>1. CASE at = NULL
    BY <1>0, <2>1 DEF Running, Pending
  <2>2. CASE at # NULL
    <3> DEFINE list == channels[at.chan].subscriptions
    <3>1. /\ list \in Seq(Callbacks) /\ at.sub \in 1 .. Len(list) /\ Len(list) \in Nat
          /\ at.sub_count \in at.sub .. Len(list)
      BY <2>2, RunningCallback, LenProperties
    <3>2. CASE channels'[at.chan].subscriptions = list
      BY <1>0, <2>2, <3>2 DEF Running, Pending
    <3>3. CASE channels'[at.chan].subscriptions = Append(list, callback)
      <4>1. Append(list, callback)[at.sub] = list[at.sub]
        BY <3>1, AppendProperties
      <4>2. SubSeq(Append(list, callback), at.sub + 1, at.sub_count)
            = SubSeq(list, at.sub + 1, at.sub_count)
        <5>1. CASE at.sub = at.sub_count
          BY <3>1, <5>1, SubSeqEmpty
        <5>2. CASE at.sub # at.sub_count
          <6>1. at.sub + 1 \in 1 .. Len(list) /\ at.sub_count \in 1 .. Len(list)
            BY <3>1, <5>2
          <6> HIDE DEF list
          <6>2. Append(list, callback) = list \o <<callback>> /\ <<callback>> \in Seq(Callbacks)
            BY <3>1, AppendIsConcat
          <6>3. SubSeq(list \o <<callback>>, at.sub + 1, at.sub_count)
                = SubSeq(list, at.sub + 1, at.sub_count)
            BY ONLY <3>1, <6>1, <6>2, SubSeqOfConcat1
          <6> QED BY <6>2, <6>3
        <5> QED BY <5>1, <5>2
      <4>3. /\ Running' = Append(list, callback)[at.sub]
            /\ Pending' = SubSeq(Append(list, callback), at.sub + 1, at.sub_count)
        BY <1>0, <2>2, <3>3 DEF Running, Pending
      <4>4. Running = list[at.sub] /\ Pending = SubSeq(list, at.sub + 1, at.sub_count)
        BY <2>2 DEF Running, Pending
      <4> QED BY <4>1, <4>2, <4>3, <4>4
    <3> QED BY <2>2, <3>2, <3>3, SubscribePosition
  <2> QED BY <2>1, <2>2
<1>4. [n \in Names |-> Subscribers(n)'] =
        [[n \in Names |-> Subscribers(n)] EXCEPT ![name] = Append(@, callback)]
  BY <1>1, <1>2
<1> QED BY <1>3, <1>4 DEF Bus!Subscribe

\* The lists of the bus when the registry does not change.
LEMMA SubscribersUnchanged ==
  ASSUME channels' = channels
  PROVE  [n \in Names |-> Subscribers(n)]' = [n \in Names |-> Subscribers(n)]
BY DEF Subscribers, Find

\* An event calls the first callback of its channel.
LEMMA DeliverImplements ==
  ASSUME Registry, Position, NEW name \in Names, Deliver(name)
  PROVE  Bus!Event(name)
<1>0. /\ at = NULL /\ at' = Walk(name, 1, Len(channels)) /\ channels' = channels
      /\ [n \in Names |-> Subscribers(n)]' = [n \in Names |-> Subscribers(n)]
  BY SubscribersUnchanged DEF Deliver
<1>1. Running = NULL
  BY <1>0 DEF Running
<1>2. [n \in Names |-> Subscribers(n)][name] = Subscribers(name)
  OBVIOUS
<1>3. CASE Find(name) = {}
  <2>1. Subscribers(name) = <<>> /\ at' = NULL
    BY <1>0, <1>3, FindUnknown, WalkStart
  <2>2. Running' = NULL /\ Pending' = <<>>
    BY <2>1 DEF Running, Pending
  <2> QED BY <1>0, <1>1, <1>2, <2>1, <2>2 DEF Bus!Event, Bus!Call
<1>4. ASSUME NEW c \in Find(name)
      PROVE  Bus!Event(name)
  <2> DEFINE list == channels[c].subscriptions
  <2>1. c \in DOMAIN channels /\ channels[c].name = name
    BY <1>4 DEF Find
  <2>2. /\ list \in Seq(Callbacks) /\ Len(list) \in Nat \ {0} /\ list # <<>>
        /\ Subscribers(name) = list
    BY <2>1, ChannelType, FindKnown DEF Registry
  <2>3. at' = [name |-> name, chan_count |-> Len(channels), chan |-> c, sub |-> 1,
               sub_count |-> Len(list)]
    BY <1>0, <2>1, WalkStart
  <2>4. at' # NULL
    <3>1. at' \in Positions
      BY <2>1, <2>2, <2>3, ChannelType DEF Positions
    <3> QED BY <3>1, ChannelsAssumption
  <2>5. Running' = list[1] /\ Pending' = SubSeq(list, 2, Len(list))
    <3>1. at'.chan = c /\ at'.sub = 1 /\ at'.sub_count = Len(list) /\ 1 + 1 = 2
      BY <2>3
    <3>2. channels'[c].subscriptions = list
      BY <1>0
    <3> QED BY <2>4, <3>1, <3>2 DEF Running, Pending
  <2>6. Head(list) = list[1] /\ Tail(list) = SubSeq(list, 2, Len(list))
    BY <2>2, TailIsSubSeq
  <2> QED BY <1>0, <1>1, <1>2, <2>2, <2>5, <2>6 DEF Bus!Event, Bus!Call
<1> QED BY <1>3, <1>4

\* The return of a callback calls the next one.
LEMMA ReturnImplements ==
  ASSUME Registry, Position, CallbackReturns
  PROVE  Bus!Return
<1> DEFINE list == channels[at.chan].subscriptions
<1>0. /\ at # NULL /\ channels' = channels
      /\ [n \in Names |-> Subscribers(n)]' = [n \in Names |-> Subscribers(n)]
  BY SubscribersUnchanged DEF CallbackReturns
<1>1. /\ list \in Seq(Callbacks) /\ Len(list) \in Nat
      /\ at.sub \in 1 .. Len(list) /\ at.sub_count \in at.sub .. Len(list)
      /\ Running # NULL /\ Pending = SubSeq(list, at.sub + 1, at.sub_count)
  BY <1>0, RunningCallback, LenProperties DEF Pending
<1>2. CASE at.sub < at.sub_count
  <2>1. at' = [name |-> at.name, chan_count |-> at.chan_count, chan |-> at.chan,
               sub |-> at.sub + 1, sub_count |-> at.sub_count]
    BY <1>2, ReturnPosition
  <2>2. at' # NULL
    <3>1. at \in Positions
      BY <1>0 DEF Position
    <3>2. at' \in Positions
      BY <2>1, <3>1 DEF Positions
    <3> QED BY <3>2, ChannelsAssumption
  <2>3. Running' = list[at.sub + 1] /\ Pending' = SubSeq(list, (at.sub + 1) + 1, at.sub_count)
    BY <1>0, <2>1, <2>2 DEF Running, Pending
  <2>4. at.sub + 1 \in 1 .. Len(list) /\ at.sub_count \in (at.sub + 1) .. Len(list)
    BY <1>1, <1>2
  <2>5. /\ Head(Pending) = list[at.sub + 1]
        /\ Tail(Pending) = SubSeq(list, (at.sub + 1) + 1, at.sub_count)
    <3> HIDE DEF list
    <3> QED BY <1>1, <2>4, HeadTailOfSubSeq
  <2>6. Pending # <<>>
    <3>1. \A i \in (at.sub + 1) .. at.sub_count : list[i] \in Callbacks
      BY <1>1, ElementOfSeq
    <3>2. at.sub + 1 \in Int /\ at.sub_count \in Int /\ at.sub + 1 <= at.sub_count
      BY <1>1, <1>2
    <3> HIDE DEF list
    <3>3. Len(Pending) = at.sub_count - (at.sub + 1) + 1
      BY <1>1, <3>1, <3>2, SubSeqProperties
    <3> QED BY <3>2, <3>3, EmptySeq
  <2> QED BY <1>0, <1>1, <2>3, <2>5, <2>6 DEF Bus!Return, Bus!Call
<1>3. CASE ~(at.sub < at.sub_count)
  <2>1. at' = NULL
    BY <1>3, ReturnPosition
  <2>2. Pending = <<>>
    BY <1>1, <1>3, SubSeqEmpty
  <2>3. Running' = NULL /\ Pending' = <<>>
    BY <2>1 DEF Running, Pending
  <2> QED BY <1>0, <1>1, <2>2, <2>3 DEF Bus!Return, Bus!Call
<1> QED BY <1>2, <1>3

\* For any number of channels, callbacks and subscriptions, and whatever the
\* callbacks subscribe while they are called, the registry and the loops of
\* channel_deliver keep the promise stated in EventBus.
THEOREM RegistryImplementsBus == ChannelsSpec => BusSpec
<1>1. ChannelsInit => Bus!Init
  BY EmptySeq DEF ChannelsInit, Bus!Init, Subscribers, Find, Running, Pending
<1>2. Registry /\ Position /\ [ChannelsStep]_registry
        => [Bus!Next]_(Bus!vars)
  <2> SUFFICES ASSUME Registry, Position, [ChannelsStep]_registry
               PROVE  \/ Bus!Next
                      \/ /\ [n \in Names |-> Subscribers(n)]' = [n \in Names |-> Subscribers(n)]
                         /\ Running' = Running /\ Pending' = Pending
    BY DEF Bus!vars
  <2>1. ASSUME NEW name \in Names, Deliver(name)
        PROVE  Bus!Next
    BY <2>1, DeliverImplements DEF Bus!Next
  <2>2. ASSUME NEW name \in Names, NEW callback \in Callbacks, Subscribe(name, callback)
        PROVE  Bus!Next
    BY <2>2, SubscribeImplements DEF Bus!Next
  <2>3. CASE CallbackReturns
    BY <2>3, ReturnImplements DEF Bus!Next
  <2>4. CASE UNCHANGED <<channels, at>>
    <3>1. Running' = Running /\ Pending' = Pending
      BY <2>4 DEF Running, Pending
    <3> QED BY <2>4, <3>1, SubscribersUnchanged
  <2> QED BY <2>1, <2>2, <2>3, <2>4 DEF ChannelsStep, Unsubscribe, registry
<1> QED BY <1>1, <1>2, RegistryInvariant, PTL DEF ChannelsSpec, BusSpec, Bus!Spec
=============================================================================
