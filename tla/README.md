# Verification of libbayeux

libbayeux is a Bayeux (CometD) client in C: an application subscribes to
channels, publishes on them and is called back with events, over HTTP long
polling. This directory holds TLA+ modules for it, the TLC configurations that
check them on small instances, and theorems checked by TLAPS for every
instance. Line numbers `B:n` are lines of `src/bayeux.c`, `H:n` of
`src/transport_http_long_polling.c`, `S:n` of `src/str.c`, `T:n` of
`src/transport.c`.

    tlc -workers 2 -config client_matching.cfg BayeuxClientMC.tla     # any .cfg listed below
    tlapm BayeuxClientProofs.tla                                 # and the other *Proofs modules

## 1. Inventory

Everything runs on one thread, inside one libevent loop. "Concurrency" is the
order in which timers, responses, application calls and callbacks come, and the
re-entrance of a callback that calls the client.

| component | state | operations | talks to |
|---|---|---|---|
| **Outbox** (`MsgQueue`, B:103, 298-439, 490) | four parallel arrays (`msgs`, `batch_ids`, `msg_ids`, `funcs`), `capacity`, `count` | create, destroy, push, find by message id, remove ordered, flush, flush one, batch send error | the session pushes and removes; a flush hands JSON to the transport |
| **Session** (`BayeuxClient`, B:112, 223-262, 442-900) | `state`, `advice`, `id`, the two id counters, `handshake_msg_index`, `connect_msg_in_flight`, three timers | create, destroy, publish, subscribe, unsubscribe; the three timer callbacks; receiving a batch, a message, an advice; `recv_*`; `issue_*`; `schedule_*` | the outbox (calls), the transport (`transport_send`, `on_batch_recv`), the application (calls, callbacks) |
| **Channel registry** (B:138-220) | channels with a list of subscriptions and capacities | find or create, subscribe, deliver | called by subscribe and by the receipt of an event |
| **Transport facade** (`transport.c`) | the transport type | open, close, send | dispatches to the HTTP transport |
| **HTTP transport** (`transport_http_long_polling.c`) | curl multi handle, `ev_timer`, a record per connection and one per socket | request, write, socket and timer callbacks of curl, event and timer callbacks of libevent, `check_curl_multi`, destroy | calls `on_batch_recv` |
| **String buffer** (`str.c`) | length, capacity, bytes | alloc, cat, free | the flush builds the request in one |
| **Messages** (`json_util.c`, B:266-295, 568-651, 681-760) | none | five `make_` functions, ids as text, typed lookups, reading a reply | built into the outbox, read by the session |
| Logging, the pingpong sample, Xcode files | - | - | not modelled |

What is hard, and what makes each part correct:

* *Outbox.* A reply removes a message from the middle of four arrays while the
  client keeps an index into them across removals; every array must move by the
  same step, ids must be unique while in flight, an answered message must be
  gone and an unanswered one must neither be lost nor be sent twice.
* *Session.* Nothing is sent unless somebody schedules a flush; the long poll
  goes on only because every connect reply schedules the next connect; replies
  come in any order; a handshake may be refused, repeated, or asked for again
  by an advice in any message; callbacks call the client in the middle of a
  batch. Correct means: one long poll at a time, no message without a wake-up,
  each reply to the right handler, nothing but a handshake before there is a
  client id, and a client that does not fall asleep.
* *Channel registry.* A callback may subscribe while the loop over the
  subscriptions runs; the list's capacity is rounded to a multiple of 16.
* *HTTP transport.* Responses come in any order, fail, or never come; sockets
  and timers are created and destroyed from curl's callbacks. Correct means that
  each request is reported to the client exactly once, answered or failed.
* *String buffer.* Capacity arithmetic: what is written must fit.
* *Messages.* A reply is matched by an id that has been written as text, and a
  field may be missing or of another type. Text that is no id is read as a number
  all the same, among them the one that stands for "no id yet".

`PROJECT.json` lists the hazards at the line where each bites, with the
property that covers it or the reason why none does yet.

## 2. Modules

    MsgQueue            the outbox: a queue before and after each operation
      BayeuxClient      the session, as a state machine over that queue
        BayeuxClientMC  what TLC instantiates
      Outbox            the queue by itself, with messages that can be told apart;
                        implements Mailbox, what an outbox promises
    Channels            the channel registry and the delivery of events;
                        implements EventBus, what delivery promises
    Transport           the HTTP transport between curl and libevent
    BayeuxSystem        BayeuxClient on Transport
    Pacing              advice, timers with durations
      PacingMC          what TLC instantiates
    Messages            what messages and replies say
    Buffers             the text of a request and the data of a response
      DataMC            Outbox, Messages, Buffers and Channels for TLC

    MsgQueueProofs      lemmas: what each queue operation does to each slot
      BayeuxClientProofs            theorems for every server
        BayeuxClientEnvProofs       retrying; ids before the wrap-around; the
                                    handshake gate with a calm server
      OutboxProofs                  order, ids, the mailbox, the text of a request
    TransportProofs     each transfer has a wake-up, each answer is read
      BayeuxSystemProofs            the system implements both its parts (uses
                                    BayeuxClientProofs too)
    ChannelsProofs      the lists fit; the registry implements the bus
    DetailsProofs       Buffers, Messages and Pacing

**MsgQueue** has no variables: `Push`, `FindByMsgId`, `RemoveOrdered`,
`AssignIds` (the two flush functions), `ClearBatch` (`on_batch_send_err`) and
`IdAfter` (the id counters with their step over `0xffffffff`) map queues to
queues. Slots are numbered from 0. An array keeps the *left-over* slots behind
`count`, because `memmove` does not clear them and `on_ev_timeout_flush` can
reach one through `handshake_msg_index`; the field `written` says how many slots
have ever been stored to, so that reading past it would be visible as a type
error.

**BayeuxClient** has one action per handler, timer callback and exported
function:

| action | code |
|---|---|
| `Init` | `bayeux_client_create` |
| `Publish`, `Subscribe`, `Unsubscribe`, `Destroy` | the exported functions, the first three also from within a callback |
| `OnEvTimeoutConnect`, `OnEvTimeoutHandshake`, `OnEvTimeoutFlush` | the timer callbacks, with `issue_connect`, `issue_handshake` and `transport_send` inside |
| `BatchBegins`, `BatchEnds`, `ExchangeFails` | `check_curl_multi` and the frame of `on_batch_recv` |
| `RecvConnect`, `RecvHandshake`, `RecvAck`, `RecvUnknown`, `RecvEvent` | `on_msg_recv` with `handle_advice` and the handler it dispatches to |
| `CallbackReturns` | `channel_deliver` |

Handlers run to completion, so each is one action, except `on_batch_recv`, whose
messages are handled one by one with callbacks between: `loop` says whether the
thread is in the event loop (`idle`), between two messages (`batch`), in the
application's callback (`callback`), or at an end (`destroyed`, `faulted`).
Two responses that `check_curl_multi` reads in one go are separated by `idle`
here, which only adds interleavings.

The environment is the server and the network. `wire` holds the messages that
were sent and have no reply yet, as they were sent (id, type, client id), and
`open` counts the HTTP exchanges without a response. The response to *any* open
exchange may hold replies to *any* messages of the wire, in any order, with any
advice, next to events and junk: the Bayeux protocol allows a reply on either
connection, and the client does not look at which exchange a reply comes from. A
message may never be answered. A second copy of a reply is a message whose id
the outbox does not know. With `StrayIds` a reply may also carry an id that is
read as `MSG_ID_INVALID` ("ffffffff", "-1", too many digits: B:276). That is the id
of every message that waits to be sent, so that B:522 finds the first of those,
runs its handler and removes it; `Answerable` is the wire and that one reply.

Abstractions: a message is its type and, for the question whether a flush sends an
object that has been freed, its identity: `Fresh` is an object that no slot refers
to, live or left over. `ObjectsApart` turns that on; no other property looks at it,
and without it there are fewer states. A channel, a client id or a callback is a
model value; a timer is pending or not and may fire at any moment, so every
order of timeouts and answers is covered and durations are not (`Pacing` has
them); a registered subscription is its channel's name (`Channels` has the
lists). That a request may fail to be made (H:303, H:325) is in `BayeuxSystem`.

**Outbox** drives the same operators with numbered messages, so that "the same
message" means something: a reply is given to the handler of exactly the message
it is matched with, a batch that could not be sent (`OnBatchSendErr`) waits again
in its old place. It also builds the text of a request, token by token, because
the comma (B:358) depends on what was written before and not on the slot.
`on_batch_send_err` is called by nothing in the code; the constant `SendErrors`
turns it on. A reply with the invalid id takes the oldest message that waits
(`StrayIds`). **Mailbox** says the same without slots: sets of waiting messages and
a function of those in flight; `AnswerUnsent` is the reply with that id.

**Channels** splits `channel_deliver` at every callback: `Deliver` runs to the
first one, `CallbackReturns` from one to the next, and between them the
application may `Subscribe`, also to the channel being delivered. The counts
(`sub_count`, `chan_count`) are read once, the pointers at every turn, as in the
code. (`channel` is a `restrict` pointer, which would allow a compiler to keep
`channel->subscriptions` in a register over a callback that moves the list; the
model reads it each time, as a build does that cannot see into the callback.)
`Unsubscribe` leaves the registry as it is (B:941); `asked`, which is not in the
code, keeps what the application has asked for. **EventBus** has just the
subscribers and the callbacks still to be called for the event. Its constant
`Withdrawable` says which callbacks can be unsubscribed: none for `BusSpec`, which
the registry implements, and all for `PromisedSpec`, which is what `bayeux.h`
describes and the registry does not do.

**Transport** has one record per request, and what curl asked for (`wanted`,
`curl_timeout`) next to what libevent has been told (`registered`, `ev_timer`).
Its actions are the callbacks: `Send` and `SendFails` (`transport_send`, which fails
when curl gives no handle, H:303, or does not take it, H:325, and drops the
request both times),
`OnEvEvent`, `OnEvTimer`, then `Report`, `ReportReturns` and `CheckEnds` for the
loop of `check_curl_multi`, during which the client's callback runs, and
`Destroy`. `SocketSet` and `Timer` are the callbacks curl makes into the transport
in the middle of the others. What is assumed of curl is listed in the module's
header. A response that is not a JSON array ends the process: `thread` becomes
`faulted`.

**BayeuxSystem** joins `BayeuxClient` and `Transport`: a flush makes a request or
loses it, a finished transfer is reported by running the client's batch, and the
client's other callbacks run only while the transport is in the event loop. The
exchanges that `BayeuxClient` counts in `open` are now curl's transfers.

**Pacing** has only what decides when the client connects: advice as the server
words it, looked up in `s_reconnect_strs`, the two timers with the microseconds
they have left, and the delays as the code computes them, through the two fields
of a `struct timeval`. An interval may be negative, as the code takes it from the
message unchecked (B:249); its timer is due at once. No message comes before the
first call (`called`). `advised` is the last advice the client understood, in the
server's words.

**Messages** represents a JSON object as a record with a typed value, or
`Missing`, for each key the client looks at. A behaviour is one message with an
id and a reply to it in which any field may be missing or of the wrong type, there
may be data, which makes an event of it (B:510), and the id may be text that is
none. `strtoul` says what number that is: leading digits only, 0 for none, the
largest for too many, counted down from there after a minus sign, then cut to the
width of an id. Spaces, "+" and "0x" at the beginning of the text are left out.
**Buffers** keeps lengths only, and how far each call writes. It includes
`str_reserve`, which nothing calls, `str.h` does not declare, and which asks for
the difference of the capacities instead of the capacity (S:130); it does no harm.

## 3. What is checked

| run | what may happen | properties |
|---|---|---|
| `client_matching` | any server that replies with the ids of messages | `TypeOK`, `SingleConnect`, `ParallelArrays`, `UniqueIds`, `RepliesRouted`, `MarkedIsOnWire`, `FlushedIsHeld`, `NoLostWakeup`, `OutboxDriven`, `RetryKept` |
| `client_live` | a server that accepts the handshake, answers in the end, advises "retry" | `ClientIdAdded`, `InFlightMarked`, `HandshakeIndexLive`, `ConnectRenewed`, `WaitingIsSent` |
| `data` | pushes, flushes, replies with any id in any order, failed batches; any message and reply; any use of the buffers; two channels, callbacks that subscribe | `InOrder`, `SlotsFit`, `IdsDistinct`, `MailSpec`, `RequestIsBatch`; `IdRoundTrip`; `TextFits`, `ResponseFits`; `ListsFit`, `BusSpec` |
| `transport` | anything curl's contract allows, failing exchanges and requests | `TypeOK`, `TransferHasWakeup`, `NothingLeftUnread`, `SocketEventMatches`, `EveryRequestReported` |
| `system_live` | client on transport, with failing exchanges and a dropped request | `OutboxDriven`, `QueuedIsSent`, `HandshakeCompletes` |
| `pacing` | any advice, time | `TypeOK`, `NoneStopsLoop`, `ConnectTimerRunsOut`, `StartsOver` |
| `client_stray` | a reply with an id that is read as the invalid one | `FlushedIsHeld` is violated |
| `client_refused` | may refuse a handshake | `ClientIdAdded` is violated |
| `client_rehandshake` | may ask for a new handshake | `InFlightMarked` is violated |
| `client_silent` | a server that never answers | `SilenceEndsConnect` is violated |
| `channels_full` | 17 subscriptions, the numbers of the code | `ListsFit` is violated |
| `channels_unsubscribe` | a callback is unsubscribed | `PromisedSpec` is violated |

`client_matching` is the main safety run: with a server that does what it likes the
bookkeeping stays consistent. The one thing it may not do is reply with an id that
is read as `MSG_ID_INVALID`: that releases a message that was never sent, and then
`FlushedIsHeld` is false (`client_stray`). The other properties do not depend on it;
section 4 proves them for such ids too, and `data` has them for the queue by
itself. `RetryKept` says that a client that is going to connect again, and when
unconnected to try the handshake again (`RetryArmed`), still is after every step,
be it a refusal, an advice to start over, a timer or a call from a callback, except
when the advice "none" is in force then. In the run the server does all of that, "none"
included. `client_live` asks more because the handshake gate
and the kept slot index only work with a server that accepts the first handshake
and asks for no other; the violation runs show what happens without
that.

`MailSpec`, `BusSpec` and `PromisedSpec` are refinements: the abstract
specification, under a mapping given by `INSTANCE ... WITH`, is the property.
`system_live` shows that the
two fairness assumptions that `client_live` makes, that flushes run and that
exchanges are answered, come about over sockets and timers: the
transport's shared timer is not stopped while a transfer needs it, and no
message is left in curl's queue. Its properties make an exception for a dropped
request that carried the handshake, which keeps all other messages back for ever,
and say nothing of the dropped messages themselves, which stay marked in flight.

`NoneStopsLoop` speaks of the server's words and of what every step then does, so
that the table of names, the pending timers and the guards of both `issue_`
functions all have a part in it. `StartsOver` is the opposite obligation: an
advice "handshake" takes effect, although replies to older handshakes may still
come.

### Divergences found

1. **Messages without a client id** (`client_refused`). `recv_handshake` clears
   `handshake_msg_index` (B:745) before it knows the outcome. After a refusal
   the flush that ends the batch is a full one and sends the connect and the
   application's messages with no `clientId`, which the comments on the message
   builders (B:572, 606, 624) say is added when the message is sent.
2. **A handshake in flight that the outbox does not know** (`client_rehandshake`).
   `handshake_msg_index` is not adjusted when a reply removes a message before
   it (B:425-439). After advice "handshake" the flush then sends through a
   left-over slot (B:473) and marks that slot instead of the live one. The reply
   to it is unknown and dropped, and the gate stays closed until the advice in
   force starts yet another handshake. As long as replies carry the ids of
   messages, the left-over slot still points at a held message (`FlushedIsHeld`,
   which is proved), so a session is delayed or stuck, but no freed object is sent.
3. **A reply to a message that was not sent** (`client_stray`). An id that is read as
   `MSG_ID_INVALID` finds the first message that waits (B:276, 320, 522), where the
   comment (B:514) counts on "a matching msg id". Its handler runs, and it is
   removed and freed without having been sent. With an index as in 2 the next flush
   then sends an object that no live slot holds any more.
4. **Silence is never noticed** (`client_silent`): bayeux.h:44 describes a time
   limit that nothing implements.
5. **The list of subscriptions stops growing at 16** (`channels_full`). A full list
   gets the capacity `(capacity + 15) & ~15` (B:194): 4 becomes 16, and 16 stays
   16, so that the next subscription is stored behind the end. `RegistryFits`
   proves that this is the only way: up to 16 per channel everything fits.
6. **Unsubscribing does nothing to the registry** (`channels_unsubscribe`):
   bayeux.h:64 says that it "unsubscribes from the given channel"; the callback stays
   registered and is called for the next event (B:941, with a TODO).

Further divergences are plain to see in one place and have no run:
`bayeux_client_create` starts nothing although bayeux.h:55 says that it "begins
establishing a connection" (the first call does); `transport_open` ignores the
endpoint (T:66). A reply is taken for a successful handshake without `version` and
`supportedConnectionTypes`, which the comment at B:698 lists among what it MUST
contain. When curl gives no handle or does not take it (H:303, H:325) the request is
dropped while its messages count as in flight, for ever: nothing calls
`on_batch_send_err` (B:489), which is there for "when there was a transport error".
Durations have the wrong units: `interval_ms` is split with 1000000 (B:554), which
makes microseconds of it, and `timeout_ms` is put into the seconds (B:689), against
bayeux.h:43 and 44; the server's interval is treated in the same way.

### Bounds

* *Client.* `MaxCalled = 2` (no call while two messages are queued) lets a call add
  its own message behind a handshake and a connect, so queues of up to four or
  five messages arise, longer than `GrowBy = 2` (64 in the code), so the queue
  grows; a handshake, a connect and an application message side by side are what
  all interactions here need. `MaxQueued` keeps repeated handshakes (advice
  "handshake") from filling the queue. `MaxOpen = 2` gives the long poll and the
  second connection of the protocol. `MaxIds`/`MaxBatches` = 4 or 5 are two rounds
  of handshake, connect and message. In `client_live` the counters wrap around
  instead (`MSG_ID_INVALID = 4`, `BATCH_ID_INVALID = 1`), so that its state space
  is finite without a bound on ids, as a liveness property needs. One channel and
  one client id suffice: no decision compares two of either.
* *Outbox.* Three messages held and four pushed give every removal from the front,
  the middle and the end and a push after it; `MSG_ID_INVALID = 3` with five ids
  issued makes ids wrap around and meet an old one still in flight, and the invalid
  id comes with a reply at any time.
* *Messages and buffers.* Two digits to base 4 have ids of both widths and the
  widest one, and an unsigned long of four digits (`ULong = 256`) is wider than an
  id; the lengths lie at the edges of the doubling (2047), of the rounding
  to 2048 and of the mask (4093).
* *Channels.* Two names, two callbacks, lists that grow from 1 to 4 and get up to 3
  subscriptions: the array of channels and each list grow while a delivery runs in
  it. `channels_full` has the code's own 64, 4 and 16.
* *Transport.* Two transfers share the timer; every combination of what curl may
  watch a socket for.
* *System.* `MaxCalled = 1` and one call, "subscribe", with ids that wrap around at 3;
  `MaxLost = 1` request that cannot be made. The client alone and the transport
  alone are checked more widely in their own runs.
* *Pacing.* A millisecond of 2 microseconds and a second of 2 milliseconds: the
  three units differ, and the delays stay small. The server's intervals are -2 and 5,
  the latter longer than a second (they are in `PacingMC`, because a .cfg has no
  negative numbers).

Deadlock is checked for `Pacing`. Elsewhere it is not: a destroyed, closed or
faulted process is at its end, a client that has been advised "none" may rightly
have nothing to do, and the bounds stop the safety runs.

### Fairness

`LoopFairness`: a timer whose callback can run again and again does run, strongly
fair because a stream of batches may disable it in between (libevent runs every
expired timer before it waits again); a batch ends, because a response is a finite array,
strongly fair because callbacks interrupt it; a callback returns. Nothing is
assumed of the application. `ServerFairness`, only for `client_live`: the server
responds to exchanges and in the end answers the handshake. It need not answer
a connect or any other message for what is claimed.

`Transport!FairSpec`: libevent runs the expired timer, the loop of
`check_curl_multi` and the callback in it end, and the server answers: a transfer
for which curl is called again and again ends at last. `BayeuxSystem!FairSpec` is
the same of both parts, plus a handshake that is answered at last. The
calls into curl themselves are driven only by the weakly fair timer and by the
transfers' ends, so that a timer stopped too early does stop everything; its
faulty variant shows that. `Pacing!FairSpec`: time goes on and libevent runs a timer
that has run out.

## 4. What is proved

`TypeCorrect`, `OneConnect`, `ArraysParallel`, `FlushesHeld`, `NoWakeupLost`
and `OutboxStaysDriven` state the like-named properties of `client_matching` for
every value of the constants: any queue length, number of exchanges, ids and
channels, and any server; only `FlushesHeld` has the hypothesis that replies carry
the ids of messages (`~StrayIds`, and `ObjectsApart` for objects to be told apart).
They assume `QueueAssumption` and
`ClientAssumption` only (the invalid ids and the growth are positive, the
server's advices and outcomes are among those the code distinguishes, the bounds
are natural numbers).

* `MsgQueueProofs` describes each queue operation slot by slot
  (`PushSlots`, `RemoveSlots`, `AssignSlots`, `FindType`) and shows that each
  returns a queue; nothing else expands an operation. `IdAfterType` is the fact
  that the counters step over the invalid id at every wrap-around.
* `TypeCorrect` is inductive by itself. Its interesting conjuncts are
  `handshake_msg_index \in -1 .. written - 1` and the ids.
* `OneConnect`: `SingleConnect` is inductive relative to `TypeOK`. The invariant
  must speak of handlers and not of messages, because a reply is recognised by
  its handler; `RemoveConnects` shows that removing another message keeps the
  number of connects and removing the only one leaves none.
* `ArraysParallel` is inductive relative to `TypeOK`.
* The wake-up theorems: `Woken == NoLostWakeup /\ OutboxDriven` is inductive
  relative to `TypeOK`, whatever ids replies carry. Leaving the event loop gives up
  nothing, because the batch that ends with a message in the outbox schedules a
  flush; `FlushMarks` says that after a flush nothing is left to send.
* `FlushesHeld` needs a strengthening, and `~StrayIds`. `Held` says that whatever
  slot `handshake_msg_index` denotes, live or left over, is in flight or refers to
  the object of a message that waits in the live part. `RemoveHeld` is the heart:
  `memmove` never drops a message that waits, because only a message in flight is
  removed. With stray ids the last step is false, as `client_stray` shows.
* `RetryIsKept`: `RetryKept` needs one fact from the past, that the handshake timer
  is only pending after something was queued (`TimerAfterCall`).

Two groups of theorems have a hypothesis, which is part of the statement:

* *Message ids not wrapped around* (`MaxIds < MSG_ID_INVALID`, 2^32 - 1 ids in the
  code): `IdsUnique`, `RepliesReachHandler`, `MarkedStaysOnWire`. The inductive
  invariant `Sent` joins the three properties, which are not inductive
  separately (uniqueness is what keeps a removed reply from being the only
  carrier of another message's id), and adds that all ids, on the wire and in the
  outbox with its left-over slots, are below `message_id`. `FlushIds` then gives
  that new ids meet no old one.
* *Calm server* (`Calm`: it accepts the handshake, never asks for another and
  replies with the ids of messages):
  `ClientIdAlwaysAdded`, `HandshakeIndexStaysLive`, and with the first hypothesis
  `InFlightStaysMarked`. The invariant `Gate` describes the three phases of a
  session: before the first call nothing is under way at all (`BeforeCall`); until
  the handshake is answered it is in slot 0 and is the only message in flight
  (`AtGate`), so that nothing can be removed before it; afterwards there is an id.
  That `Calm` cannot be dropped is what `client_refused` and
  `client_rehandshake` show.

`ChannelsProofs`:

* `RegistryFits`: no array overflows as long as a channel gets no more
  subscriptions than the first growth of its list provides, `GrownList(FirstCapacity)`.
  (It also assumes that this bound is not below the first capacity, so that a list
  can be full at all.) The hypothesis is needed, as `channels_full` shows; the invariant is that a list
  has either its first capacity or that one.
* `RegistryImplementsBus`: `Spec => Bus!Spec`, for any channels and callbacks. The
  invariant `Position` says that the loops stay inside what they have counted, and
  on a channel of the event's name: subscribing adds at the ends only, so that
  neither a channel nor a callback changes its place under a delivery. `Registry` says that channels have different names, so that the
  outer loop finds one channel at most. Each action is then shown to be a step of
  the bus or to leave the mapped variables alone. It is the bus whose callbacks
  cannot be withdrawn (`Withdrawable` is empty); the other one is refuted by
  `channels_unsubscribe`.

`OutboxProofs`, for queues of any length and ids that may have wrapped around:

* `QueueFits` and `OldestFirst`. The invariant `Inv` adds to `SlotsFit` and `InOrder`
  that a live slot holds a pushed message with its own handler and has a batch id
  exactly when it has a message id (`Aligned`): removal moves all four arrays by
  the same step, and a new message is younger than those held.
* `IdsApart`. `Numbered` says that the id of the n-th message sent is `n` modulo
  `MSG_ID_INVALID`: stepping over the invalid id is counting modulo. Two numbers
  with the same remainder are at least one cycle apart (`SameRemainder`).
* `QueueImplementsMailbox`: `Spec => MailSpec`. By `InOrder` a message is in one slot only, so
  that the mapping from slots to sets of messages is injective; each operation on the arrays is then
  a step of `Mailbox`. That the first slot with an id is the oldest message with that id is
  `FindsOldest`, also for the invalid id, under which it is the oldest that waits.
* `RequestsAreBatches`: `Spec => RequestIsBatch`. The text is computed by a recursive
  function over the slots. Induction over it is avoided: `Line` gives the text
  after n slots outright (token 1 is the bracket, token 2k + 2 the message of the
  slot with rank k, the others are commas), `LineGrows` shows that it solves the
  equation of the recursive function, and at the least slot where another solution
  differed from it both are computed from the same prefix. `RanksFill` (each rank
  below the number of slots is that of one slot) and `BatchByAge` (the rank of a slot is
  that of its message in the batch) relate it to the property.

`TransportProofs`, for any number of transfers and whatever curl asks for within
its contract: `TypeCorrect`, `TransfersDriven`, `AnswersRead`, `SocketsWatched`. The inductive
invariant is that contract as it survives each callback (`CurlDriven`): a
transfer under way has its socket watched, or else curl waits for a time; and
while there are transfers and curl waits for a time, the timer that all of them
share is pending. `on_ev_event` stops that timer on a count taken before the
callbacks ran; `CountKept` says that the count is still right when it is used.

`BayeuxSystemProofs`: `SystemImplementsClient` and `SystemImplementsTransport` show that
the composition, seen through the variables of either part, is that part: each
action of the system is an action of the client, of the transport, or of both at
once. So the theorems about the parts hold of the system
(`TypeCorrect`, `OutboxStaysDriven`, `TransfersDriven`, `AnswersRead` are used as
such, for the instances of the modules). `OutboxDrivenEndToEnd` needs one more fact, `ExchangesCounted`:
unless a request was dropped, the client's counter of open exchanges is the
number of transfers not yet reported. Then "an exchange is open" means that a
transfer exists, and that transfer has its wake-up.

`DetailsProofs`:

* `TextsFit` and `ResponsesFit`: neither buffer is written past its end. The
  invariant adds that the length stays below the bound, so that no sum wraps around;
  `And4093` is shown to lose at most 4093 of what `Rounded` adds.
* `IdsRoundTrip`: no id loses a digit on its way through the text, for any base
  above 1 and any number of digits above 0 (`DigitsAssumption`; 16 and 8 in the
  code). Writing (`Hex`), reading (`Value`) and the number of ids (`Power`) are
  defined by recursion, and a definition says nothing until a function that satisfies
  it is known to exist. `Recursion` shows that one does, for any equation whose
  right side at n depends on values below n: solutions up to n agree
  (`SolutionsAgree`), each can be extended (`SolutionsExist`), and their diagonal solves
  the whole. Then one more digit multiplies by the base and adds
  (`ValueOfAppend`), so that the least number read back wrongly, or written with more
  digits than its size allows, cannot exist (`HexReads`). Such text is all digits
  (`LeadingAll`), so that `strtoul` reads just that number (`NumberReads`). A missing
  key must be none of the values the client writes (`MissingAssumption`).
* `PacingTypeCorrect` and `LoopStops`, for any strings, units and intervals, also
  negative ones. The invariant (`PacingInv`) ties the server's words to the
  enumeration: while "none" is the last advice understood, the value in force is the
  one that the guards of a handshake and of a connect compare with.

The assumptions are named in the modules that declare the constants, and TLC
evaluates each with the runs that use the module: `QueueAssumption`,
`ClientAssumption`, `OutboxAssumption`, `TransportAssumption`, `ChannelsAssumption`,
`BuffersAssumption`, `PacingAssumption`, `DigitsAssumption`, `MissingAssumption`, and `SystemAssumption`,
which is those of the two parts for the system's constants.

Every safety property of the passing runs is thus also a theorem, some under the
hypotheses above. Only
model-checked are:

* The liveness properties (`ConnectRenewed`, `WaitingIsSent`, `QueuedIsSent`,
  `HandshakeCompletes`, `EveryRequestReported`, `ConnectTimerRunsOut`, `StartsOver`):
  fairness is out of the
  prover's reach.
* The counterexamples of the `violation` runs, of course.

## 5. Plan

Done: the modules of section 2, their runs, the theorems of section 4. Next:

* What the safety part of the liveness argument says for any number of messages, with
  replies that carry the ids of messages: only a flush ends a message's waiting, and
  a removal brings every message behind it closer to the front.

## 6. Not modelled

Logging, the sample and the build files: no state that a property is about.
json-c's parsing and printing, curl and libevent are external: the modules say
what is assumed of them. What happens after the process has run into a response
that is not a JSON array, and what `curl_multi_cleanup` leaves behind when the
transport is destroyed with transfers under way (H:287), is not followed further.
