------------------------------ MODULE Messages ------------------------------
(***************************************************************************)
(* The messages of src/src/bayeux.c as JSON objects: how the client builds *)
(* them, with an id written in hexadecimal, and what it reads from a       *)
(* reply, with the typed lookups of src/src/json_util.c.  BayeuxClient     *)
(* works with the outcome of that: the id, the advice, and whether a       *)
(* handshake succeeded, was refused or is malformed.                       *)
(*                                                                         *)
(* An object is a record with a value for every key the client looks at,   *)
(* or Missing for a key it does not have; a value is a type and what it    *)
(* is.  The text of an id is a sequence of characters: a digit is what it  *)
(* counts, and two numbers below 0 stand for the minus sign and for every  *)
(* other character.  An id has Digits digits to the base Base at most: 8   *)
(* and 16 in the code.                                                     *)
(***************************************************************************)
EXTENDS Integers, Sequences

CONSTANTS
  Base, Digits,
  ULong,           \* the numbers of an unsigned long: 2^64 in most builds
  Missing

Types == {"connect", "handshake", "publish", "subscribe", "unsubscribe"}

\* Base to the power of k: there are Power[Digits] ids.
Power[k \in Nat] == IF k = 0 THEN 1 ELSE Base * Power[k - 1]

ASSUME DigitsAssumption ==
  /\ Base \in Nat /\ Base > 1 /\ Digits \in Nat \ {0}
  /\ ULong \in Nat /\ ULong >= Power[Digits]

MessageIds == 0 .. Power[Digits] - 2      \* all but MSG_ID_INVALID

\* A behaviour is one message and its reply.
VARIABLES
  msg_id, sent,     \* the message sent last, and its id
  reply,            \* the reply to it
  read              \* what the client makes of the reply

messages == <<msg_id, sent, reply, read>>

-----------------------------------------------------------------------------
(* json_util.c *)

Str(s) == [type |-> "string", val |-> s]
Bool(b) == [type |-> "boolean", val |-> b]
Number(i) == [type |-> "int", val |-> i]
Object(o) == [type |-> "object", val |-> o]

\* A value is of use only if it is there and has the type.
Typed(json, key, type) ==
  IF json[key] = Missing \/ json[key].type # type THEN Missing ELSE json[key].val

json_get_bool(json, key) == Typed(json, key, "boolean")
json_get_int(json, key) == Typed(json, key, "int")
json_get_string(json, key) == Typed(json, key, "string")

json_set_string(json, key, s) == [json EXCEPT ![key] = Str(s)]
json_set_object(json, key, o) == [json EXCEPT ![key] = Object(o)]

Empty ==
  [k \in {"channel", "clientId", "connectionType", "data", "id", "subscription",
          "supportedConnectionTypes", "version", "successful", "advice"} |-> Missing]

-----------------------------------------------------------------------------
(* Building messages *)

make_connect ==
  json_set_string(json_set_string(Empty, "channel", "/meta/connect"),
                  "connectionType", "long-polling")

make_handshake ==
  json_set_object(json_set_string(json_set_string(Empty, "channel", "/meta/handshake"),
                                  "version", "1.0"),
                  "supportedConnectionTypes", <<"long-polling">>)

\* Text that is not JSON is parsed to nothing.
make_publish(channel, data) ==
  [json_set_string(Empty, "channel", channel) EXCEPT !["data"] = data]

make_subscribe(channel) ==
  json_set_string(json_set_string(Empty, "channel", "/meta/subscribe"), "subscription", channel)

make_unsubscribe(channel) ==
  json_set_string(json_set_string(Empty, "channel", "/meta/unsubscribe"), "subscription", channel)

\* The digits of a number, the first one first.
Hex[n \in Nat] == IF n < Base THEN <<n>> ELSE Append(Hex[n \div Base], n % Base)

\* Faulty: a buffer with no room for the terminator besides the digits.
IdTextShort(id) == SubSeq(Hex[id], 1, IF Len(Hex[id]) < Digits THEN Len(Hex[id]) ELSE Digits - 1)

\* snprintf with "%x" into a buffer for Digits digits and the terminator.
IdText(id) == SubSeq(Hex[id], 1, IF Len(Hex[id]) < Digits THEN Len(Hex[id]) ELSE Digits)

\* A key that is missing has no value, and none that only lacks a type.
ASSUME MissingAssumption ==
  /\ \A b \in BOOLEAN : Missing # b /\ Missing # Bool(b)
  /\ \A s \in {"/meta/handshake", "k"} : Missing # s /\ Missing # Str(s)
  /\ \A id \in MessageIds : Missing # IdText(id) /\ Missing # Str(IdText(id))

\* What msg_queue_flush adds: the id, and the client id once there is one.
Flushed(json, id, client_id) ==
  LET with_id == json_set_string(json, "id", IdText(id))
  IN  IF client_id = Missing THEN with_id ELSE json_set_string(with_id, "clientId", client_id)

Make(type) ==
  CASE type = "connect" -> make_connect
    [] type = "handshake" -> make_handshake
    [] type = "publish" -> make_publish("/c", Number(1))
    [] type = "subscribe" -> make_subscribe("/c")
    [] type = "unsubscribe" -> make_unsubscribe("/c")

-----------------------------------------------------------------------------
(* Reading replies *)

Minus == -1
Other == -2
Digit == 0 .. Base - 1

\* The digits that a text begins with.
Leading(text) ==
  LET n == CHOOSE n \in 0 .. Len(text) :
             /\ \A i \in 1 .. n : text[i] \in Digit
             /\ n < Len(text) => text[n + 1] \notin Digit
  IN  SubSeq(text, 1, n)

\* The number that the digits stand for.
Value(digits) ==
  LET value[i \in 0 .. Len(digits)] ==
        IF i = 0 THEN 0 ELSE value[i - 1] * Base + digits[i]
  IN  value[Len(digits)]

\* Text without digits is 0, too many digits give the largest number, and a minus
\* sign counts down from there.  Spaces, "+" and "0x", which strtoul passes over
\* at the beginning of the text, are left out.
strtoul(text) ==
  LET negative == Len(text) > 0 /\ text[1] = Minus
      value == Value(Leading(IF negative THEN Tail(text) ELSE text))
  IN  IF value >= ULong THEN ULong - 1 ELSE IF negative THEN (ULong - value) % ULong ELSE value

\* Cut to the width of an id.
ParsedId(text) == strtoul(text) % Power[Digits]

json_get_msg_id(json) ==
  IF json_get_string(json, "id") = Missing THEN Missing ELSE ParsedId(json_get_string(json, "id"))

\* handle_advice: what it takes from the message.
ReadAdvice(json) ==
  IF json["advice"] = Missing THEN [reconnect |-> Missing, interval |-> Missing]
  ELSE [reconnect |-> json_get_string(json["advice"].val, "reconnect"),
        interval  |-> json_get_int(json["advice"].val, "interval")]

\* recv_handshake_success.
HandshakeSuccess(json) ==
  IF json_get_string(json, "channel") # "/meta/handshake" \/ json_get_string(json, "clientId") = Missing
  THEN "failure" ELSE "success"

\* recv_handshake.
HandshakeOutcome(json) ==
  IF json_get_bool(json, "successful") = Missing THEN "malformed"
  ELSE IF json_get_bool(json, "successful") THEN HandshakeSuccess(json)
  ELSE "failure"

\* on_msg_recv: the advice always; of an event neither the id nor the rest.
Read(json) ==
  IF json["data"] # Missing
  THEN [event |-> TRUE, advice |-> ReadAdvice(json), id |-> Missing, outcome |-> Missing]
  ELSE [event |-> FALSE, advice |-> ReadAdvice(json), id |-> json_get_msg_id(json),
        outcome |-> HandshakeOutcome(json)]

-----------------------------------------------------------------------------
NoMessage == msg_id = Missing /\ sent = Missing /\ reply = Missing /\ read = Missing

Send(type, id, client_id) ==
  /\ sent = Missing
  /\ msg_id' = id
  /\ sent' = Flushed(Make(type), id, client_id)
  /\ UNCHANGED <<reply, read>>

\* What a server may say.  Its id is the one that was sent, none, or one that
\* stands for a number nobody wrote: no digits, a minus sign, too many digits.
Ids == {sent["id"], Missing, Number(1)} \cup
       {Str(text) : text \in {<<>>, <<1, Other>>, <<Minus, 1>>, <<1, 0, 0, 0, 0>>}}
Advices ==
  {Missing} \cup {Object([reconnect |-> r, interval |-> i]) :
                   r \in {Missing, Str("retry")}, i \in {Number(5), Str("5")}}

Reply ==
  /\ sent # Missing /\ reply = Missing
  /\ \E id \in Ids, data \in {Missing, Number(1)},
        successful \in {Missing, Bool(TRUE), Bool(FALSE)},
        channel \in {Missing, Str("/meta/handshake"), Str("/c")},
        client_id \in {Missing, Str("k")}, advice \in Advices :
       \/ reply' = [Empty EXCEPT !["id"] = id, !["data"] = data, !["successful"] = successful,
                                 !["channel"] = channel, !["clientId"] = client_id,
                                 !["advice"] = advice]
       \/ reply' = [make_handshake EXCEPT !["id"] = id, !["data"] = data,
                                          !["successful"] = successful,
                                          !["channel"] = channel, !["clientId"] = client_id,
                                          !["advice"] = advice]
  /\ read' = Read(reply')
  /\ UNCHANGED <<msg_id, sent>>

MessageStep ==
  \/ \E type \in Types, id \in MessageIds, client_id \in {Missing, "k"} : Send(type, id, client_id)
  \/ Reply

MessagesSpec == NoMessage /\ [][MessageStep]_messages

-----------------------------------------------------------------------------
\* The number a reply is matched by is the one the message was sent under: no
\* id loses a digit on its way through the text, up to the widest.
IdRoundTrip ==
  reply # Missing /\ reply["id"] = sent["id"] /\ reply["data"] = Missing => read.id = msg_id

=============================================================================
