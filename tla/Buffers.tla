------------------------------ MODULE Buffers -------------------------------
(***************************************************************************)
(* The two growing buffers of an HTTP exchange: the request is collected   *)
(* in a Str (src/src/str.c), the response in the data of a ConnInfo        *)
(* (on_curl_write, src/src/transport_http_long_polling.c).                 *)
(*                                                                         *)
(* Contents are abstracted to their length.  What the module keeps instead *)
(* is how far a call writes: end is the index behind the last byte that    *)
(* the latest call has stored, the terminating zero included, computed     *)
(* without the wrap-around that the fields of the code are subject to.     *)
(*                                                                         *)
(* One exchange is followed at a time, as the buffers of different ones    *)
(* share nothing: its request is collected, sent and freed in one handler, *)
(* and the response is written after that.                                 *)
(***************************************************************************)
EXTENDS Integers

CONSTANTS
  UIntModulus,  \* 2^32 in the code: values of an unsigned int
  Lengths,      \* lengths of strings and chunks, and capacities asked for
  MaxLength,    \* bound: longest text and longest response
  NIL           \* no buffer: NULL in the code

ASSUME BuffersAssumption ==
  /\ UIntModulus \in Nat /\ UIntModulus >= 4096
  /\ Lengths \subseteq 0 .. UIntModulus - 1
  /\ MaxLength \in Nat
  /\ MaxLength + 2048 < UIntModulus  \* room for one rounding below the wrap-around

VARIABLES
  str,   \* the Str, or NIL
  conn   \* data, data_capacity and data_count of the ConnInfo, or NIL

buffers == <<str, conn>>

UInt(n) == n % UIntModulus

NoBuffers == str = NIL /\ conn = NIL

-----------------------------------------------------------------------------
(* str.c *)

\* need & ~2047
Align2048(need) == need - (need % 2048)

\* The capacity after str_expect for a string that ends at need.
Grown(capacity, need) ==
  IF need < capacity THEN capacity
  ELSE IF need < 2048 THEN UInt(need * 2)
  ELSE Align2048(UInt(need + 2047))

\* Faulty: what is appended must fit alone.
NeedAlone(len, n) == UInt(n + 1)

\* What str_expect finds it needs for n more characters behind len.
Need(len, n) == UInt(len + n + 1)

StrAlloc(capacity) ==
  /\ str = NIL /\ conn = NIL /\ capacity <= MaxLength
  /\ str' = [len |-> 0, capacity |-> UInt(capacity + 1), end |-> 1]
  /\ UNCHANGED conn

StrCat(n) ==
  /\ str # NIL /\ conn = NIL /\ str.len + n <= MaxLength
  /\ str' = [len      |-> UInt(str.len + n),
             capacity |-> Grown(str.capacity, Need(str.len, n)),
             end      |-> str.len + n + 1]
  /\ UNCHANGED conn

StrClear ==
  /\ str # NIL /\ conn = NIL
  /\ str' = [len |-> 0, capacity |-> str.capacity, end |-> 1]
  /\ UNCHANGED conn

\* Hands str_expect the difference of the capacities as if it were the length
\* of a string to be appended.
StrReserve(capacity) ==
  /\ str # NIL /\ conn = NIL /\ str.len + capacity <= MaxLength
  /\ str' = [str EXCEPT !.capacity =
               IF @ < capacity THEN Grown(@, Need(str.len, UInt(capacity - @))) ELSE @]
  /\ UNCHANGED conn

StrFree ==
  /\ str # NIL
  /\ str' = NIL
  /\ UNCHANGED conn

-----------------------------------------------------------------------------
(* The response *)

\* x & 4093.  4093 is 111111111101 in binary: bit 1 stays out of the mask.
And4093(x) == (x % 4096) - 2 * ((x \div 2) % 2)

\* Faulty: no room for the terminator.
RoundedStingy(needed) == needed + 4092 - And4093(needed + 4092)

\* (size_needed + 4093) & ~4093
Rounded(needed) == needed + 4093 - And4093(needed + 4093)

\* transport_http_long_polling_request: a ConnInfo without data.
ConnCreate ==
  /\ str # NIL /\ conn = NIL
  /\ conn' = [capacity |-> 0, count |-> 0, end |-> 0]
  /\ UNCHANGED str

OnCurlWrite(bytes) ==
  /\ str = NIL /\ conn # NIL /\ conn.count + bytes <= MaxLength
  /\ LET needed == conn.count + bytes + 1
     IN  conn' = [capacity |-> IF needed > conn.capacity THEN Rounded(needed) ELSE conn.capacity,
                  count    |-> conn.count + bytes,
                  end      |-> needed]
  /\ UNCHANGED str

\* check_curl_multi frees the data it has handed on.
ConnFree ==
  /\ str = NIL /\ conn # NIL
  /\ conn' = NIL
  /\ UNCHANGED str

-----------------------------------------------------------------------------
BufferCall ==
  \/ \E n \in Lengths : StrAlloc(n) \/ StrCat(n) \/ StrReserve(n) \/ OnCurlWrite(n)
  \/ StrClear \/ StrFree \/ ConnCreate \/ ConnFree

BuffersSpec == NoBuffers /\ [][BufferCall]_buffers

\* No call on a Str writes past the memory the Str has, whatever was appended,
\* cleared and reserved before: doubling, rounding and the early return of
\* str_expect always leave room for the text and its terminator.
TextFits == str # NIL => str.end <= str.capacity

\* The response and its terminator fit however it is cut into chunks, although
\* 4093 is not the mask of a power of two.
ResponseFits == conn # NIL => conn.end <= conn.capacity
=============================================================================
