--------------------------- MODULE DetailsProofs ----------------------------
(***************************************************************************)
(* Theorems about what BayeuxClient and Transport leave out: the memory    *)
(* messages are written to (Buffers), what a message says (Messages) and   *)
(* how long the client waits (Pacing).                                     *)
(***************************************************************************)
EXTENDS Buffers, Messages, Pacing, SequenceTheorems, WellFoundedInduction, TLAPS

-----------------------------------------------------------------------------
(* Buffers *)

\* No conversion to unsigned int cuts off a value below the wrap-around.
LEMMA UIntSmall ==
  ASSUME NEW n \in Nat, n < UIntModulus
  PROVE  UInt(n) = n
BY BuffersAssumption DEF UInt

LEMMA Align2048Bounds ==
  ASSUME NEW need \in Nat
  PROVE  /\ Align2048(need + 2047) \in Nat
         /\ Align2048(need + 2047) >= need
         /\ Align2048(need + 2047) < need + 2048
BY DEF Align2048

\* str_expect provides what is needed and never gives memory back.
LEMMA GrownBounds ==
  ASSUME NEW capacity \in Nat, NEW need \in Nat \ {0}, need <= MaxLength + 1
  PROVE  /\ Grown(capacity, need) \in Nat
         /\ Grown(capacity, need) >= need
         /\ Grown(capacity, need) >= capacity
<1>1. CASE need < capacity
  BY <1>1 DEF Grown
<1>2. CASE need >= capacity /\ need < 2048
  <2>1. UInt(need * 2) = need * 2
    BY <1>2, UIntSmall, BuffersAssumption
  <2>2. Grown(capacity, need) = need * 2
    BY <1>2, <2>1 DEF Grown
  <2> QED BY <1>2, <2>2
<1>3. CASE need >= capacity /\ need >= 2048
  <2>1. UInt(need + 2047) = need + 2047
    BY UIntSmall, BuffersAssumption
  <2>2. Grown(capacity, need) = Align2048(need + 2047)
    BY <1>3, <2>1 DEF Grown
  <2> QED BY <1>3, <2>2, Align2048Bounds
<1> QED BY <1>1, <1>2, <1>3

\* The odd mask of on_curl_write never takes away more than was added.
LEMMA RoundedBounds ==
  ASSUME NEW needed \in Nat
  PROVE  Rounded(needed) \in Nat /\ Rounded(needed) >= needed
<1> DEFINE x == needed + 4093
<1>1. And4093(x) \in Nat /\ And4093(x) <= 4093
  BY DEF And4093
<1> QED BY <1>1 DEF Rounded

-----------------------------------------------------------------------------
\* What every call leaves behind.  The length of the text never exceeds the
\* bound, so that no addition wraps around, and end covers at least the
\* terminator of an empty text.
StrInv ==
  str # NIL =>
    /\ str = [len |-> str.len, capacity |-> str.capacity, end |-> str.end]
    /\ str.len \in Nat /\ str.capacity \in Nat /\ str.end \in Nat
    /\ str.len <= MaxLength
    /\ 1 <= str.end /\ str.end <= str.capacity

ConnInv ==
  conn # NIL =>
    /\ conn = [capacity |-> conn.capacity, count |-> conn.count, end |-> conn.end]
    /\ conn.capacity \in Nat /\ conn.count \in Nat /\ conn.end \in Nat
    /\ conn.end <= conn.capacity

\* A new buffer, or one record in place of another, satisfies the invariant.
LEMMA StrInvIntro ==
  ASSUME NEW len \in Nat, NEW capacity \in Nat, NEW end \in Nat,
         len <= MaxLength, 1 <= end, end <= capacity,
         str' = [len |-> len, capacity |-> capacity, end |-> end]
  PROVE  StrInv'
BY DEF StrInv

LEMMA StrStep ==
  ASSUME StrInv, NEW n \in Lengths, StrAlloc(n) \/ StrCat(n) \/ StrReserve(n)
  PROVE  StrInv'
<1>0. n \in Nat /\ n < UIntModulus /\ MaxLength \in Nat /\ MaxLength + 2048 < UIntModulus
  BY BuffersAssumption
<1>1. CASE StrAlloc(n)
  <2>1. UInt(n + 1) = n + 1
    <3>1. n + 1 \in Nat /\ n + 1 < UIntModulus
      BY <1>0, <1>1, BuffersAssumption DEF StrAlloc
    <3> QED BY ONLY <3>1, UIntSmall
  <2>2. str' = [len |-> 0, capacity |-> n + 1, end |-> 1]
    BY <1>1, <2>1 DEF StrAlloc
  <2> QED BY <1>0, <2>2, StrInvIntro
<1>2. CASE StrCat(n)
  <2>1. str.len \in Nat /\ str.capacity \in Nat /\ str.len + n <= MaxLength
    BY <1>2 DEF StrCat, StrInv
  <2>2. UInt(str.len + n) = str.len + n /\ Need(str.len, n) = str.len + n + 1
    <3>1. /\ str.len + n \in Nat /\ str.len + n < UIntModulus
          /\ str.len + n + 1 \in Nat /\ str.len + n + 1 < UIntModulus
      BY <1>0, <2>1, BuffersAssumption
    <3> QED BY ONLY <3>1, UIntSmall DEF Need
  <2>3. /\ Grown(str.capacity, Need(str.len, n)) \in Nat
        /\ Grown(str.capacity, Need(str.len, n)) >= str.len + n + 1
    BY <1>0, <2>1, <2>2, GrownBounds
  <2>4. str' = [len |-> str.len + n, capacity |-> Grown(str.capacity, Need(str.len, n)),
                end |-> str.len + n + 1]
    BY <1>2, <2>2 DEF StrCat
  <2> QED BY <1>0, <2>1, <2>3, <2>4, StrInvIntro
<1>3. CASE StrReserve(n)
  <2>1. /\ str # NIL /\ str.len + n <= MaxLength
        /\ str = [len |-> str.len, capacity |-> str.capacity, end |-> str.end]
        /\ str.len \in Nat /\ str.capacity \in Nat /\ str.end \in Nat
        /\ str.len <= MaxLength /\ 1 <= str.end /\ str.end <= str.capacity
    BY <1>3 DEF StrReserve, StrInv
  <2> DEFINE c == IF str.capacity < n
                  THEN Grown(str.capacity, Need(str.len, UInt(n - str.capacity)))
                  ELSE str.capacity
  <2>2. c \in Nat /\ c >= str.capacity
    <3>1. CASE str.capacity < n
      <4> DEFINE d == n - str.capacity
                 need == str.len + d + 1
      <4>1. /\ d \in Nat /\ d < UIntModulus
            /\ need \in Nat \ {0} /\ need < UIntModulus /\ need <= MaxLength + 1
        BY <1>0, <2>1, <3>1, BuffersAssumption
      <4>2. UInt(d) = d
        BY <4>1, UIntSmall
      <4>3. UInt(need) = need
        BY <4>1, UIntSmall
      <4>4. Need(str.len, UInt(d)) = need
        BY <4>2, <4>3 DEF Need
      <4>5. c = Grown(str.capacity, need)
        BY <3>1, <4>4
      <4> HIDE DEF d, need, c
      <4> QED BY <2>1, <4>1, <4>5, GrownBounds
    <3> QED BY <2>1, <3>1
  <2>3. str' = [len |-> str.len, capacity |-> c, end |-> str.end]
    <3>1. str' = [str EXCEPT !.capacity = c]
      BY <1>3 DEF StrReserve
    <3> HIDE DEF c
    <3>2. QED BY <2>1, <3>1
  <2> HIDE DEF c
  <2> QED BY <2>1, <2>2, <2>3, StrInvIntro
<1> QED BY <1>1, <1>2, <1>3

LEMMA ConnStep ==
  ASSUME ConnInv, NEW n \in Lengths, OnCurlWrite(n)
  PROVE  ConnInv'
<1> DEFINE needed == conn.count + n + 1
           c == IF needed > conn.capacity THEN Rounded(needed) ELSE conn.capacity
<1>1. n \in Nat /\ conn.count \in Nat /\ conn.capacity \in Nat
  BY BuffersAssumption DEF OnCurlWrite, ConnInv
<1>2. conn' = [capacity |-> c, count |-> conn.count + n, end |-> needed]
  BY DEF OnCurlWrite
<1>3. needed \in Nat
  BY <1>1
<1> HIDE DEF needed
<1>4. c \in Nat /\ needed <= c
  BY <1>1, <1>3, RoundedBounds
<1> HIDE DEF c
<1> QED BY <1>1, <1>2, <1>3, <1>4 DEF ConnInv

LEMMA BuffersInvariance == BuffersSpec => [](StrInv /\ ConnInv)
<1>1. NoBuffers => StrInv /\ ConnInv
  BY DEF NoBuffers, StrInv, ConnInv
<1>2. StrInv /\ ConnInv /\ [BufferCall]_buffers => (StrInv /\ ConnInv)'
  <2> SUFFICES ASSUME StrInv, ConnInv, [BufferCall]_buffers
               PROVE  StrInv' /\ ConnInv'
    OBVIOUS
  <2>1. ASSUME NEW n \in Lengths, StrAlloc(n) \/ StrCat(n) \/ StrReserve(n)
        PROVE  StrInv' /\ ConnInv'
    <3>1. conn' = conn
      BY <2>1 DEF StrAlloc, StrCat, StrReserve
    <3> QED BY <2>1, <3>1, StrStep DEF ConnInv
  <2>2. ASSUME NEW n \in Lengths, OnCurlWrite(n)
        PROVE  StrInv' /\ ConnInv'
    <3>1. str' = str
      BY <2>2 DEF OnCurlWrite
    <3> QED BY <2>2, <3>1, ConnStep DEF StrInv
  <2>3. CASE StrClear
    <3>1. /\ str # NIL /\ str.capacity \in Nat /\ 1 <= str.capacity /\ conn' = conn
          /\ str' = [len |-> 0, capacity |-> str.capacity, end |-> 1]
      BY <2>3 DEF StrClear, StrInv
    <3> QED BY <3>1, StrInvIntro, BuffersAssumption DEF ConnInv
  <2>4. CASE StrFree
    BY <2>4 DEF StrFree, StrInv, ConnInv
  <2>5. CASE ConnCreate
    BY <2>5 DEF ConnCreate, StrInv, ConnInv
  <2>6. CASE ConnFree
    BY <2>6 DEF ConnFree, StrInv, ConnInv
  <2>7. CASE UNCHANGED buffers
    BY <2>7 DEF buffers, StrInv, ConnInv
  <2> QED BY <2>1, <2>2, <2>3, <2>4, <2>5, <2>6, <2>7 DEF BufferCall
<1> QED BY <1>1, <1>2, PTL DEF BuffersSpec

\* For every sequence of calls on a Str, with lengths that stay one rounding
\* below the wrap-around of an unsigned int, no byte is stored outside of the
\* memory that str_expect has asked for.
THEOREM TextsFit == BuffersSpec => []TextFits
<1>1. StrInv /\ ConnInv => TextFits
  BY DEF StrInv, TextFits
<1> QED BY <1>1, BuffersInvariance, PTL

\* However a response is cut into chunks, on_curl_write has room for each of
\* them and the terminator, although it does not round up to a power of two.
THEOREM ResponsesFit == BuffersSpec => []ResponseFits
<1>1. StrInv /\ ConnInv => ResponseFits
  BY DEF ConnInv, ResponseFits
<1> QED BY <1>1, BuffersInvariance, PTL

-----------------------------------------------------------------------------
(* Functions defined by recursion over the natural numbers *)

\* The least of some numbers.
LEMMA Least ==
  ASSUME NEW T \in SUBSET Nat, T # {}
  PROVE  \E i \in T : \A j \in T : i <= j
<1>1. IsWellFoundedOn(OpToRel(<, Nat), Nat)
  BY NatLessThanWellFounded
<1>2. PICK i \in T : \A j \in T : ~ (<<j, i>> \in OpToRel(<, Nat))
  BY <1>1, WFMin
<1>3. \A j \in T : ~ (j < i)
  BY <1>2 DEF OpToRel
<1> QED BY <1>3

\* The function g solves the equation up to n.
Solves(D, g, n) == \A i \in 0 .. n - 1 : g[i] = D[g][i]

\* What a solution is at n depends on its values below n only.
Contracts(D, V) ==
  /\ D \in [[Nat -> V] -> [Nat -> V]]
  /\ \A n \in Nat, g \in [Nat -> V], h \in [Nat -> V] :
       (\A i \in 0 .. n - 1 : g[i] = h[i]) => D[g][n] = D[h][n]

\* Two solutions up to n are the same up to n.
LEMMA SolutionsAgree ==
  ASSUME NEW V, NEW D, Contracts(D, V), NEW n \in Nat,
         NEW g \in [Nat -> V], NEW h \in [Nat -> V], Solves(D, g, n), Solves(D, h, n)
  PROVE  \A i \in 0 .. n - 1 : g[i] = h[i]
<1>1. PICK T : T = {i \in 0 .. n - 1 : g[i] # h[i]}
  OBVIOUS
<1> SUFFICES ASSUME T # {}
             PROVE  FALSE
  BY <1>1
<1>2. T \in SUBSET Nat
  BY <1>1
<1>3. PICK i \in T : \A j \in T : i <= j
  BY <1>2, Least
<1>4. i \in 0 .. n - 1 /\ i \in Nat /\ g[i] # h[i]
  BY <1>1, <1>2
<1>5. \A j \in 0 .. i - 1 : g[j] = h[j]
  <2> SUFFICES ASSUME NEW j \in 0 .. i - 1
               PROVE  g[j] = h[j]
    OBVIOUS
  <2>1. j \in 0 .. n - 1 /\ ~ (i <= j)
    BY <1>4
  <2> QED BY <1>1, <1>3, <2>1
<1>6. D[g][i] = D[h][i]
  BY <1>4, <1>5 DEF Contracts
<1> QED BY <1>4, <1>6 DEF Solves

\* There is a solution up to every n, by extending the one up to n - 1.
LEMMA SolutionsExist ==
  ASSUME NEW V, V # {}, NEW D, Contracts(D, V), NEW n \in Nat
  PROVE  \E g \in [Nat -> V] : Solves(D, g, n)
<1>1. PICK T : T = {m \in Nat : ~ \E g \in [Nat -> V] : Solves(D, g, m)}
  OBVIOUS
<1> SUFFICES ASSUME T # {}
             PROVE  FALSE
  BY <1>1
<1>2. T \in SUBSET Nat
  BY <1>1
<1>3. PICK m \in T : \A j \in T : m <= j
  BY <1>2, Least
<1>4. m # 0
  <2>1. PICK v \in V : TRUE
    OBVIOUS
  <2>2. [i \in Nat |-> v] \in [Nat -> V]
    OBVIOUS
  <2>3. Solves(D, [i \in Nat |-> v], 0)
    BY DEF Solves
  <2> QED BY <1>1, <2>2, <2>3
<1>5. m - 1 \in Nat /\ m - 1 \notin T /\ m \in Nat
  BY <1>2, <1>3, <1>4
<1>6. PICK g \in [Nat -> V] : Solves(D, g, m - 1)
  BY <1>1, <1>5
<1>7. PICK h : h = [g EXCEPT ![m - 1] = D[g][m - 1]]
  OBVIOUS
<1>8. D[g] \in [Nat -> V]
  BY DEF Contracts
<1>9. /\ h \in [Nat -> V] /\ h[m - 1] = D[g][m - 1]
      /\ \A i \in 0 .. m - 2 : h[i] = g[i]
  BY <1>5, <1>7, <1>8
<1>10. ASSUME NEW i \in 0 .. m - 1
       PROVE  h[i] = D[h][i]
  <2>1. i \in Nat /\ \A j \in 0 .. i - 1 : g[j] = h[j]
    BY <1>5, <1>9
  <2>2. D[g][i] = D[h][i]
    BY <1>9, <2>1 DEF Contracts
  <2>3. CASE i = m - 1
    BY <1>9, <2>2, <2>3
  <2>4. CASE i # m - 1
    <3>1. i \in 0 .. m - 2 /\ i \in 0 .. (m - 1) - 1
      BY <1>5, <2>4
    <3> QED BY <1>6, <1>9, <2>2, <3>1 DEF Solves
  <2> QED BY <2>3, <2>4
<1>11. Solves(D, h, m)
  BY <1>10 DEF Solves
<1> QED BY <1>1, <1>9, <1>11

\* Every such equation has a solution.
LEMMA Recursion ==
  ASSUME NEW V, V # {}, NEW D, Contracts(D, V)
  PROVE  \E f \in [Nat -> V] : f = D[f]
<1> DEFINE G(n) == CHOOSE g \in [Nat -> V] : Solves(D, g, n + 1)
           f == [n \in Nat |-> G(n)[n]]
<1>1. ASSUME NEW n \in Nat
      PROVE  G(n) \in [Nat -> V] /\ Solves(D, G(n), n + 1)
  <2>1. n + 1 \in Nat
    OBVIOUS
  <2> QED BY <2>1, SolutionsExist
<1> HIDE DEF G
<1>2. f \in [Nat -> V]
  BY <1>1
<1>3. ASSUME NEW n \in Nat, NEW i \in 0 .. n - 1
      PROVE  f[i] = G(n)[i]
  <2>1. i \in Nat /\ i + 1 \in Nat /\ i \in 0 .. (i + 1) - 1
    OBVIOUS
  <2>2. Solves(D, G(n), i + 1)
    <3>1. \A j \in 0 .. (i + 1) - 1 : j \in 0 .. (n + 1) - 1
      OBVIOUS
    <3> QED BY <1>1, <3>1 DEF Solves
  <2>3. G(i)[i] = G(n)[i]
    <3>1. PICK g, h : g = G(i) /\ h = G(n)
      OBVIOUS
    <3>2. /\ g \in [Nat -> V] /\ h \in [Nat -> V]
          /\ Solves(D, g, i + 1) /\ Solves(D, h, i + 1)
      BY <1>1, <2>1, <2>2, <3>1
    <3>3. \A j \in 0 .. (i + 1) - 1 : g[j] = h[j]
      BY ONLY <2>1, <3>2, Contracts(D, V), SolutionsAgree
    <3> QED BY <2>1, <3>1, <3>3
  <2> QED BY <2>1, <2>3
<1>4. ASSUME NEW n \in Nat
      PROVE  f[n] = D[f][n]
  <2>1. D[f][n] = D[G(n)][n]
    <3> HIDE DEF f
    <3> QED BY <1>1, <1>2, <1>3 DEF Contracts
  <2>2. G(n)[n] = D[G(n)][n]
    <3>1. n \in 0 .. (n + 1) - 1
      OBVIOUS
    <3> QED BY <1>1, <3>1 DEF Solves
  <2> QED BY <2>1, <2>2
<1>5. D[f] \in [Nat -> V]
  BY <1>2 DEF Contracts
<1>6. f = D[f]
  <2> HIDE DEF f
  <2> QED BY <1>2, <1>4, <1>5
<1> QED BY <1>2, <1>6

-----------------------------------------------------------------------------
(* Ids as text *)

\* What is left of a number without its last digit.
LEMMA Quotient ==
  ASSUME NEW n \in Nat, n >= Base
  PROVE  \E q \in Nat, r \in Nat : /\ q = n \div Base /\ r = n % Base
                                   /\ q < n /\ n = q * Base + r
<1>1. Base \in Nat /\ Base > 1
  BY DigitsAssumption
<1>2. PICK q, r : q = n \div Base /\ r = n % Base
  OBVIOUS
<1>3. q \in Nat /\ r \in 0 .. Base - 1 /\ n = Base * q + r
  BY <1>1, <1>2
<1>4. q > 0
  BY <1>1, <1>3
<1>5. PICK p : p = Base * q
  OBVIOUS
<1>6. p \in Nat /\ p = q * Base /\ p >= 2 * q
  BY <1>1, <1>3, <1>5
<1>7. q < n /\ n = q * Base + r
  BY <1>3, <1>4, <1>5, <1>6
<1>8. q \in Nat /\ r \in Nat
  BY <1>1, <1>3
<1> QED BY <1>2, <1>7, <1>8, Zenon

\* Power, Hex and Value satisfy the equations they are defined by.
LEMMA PowerSolves == Power = [k \in Nat |-> IF k = 0 THEN 1 ELSE Base * Power[k - 1]]
<1> DEFINE D == [g \in [Nat -> Nat] |-> [k \in Nat |-> IF k = 0 THEN 1 ELSE Base * g[k - 1]]]
<1>1. Contracts(D, Nat)
  <2>1. ASSUME NEW g \in [Nat -> Nat], NEW k \in Nat
        PROVE  (IF k = 0 THEN 1 ELSE Base * g[k - 1]) \in Nat
    <3>1. k # 0 => k - 1 \in Nat /\ g[k - 1] \in Nat
      OBVIOUS
    <3> QED BY <3>1, DigitsAssumption
  <2>2. ASSUME NEW g \in [Nat -> Nat], NEW h \in [Nat -> Nat], NEW k \in Nat,
               \A i \in 0 .. k - 1 : g[i] = h[i]
        PROVE  D[g][k] = D[h][k]
    <3>1. k # 0 => g[k - 1] = h[k - 1]
      BY <2>2
    <3> QED BY <3>1
  <2> QED BY <2>1, <2>2 DEF Contracts
<1>2. PICK f \in [Nat -> Nat] : f = D[f]
  <2> HIDE DEF D
  <2> QED BY <1>1, Recursion
<1>3. f = [k \in Nat |-> IF k = 0 THEN 1 ELSE Base * f[k - 1]]
  BY <1>2
<1>4. Power = CHOOSE p : p = [k \in Nat |-> IF k = 0 THEN 1 ELSE Base * p[k - 1]]
  BY DEF Power
<1> QED BY <1>3, <1>4

LEMMA HexSolves == Hex = [n \in Nat |-> IF n < Base THEN <<n>> ELSE Append(Hex[n \div Base], n % Base)]
<1> DEFINE V == Seq(Nat)
           D == [g \in [Nat -> V] |->
                   [n \in Nat |-> IF n < Base THEN <<n>> ELSE Append(g[n \div Base], n % Base)]]
<1>1. Contracts(D, V)
  <2>1. ASSUME NEW g \in [Nat -> V], NEW n \in Nat
        PROVE  (IF n < Base THEN <<n>> ELSE Append(g[n \div Base], n % Base)) \in V
    <3>1. CASE n < Base
      BY <3>1
    <3>2. CASE n >= Base
      <4>1. PICK q \in Nat, r \in Nat : q = n \div Base /\ r = n % Base
        BY <3>2, Quotient
      <4>2. Append(g[q], r) \in V
        BY AppendProperties
      <4>3. ~ (n < Base)
        BY <3>2, DigitsAssumption
      <4> QED BY <4>1, <4>2, <4>3
    <3> QED BY <3>1, <3>2, DigitsAssumption
  <2>2. ASSUME NEW g \in [Nat -> V], NEW h \in [Nat -> V], NEW n \in Nat,
               \A i \in 0 .. n - 1 : g[i] = h[i]
        PROVE  D[g][n] = D[h][n]
    <3>1. ASSUME n >= Base
          PROVE  n \div Base \in 0 .. n - 1
      <4>1. PICK q \in Nat : q = n \div Base /\ q < n
        BY <3>1, Quotient, Zenon
      <4>2. q \in 0 .. n - 1
        BY <4>1
      <4> QED BY <4>1, <4>2, Zenon
    <3>2. n >= Base => g[n \div Base] = h[n \div Base]
      BY <2>2, <3>1
    <3>3. n < Base \/ n >= Base
      BY DigitsAssumption
    <3> QED BY <3>2, <3>3
  <2> QED BY <2>1, <2>2 DEF Contracts
<1>2. V # {}
  BY EmptySeq
<1>3. PICK f \in [Nat -> V] : f = D[f]
  <2> HIDE DEF D, V
  <2> QED BY <1>1, <1>2, Recursion
<1>4. f = [n \in Nat |-> IF n < Base THEN <<n>> ELSE Append(f[n \div Base], n % Base)]
  BY <1>3
<1>5. Hex = CHOOSE p : p = [n \in Nat |-> IF n < Base THEN <<n>> ELSE Append(p[n \div Base], n % Base)]
  BY DEF Hex
<1> QED BY <1>4, <1>5

LEMMA ValueSolves ==
  ASSUME NEW s \in Seq(Nat)
  PROVE  \E v : /\ Value(s) = v[Len(s)]
                /\ v = [i \in 0 .. Len(s) |-> IF i = 0 THEN 0 ELSE v[i - 1] * Base + s[i]]
<1> DEFINE E(i, p) == IF i = 0 THEN 0 ELSE p[i - 1] * Base + s[i]
           D == [g \in [Nat -> Nat] |->
                   [i \in Nat |-> IF i > Len(s) THEN 0 ELSE E(i, g)]]
<1>1. Len(s) \in Nat /\ \A i \in 1 .. Len(s) : s[i] \in Nat
  BY LenProperties, ElementOfSeq
<1>2. Contracts(D, Nat)
  <2>1. ASSUME NEW g \in [Nat -> Nat], NEW i \in Nat
        PROVE  (IF i > Len(s) THEN 0 ELSE E(i, g)) \in Nat
    <3>1. i # 0 => i - 1 \in Nat /\ g[i - 1] \in Nat
      OBVIOUS
    <3>2. i # 0 => g[i - 1] * Base \in Nat
      <4>1. \A a, b \in Nat : a * b \in Nat
        OBVIOUS
      <4>2. Base \in Nat
        BY DigitsAssumption
      <4> QED BY <3>1, <4>1, <4>2, Zenon
    <3>3. i # 0 /\ ~ (i > Len(s)) => s[i] \in Nat
      BY <1>1
    <3>4. i # 0 /\ ~ (i > Len(s)) => g[i - 1] * Base + s[i] \in Nat
      <4>1. PICK p, d : p = g[i - 1] * Base /\ d = s[i]
        OBVIOUS
      <4>2. i # 0 /\ ~ (i > Len(s)) => p \in Nat /\ d \in Nat
        BY <3>2, <3>3, <4>1
      <4>3. \A a, b \in Nat : a + b \in Nat
        OBVIOUS
      <4> QED BY <4>1, <4>2, <4>3, Zenon
    <3> QED BY <3>4
  <2>2. ASSUME NEW g \in [Nat -> Nat], NEW h \in [Nat -> Nat], NEW k \in Nat,
               \A i \in 0 .. k - 1 : g[i] = h[i]
        PROVE  D[g][k] = D[h][k]
    <3>1. k # 0 => g[k - 1] = h[k - 1]
      BY <2>2
    <3> QED BY <3>1
  <2> QED BY <2>1, <2>2 DEF Contracts
<1>3. PICK f \in [Nat -> Nat] : f = D[f]
  <2> HIDE DEF D
  <2> QED BY <1>2, Recursion
<1>4. \A i \in 0 .. Len(s) : f[i] = E(i, f)
  BY <1>1, <1>3
<1>5. PICK g : g = [i \in 0 .. Len(s) |-> f[i]]
  OBVIOUS
<1>6. g = [i \in 0 .. Len(s) |-> E(i, g)]
  <2>1. ASSUME NEW i \in 0 .. Len(s)
        PROVE  g[i] = E(i, g)
    <3>1. g[i] = E(i, f)
      BY <1>4, <1>5
    <3>2. i # 0 => i - 1 \in 0 .. Len(s)
      BY <1>1
    <3>3. i # 0 => g[i - 1] = f[i - 1]
      BY <1>5, <3>2
    <3> QED BY <3>1, <3>3
  <2> HIDE DEF E
  <2> QED BY <1>5, <2>1
<1>7. PICK v : v = CHOOSE p : p = [i \in 0 .. Len(s) |-> E(i, p)]
  OBVIOUS
<1>8. Value(s) = v[Len(s)]
  BY <1>7 DEF Value
<1>9. v = [i \in 0 .. Len(s) |-> E(i, v)]
  <2> HIDE DEF E
  <2> QED BY <1>6, <1>7
<1> QED BY <1>8, <1>9

LEMMA PowerParts ==
  ASSUME NEW k \in Nat
  PROVE  /\ Power[0] = 1 /\ Power[k + 1] = Base * Power[k]
         /\ Power[k] \in Nat \ {0}
<1>1. Power[0] = 1 /\ \A j \in Nat : Power[j + 1] = Base * Power[j]
  <2>1. \A j \in Nat : j + 1 \in Nat /\ j + 1 # 0 /\ (j + 1) - 1 = j
    OBVIOUS
  <2>2. \A j \in Nat : Power[j] = IF j = 0 THEN 1 ELSE Base * Power[j - 1]
    BY PowerSolves
  <2> QED BY <2>1, <2>2
<1>2. PICK T : T = {j \in Nat : Power[j] \notin Nat \ {0}}
  OBVIOUS
<1>3. ASSUME T # {}
      PROVE  FALSE
  <2>1. PICK j \in T : \A i \in T : j <= i
    BY <1>2, <1>3, Least
  <2>2. j # 0
    BY <1>1, <1>2
  <2>3. j \in Nat /\ j - 1 \in Nat /\ j - 1 \notin T
    BY <1>2, <2>1, <2>2
  <2>4. PICK p \in Nat \ {0} : Power[j - 1] = p
    BY <1>2, <2>3
  <2>5. Power[j] = Base * p
    BY <1>1, <2>3, <2>4
  <2>6. Base * p \in Nat \ {0}
    BY DigitsAssumption
  <2> QED BY <1>2, <2>5, <2>6
<1> QED BY <1>1, <1>2, <1>3

\* One digit more.
LEMMA ValueOfAppend ==
  ASSUME NEW s \in Seq(Nat), NEW d \in Nat
  PROVE  Value(Append(s, d)) = Value(s) * Base + d
<1>1. PICK t : t = Append(s, d)
  OBVIOUS
<1>2. PICK n : n = Len(s)
  OBVIOUS
<1>3. /\ n \in Nat /\ t \in Seq(Nat) /\ Len(t) = n + 1
      /\ \A i \in 1 .. n : t[i] = s[i]
      /\ t[n + 1] = d
  <2>1. n \in Nat
    BY <1>2, LenProperties
  <2>2. /\ t \in Seq(Nat) /\ Len(t) = Len(s) + 1
        /\ \A i \in 1 .. Len(s) : t[i] = s[i]
        /\ t[Len(s) + 1] = d
    <3>1. /\ Append(s, d) \in Seq(Nat) /\ Len(Append(s, d)) = Len(s) + 1
          /\ \A i \in 1 .. Len(s) : Append(s, d)[i] = s[i]
          /\ Append(s, d)[Len(s) + 1] = d
      BY AppendProperties
    <3> QED BY <1>1, <3>1, Zenon
  <2> QED BY <1>2, <2>1, <2>2
<1>4. PICK v : /\ Value(s) = v[n]
               /\ v = [i \in 0 .. n |-> IF i = 0 THEN 0 ELSE v[i - 1] * Base + s[i]]
  BY <1>2, ValueSolves
<1>5. PICK w : /\ Value(t) = w[n + 1]
               /\ w = [i \in 0 .. n + 1 |-> IF i = 0 THEN 0 ELSE w[i - 1] * Base + t[i]]
  <2>1. PICK w : /\ Value(t) = w[Len(t)]
                 /\ w = [i \in 0 .. Len(t) |-> IF i = 0 THEN 0 ELSE w[i - 1] * Base + t[i]]
    BY <1>3, ValueSolves, Zenon
  <2> QED BY <1>3, <2>1, Zenon
<1>6. \A i \in 0 .. n : v[i] = w[i]
  <2>1. PICK T : T = {i \in 0 .. n : v[i] # w[i]}
    OBVIOUS
  <2> SUFFICES ASSUME T # {}
               PROVE  FALSE
    BY <2>1
  <2>2. T \in SUBSET Nat
    BY <1>3, <2>1
  <2>3. PICK i \in T : \A j \in T : i <= j
    BY <2>2, Least
  <2>4. i \in 0 .. n /\ i \in 0 .. n + 1 /\ v[i] # w[i]
    BY <1>3, <2>1
  <2>5. /\ v[i] = IF i = 0 THEN 0 ELSE v[i - 1] * Base + s[i]
        /\ w[i] = IF i = 0 THEN 0 ELSE w[i - 1] * Base + t[i]
    BY <1>4, <1>5, <2>4
  <2>6. i # 0
    BY <2>4, <2>5
  <2>7. i - 1 \in 0 .. n /\ i - 1 \notin T /\ i \in 1 .. n
    BY <1>3, <2>3, <2>4, <2>6
  <2>8. v[i - 1] = w[i - 1] /\ s[i] = t[i]
    BY <1>3, <2>1, <2>7
  <2> QED BY <2>4, <2>5, <2>6, <2>8
<1>7. w[n + 1] = w[n] * Base + t[n + 1]
  <2>1. n + 1 \in 0 .. n + 1 /\ n + 1 # 0 /\ (n + 1) - 1 = n
    BY <1>3
  <2> QED BY <1>5, <2>1
<1>8. v[n] = w[n]
  BY <1>3, <1>6
<1> QED BY <1>1, <1>3, <1>4, <1>5, <1>7, <1>8

\* A single digit stands for itself.
LEMMA ValueOfOne ==
  ASSUME NEW d \in Nat
  PROVE  Value(<<d>>) = d
<1>1. PICK s : s = <<d>>
  OBVIOUS
<1>2. s \in Seq(Nat) /\ Len(s) = 1 /\ s[1] = d
  BY <1>1
<1>3. PICK v : /\ Value(s) = v[1]
               /\ v = [i \in 0 .. 1 |-> IF i = 0 THEN 0 ELSE v[i - 1] * Base + s[i]]
  BY <1>2, ValueSolves
<1>4. v[0] = 0 /\ v[1] = v[0] * Base + s[1]
  <2>1. 0 \in 0 .. 1 /\ 1 \in 0 .. 1 /\ 1 - 1 = 0
    OBVIOUS
  <2> QED BY <1>3, <2>1
<1> QED BY <1>1, <1>2, <1>3, <1>4, DigitsAssumption

\* Reading a number back gives the number, it is written in digits, and it has
\* as many of them as its size allows.
LEMMA HexReads ==
  ASSUME NEW n \in Nat
  PROVE  /\ Hex[n] \in Seq(Nat) /\ Value(Hex[n]) = n
         /\ \A i \in 1 .. Len(Hex[n]) : Hex[n][i] \in Digit
         /\ \A k \in Nat \ {0} : n < Power[k] => Len(Hex[n]) <= k
<1> DEFINE Good(m) == /\ Hex[m] \in Seq(Nat) /\ Value(Hex[m]) = m
                      /\ \A i \in 1 .. Len(Hex[m]) : Hex[m][i] \in Digit
                      /\ \A k \in Nat \ {0} : m < Power[k] => Len(Hex[m]) <= k
<1>1. PICK T : T = {m \in Nat : ~ Good(m)}
  OBVIOUS
<1>2. ASSUME NEW m \in Nat, m < Base
      PROVE  Good(m)
  <2>1. Hex[m] = <<m>>
    BY <1>2, HexSolves
  <2>2. <<m>> \in Seq(Nat) /\ Len(<<m>>) = 1
    OBVIOUS
  <2>3. \A i \in 1 .. Len(<<m>>) : <<m>>[i] \in Digit
    BY <1>2, DigitsAssumption DEF Digit
  <2> QED BY <2>1, <2>2, <2>3, ValueOfOne
<1>3. ASSUME NEW m \in Nat, m >= Base, Good(m \div Base)
      PROVE  Good(m)
  <2>1. PICK q, d : q = m \div Base /\ d = m % Base
    OBVIOUS
  <2>2. q \in Nat /\ d \in Nat /\ m = q * Base + d
    BY <1>3, <2>1, Quotient
  <2>0. d \in Digit
    BY <1>3, <2>1, DigitsAssumption DEF Digit
  <2>3. Hex[m] = Append(Hex[q], d)
    <3>1. ~ (m < Base)
      BY <1>3, DigitsAssumption
    <3> QED BY <2>1, <3>1, HexSolves
  <2>4. /\ Hex[q] \in Seq(Nat) /\ Value(Hex[q]) = q
        /\ \A i \in 1 .. Len(Hex[q]) : Hex[q][i] \in Digit
        /\ \A k \in Nat \ {0} : q < Power[k] => Len(Hex[q]) <= k
    BY <1>3, <2>1
  <2>5. Hex[m] \in Seq(Nat) /\ Len(Hex[m]) = Len(Hex[q]) + 1 /\ Len(Hex[q]) \in Nat
    BY <2>2, <2>3, <2>4, AppendProperties, LenProperties
  <2>6. Value(Hex[m]) = m
    BY <2>2, <2>3, <2>4, ValueOfAppend
  <2>7. ASSUME NEW k \in Nat \ {0}, m < Power[k]
        PROVE  Len(Hex[m]) <= k
    <3>1. PICK j \in Nat : k = j + 1
      <4>1. k - 1 \in Nat /\ k = (k - 1) + 1
        OBVIOUS
      <4> QED BY <4>1
    <3>2. PICK p \in Nat \ {0} : p = Power[j]
      BY PowerParts
    <3>3. m < Base * p
      BY <2>7, <3>1, <3>2, PowerParts
    <3>4. q < p
      <4> SUFFICES ASSUME q >= p PROVE FALSE
        BY <2>2
      <4>1. Base * q >= Base * p
        BY <2>2, DigitsAssumption
      <4> QED BY <2>2, <3>3, <4>1, DigitsAssumption
    <3>5. j # 0
      <4>1. j = 0 => p = 1
        BY <3>2, PowerParts
      <4>2. Base * 1 = Base
        BY DigitsAssumption
      <4> QED BY <1>3, <3>3, <4>1, <4>2, DigitsAssumption
    <3>6. Len(Hex[q]) <= j
      BY <2>4, <3>2, <3>4, <3>5
    <3> QED BY <2>5, <3>1, <3>6
  <2>8. \A i \in 1 .. Len(Hex[m]) : Hex[m][i] \in Digit
    <3>1. /\ \A i \in 1 .. Len(Hex[q]) : Hex[m][i] = Hex[q][i]
          /\ Hex[m][Len(Hex[q]) + 1] = d
      BY <2>2, <2>3, <2>4, AppendProperties
    <3>2. PICK k : k = Len(Hex[q])
      OBVIOUS
    <3>3. \A i \in 1 .. k + 1 : i \in 1 .. k \/ i = k + 1
      BY <2>5, <3>2
    <3>4. ASSUME NEW i \in 1 .. k PROVE Hex[m][i] \in Digit
      BY <2>4, <3>1, <3>2, <3>4, Zenon
    <3>5. Hex[m][k + 1] \in Digit
      BY <2>0, <3>1, <3>2, Zenon
    <3> QED BY <2>5, <3>2, <3>3, <3>4, <3>5, Zenon
  <2> QED BY <2>5, <2>6, <2>7, <2>8
<1> HIDE DEF Good
<1>4. ASSUME T # {}
      PROVE  FALSE
  <2>1. PICK m \in T : \A j \in T : m <= j
    BY <1>1, <1>4, Least
  <2>2. m \in Nat /\ ~ Good(m)
    BY <1>1
  <2>3. m >= Base
    BY <1>2, <2>2, DigitsAssumption
  <2>4. m \div Base \in Nat /\ m \div Base \notin T
    BY <2>1, <2>2, <2>3, Quotient
  <2>5. Good(m \div Base)
    BY <1>1, <2>4
  <2> QED BY <1>3, <2>2, <2>3, <2>5
<1> QED BY <1>1, <1>4 DEF Good

\* Text of digits only is read to its end.
LEMMA LeadingAll ==
  ASSUME NEW text \in Seq(Nat), \A i \in 1 .. Len(text) : text[i] \in Digit
  PROVE  Leading(text) = text
<1> DEFINE Prefix(n) == /\ \A i \in 1 .. n : text[i] \in Digit
                        /\ n < Len(text) => text[n + 1] \notin Digit
<1>1. Len(text) \in Nat
  BY LenProperties
<1>2. Prefix(Len(text)) /\ Len(text) \in 0 .. Len(text)
  BY <1>1
<1>3. ASSUME NEW n \in 0 .. Len(text), Prefix(n)
      PROVE  n = Len(text)
  BY <1>1, <1>3
<1>4. PICK n : n = CHOOSE m \in 0 .. Len(text) : Prefix(m)
  OBVIOUS
<1>5. n = Len(text)
  <2> HIDE DEF Prefix
  <2> QED BY <1>2, <1>3, <1>4
<1>6. Leading(text) = SubSeq(text, 1, n)
  BY <1>4 DEF Leading
<1> QED BY <1>5, <1>6, SubSeqFull

\* A number of digits only that fits is read as what it is.
LEMMA NumberReads ==
  ASSUME NEW text \in Seq(Nat), \A i \in 1 .. Len(text) : text[i] \in Digit,
         NEW n \in Nat, Value(text) = n, n < ULong
  PROVE  strtoul(text) = n
<1>1. ~ (Len(text) > 0 /\ text[1] = Minus)
  <2>1. Len(text) \in Nat
    BY LenProperties
  <2>2. Len(text) > 0 => text[1] \in Digit
    BY <2>1
  <2> QED BY <2>2, DigitsAssumption DEF Digit, Minus
<1>2. Leading(text) = text
  BY LeadingAll
<1>3. ~ (n >= ULong)
  BY DigitsAssumption
<1> QED BY <1>1, <1>2, <1>3, Zenon DEF strtoul

\* No id loses a digit on its way through the text.
LEMMA IdReadsBack ==
  ASSUME NEW id \in MessageIds
  PROVE  ParsedId(IdText(id)) = id
<1>1. PICK p \in Nat \ {0} : p = Power[Digits]
  BY PowerParts, DigitsAssumption
<1>2. id \in Nat /\ id < p
  BY <1>1 DEF MessageIds
<1>3. Hex[id] \in Seq(Nat) /\ Value(Hex[id]) = id /\ Len(Hex[id]) <= Digits
  BY <1>1, <1>2, HexReads, DigitsAssumption
<1>4. PICK s : s = Hex[id]
  OBVIOUS
<1>5. Len(s) \in Nat /\ IdText(id) = SubSeq(s, 1, Len(s))
  <2>1. Len(s) \in Nat
    BY <1>3, <1>4, LenProperties
  <2>2. Len(s) < Digits \/ Len(s) = Digits
    BY <1>3, <1>4, <2>1, DigitsAssumption
  <2> QED BY <1>4, <2>1, <2>2, Zenon DEF IdText
<1>6. IdText(id) = s
  BY <1>3, <1>4, <1>5, SubSeqFull
<1>7. id % p = id /\ id < ULong
  BY <1>1, <1>2, DigitsAssumption
<1>8. strtoul(s) = id
  BY <1>2, <1>3, <1>4, <1>7, HexReads, NumberReads
<1> QED BY <1>1, <1>6, <1>7, <1>8, Zenon DEF ParsedId

\* The message sent last says its id, and what the client reads from a reply
\* that returns it is the same.
IdInv ==
  /\ sent # Missing => msg_id \in MessageIds /\ sent["id"] = Str(IdText(msg_id))
  /\ reply # Missing =>
       /\ sent # Missing
       /\ reply["id"] = sent["id"] /\ reply["data"] = Missing => read.id = msg_id

\* Whatever the message, it is sent with its id.
LEMMA FlushedId ==
  ASSUME NEW type \in Types, NEW id, NEW client_id
  PROVE  Flushed(Make(type), id, client_id)["id"] = Str(IdText(id))
<1>1. PICK m : m = Make(type)
  OBVIOUS
<1>2. "id" \in DOMAIN m
  <2>1. DOMAIN Empty = {"channel", "clientId", "connectionType", "data", "id", "subscription",
                        "supportedConnectionTypes", "version", "successful", "advice"}
    BY DEF Empty
  <2>2. DOMAIN Make(type) = DOMAIN Empty
    BY DEF Types, Make, make_connect, make_handshake, make_publish, make_subscribe,
           make_unsubscribe, json_set_string, json_set_object
  <2> QED BY <1>1, <2>1, <2>2
<1>3. PICK v : v = Str(IdText(id))
  OBVIOUS
<1>4. json_set_string(m, "id", IdText(id)) = [m EXCEPT !["id"] = v]
  BY <1>3, Zenon DEF json_set_string
<1>5. [m EXCEPT !["id"] = v]["id"] = v
  BY <1>2
<1>6. ASSUME NEW k PROVE [[m EXCEPT !["id"] = v] EXCEPT !["clientId"] = k]["id"] = v
  BY <1>2
<1> QED BY <1>1, <1>3, <1>4, <1>5, <1>6, Zenon DEF Flushed, json_set_string

\* A reply that returns the id of the message is matched by the id the message was sent under:
\* whatever the width of ids and the base they are written to, no id loses a
\* digit on its way through the text.
THEOREM IdsRoundTrip == MessagesSpec => []IdRoundTrip
<1>1. NoMessage => IdInv
  BY DEF NoMessage, IdInv
<1>2. IdInv /\ [MessageStep]_messages => IdInv'
  <2> SUFFICES ASSUME IdInv, [MessageStep]_messages
               PROVE  IdInv'
    OBVIOUS
  <2>1. ASSUME NEW type \in Types, NEW id \in MessageIds, NEW client_id, Send(type, id, client_id)
        PROVE  IdInv'
    <3>1. sent'["id"] = Str(IdText(id))
      BY <2>1, FlushedId, Zenon DEF Send
    <3>2. sent = Missing /\ msg_id' = id /\ reply' = reply
      BY <2>1 DEF Send
    <3>3. reply = Missing
      BY <3>2 DEF IdInv
    <3> QED BY <3>1, <3>2, <3>3, Zenon DEF IdInv
  <2>2. CASE Reply
    <3>2. /\ sent # Missing /\ read' = Read(reply')
          /\ msg_id' = msg_id /\ sent' = sent
      BY <2>2 DEF Reply
    <3> SUFFICES ASSUME reply'["id"] = sent["id"], reply'["data"] = Missing
                 PROVE  read'.id = msg_id
      BY <3>2, Zenon DEF IdInv
    <3>4. PICK text : text = IdText(msg_id)
      OBVIOUS
    <3>5. reply'["id"] = Str(text) /\ Missing # Str(text)
      BY <3>2, <3>4, MissingAssumption, Zenon DEF IdInv
    <3>6. Missing # text
      BY <3>2, <3>4, MissingAssumption, Zenon DEF IdInv
    <3>7. Str(text).type = "string" /\ Str(text).val = text
      BY Zenon DEF Str
    <3>8. json_get_string(reply', "id") = text
      BY <3>5, <3>7, Zenon DEF json_get_string, Typed
    <3>9. json_get_msg_id(reply') = ParsedId(text)
      BY <3>6, <3>8, Zenon DEF json_get_msg_id
    <3>10. Read(reply').id = json_get_msg_id(reply')
      BY DEF Read
    <3>11. ParsedId(text) = msg_id
      BY <3>2, <3>4, IdReadsBack, Zenon DEF IdInv
    <3> QED BY <3>2, <3>9, <3>10, <3>11, Zenon DEF IdInv
  <2>3. CASE UNCHANGED messages
    BY <2>3 DEF messages, IdInv
  <2> QED BY <2>1, <2>2, <2>3 DEF MessageStep
<1>3. IdInv => IdRoundTrip
  BY DEF IdInv, IdRoundTrip
<1> QED BY <1>1, <1>2, <1>3, PTL DEF MessagesSpec

-----------------------------------------------------------------------------
(* Pacing *)

\* A client that was told "none" knows it.
PacingInv ==
  /\ TypeOK /\ interval_ms \in Int /\ timeout_ms \in Int
  /\ advised = "none" => reconnect = RECONNECT_NONE

\* A delay is a number of microseconds.
LEMMA DelayType ==
  ASSUME NEW ms \in Int
  PROVE  ConnectDelay(ms) \in Int /\ HandshakeDelay(ms) \in Int
<1>1. UsPerS \in Nat \ {0}
  BY PacingAssumption DEF UsPerS
<1>2. ms \div UsPerS \in Int /\ ms % UsPerS \in Int
  BY <1>1
<1>3. \A sec, usec \in Int : Micro([sec |-> sec, usec |-> usec]) \in Int
  BY <1>1 DEF Micro
<1> QED BY <1>2, <1>3 DEF ConnectDelay, HandshakeDelay

\* Taking advice keeps what the client knows in step with what it was told.
LEMMA AdviceStep ==
  ASSUME PacingInv, NEW string, NEW ms \in Intervals \cup {NULL}, Advice(string, ms)
  PROVE  /\ reconnect' \in 0 .. 2 /\ interval_ms' \in Int /\ timeout_ms' \in Int
         /\ advised' = "none" => reconnect' = RECONNECT_NONE
<1>1. interval_ms' \in Int /\ timeout_ms' \in Int
  BY PacingAssumption DEF Advice, PacingInv
<1>2. CASE Named(string) = {}
  BY <1>1, <1>2 DEF Advice, PacingInv, TypeOK
<1>3. CASE Named(string) # {}
  <2>1. PICK j \in DOMAIN s_reconnect_strs :
          s_reconnect_strs[j] = string /\ reconnect' = j - 1 /\ advised' = string
    BY <1>3 DEF Advice, Named
  <2>2. j \in {1, 2, 3}
    BY DEF s_reconnect_strs
  <2>3. \/ j = 1 /\ advised' = "handshake" /\ reconnect' = 0
        \/ j = 2 /\ advised' = "none" /\ reconnect' = 1
        \/ j = 3 /\ advised' = "retry" /\ reconnect' = 2
    BY <2>1, <2>2 DEF s_reconnect_strs
  <2> QED BY <1>1, <2>3 DEF RECONNECT_NONE
<1> QED BY <1>2, <1>3

\* A message leaves a number of microseconds on the connect timer, or none.
LEMMA ScheduleStep ==
  ASSUME PacingInv, interval_ms' \in Int, NEW due, ScheduleConnect(due)
  PROVE  ev_timeout_connect' \in Int \cup {NULL}
BY DelayType DEF ScheduleConnect, PacingInv, TypeOK

\* Whoever asks for a handshake, a call or a timer, the advice is looked at.
LEMMA HandshakeAsked ==
  ASSUME PacingInv, IssueHandshake
  PROVE  /\ state' \in {"UNCONNECTED", "CONNECTING", "CONNECTED"}
         /\ handshake_in_outbox' \in BOOLEAN
         /\ reconnect = RECONNECT_NONE => handshake_in_outbox' = handshake_in_outbox
BY DEF IssueHandshake, HandshakeDue, PacingInv, TypeOK

LEMMA PacingStep ==
  ASSUME PacingInv, [Next]_vars
  PROVE  /\ PacingInv'
         /\ advised = "none" => /\ handshake_in_outbox' => handshake_in_outbox
                                /\ connect_msg_in_flight' => connect_msg_in_flight
<1> DEFINE Quiet == /\ handshake_in_outbox' => handshake_in_outbox
                    /\ connect_msg_in_flight' => connect_msg_in_flight
<1>0. TypeOK
  BY DEF PacingInv
<1>1. ASSUME NEW string \in Strings \cup {NULL}, NEW ms \in Intervals \cup {NULL},
             \/ RecvOther(string, ms) \/ RecvConnect(string, ms)
             \/ \E outcome \in {"success", "failure", "malformed"} :
                  RecvHandshake(string, ms, outcome)
      PROVE  PacingInv' /\ Quiet
  <2>1. Advice(string, ms) /\ \E due : ScheduleConnect(due)
    BY <1>1 DEF RecvOther, RecvConnect, RecvHandshake
  <2>2. /\ reconnect' \in 0 .. 2 /\ interval_ms' \in Int /\ timeout_ms' \in Int
        /\ advised' = "none" => reconnect' = RECONNECT_NONE
    BY <2>1, AdviceStep
  <2>3. ev_timeout_connect' \in Int \cup {NULL}
    BY <2>1, <2>2, ScheduleStep
  <2>4. HandshakeDelay(timeout_ms) \in Int
    BY DelayType DEF PacingInv
  <2>5. /\ state' \in {"UNCONNECTED", "CONNECTING", "CONNECTED"}
        /\ ev_timeout_handshake' \in Int \cup {NULL}
    BY <1>0, <1>1, <2>4 DEF RecvOther, RecvConnect, RecvHandshake, StateAdvised, TypeOK
  <2>6. /\ connect_msg_in_flight' \in BOOLEAN /\ handshake_in_outbox' \in BOOLEAN
        /\ called' \in BOOLEAN
    BY <1>0, <1>1 DEF RecvOther, RecvConnect, RecvHandshake, TypeOK
  <2>7. Quiet
    <3>1. CASE RecvOther(string, ms)
      BY <3>1, Zenon DEF RecvOther
    <3>2. CASE RecvConnect(string, ms)
      BY <3>2, Zenon DEF RecvConnect
    <3>3. ASSUME NEW outcome, RecvHandshake(string, ms, outcome)
          PROVE  Quiet
      BY <3>3, Zenon DEF RecvHandshake
    <3> QED BY <1>1, <3>1, <3>2, <3>3
  <2> QED BY <2>2, <2>3, <2>5, <2>6, <2>7 DEF PacingInv, TypeOK
<1>2. ASSUME IssueConnect \/ OnEvTimeoutConnect \/ OnEvTimeoutHandshake
      PROVE  PacingInv' /\ (advised = "none" => Quiet)
  <2>1. /\ UNCHANGED <<reconnect, interval_ms, timeout_ms, advised>>
        /\ ev_timeout_connect' \in {ev_timeout_connect, NULL}
        /\ ev_timeout_handshake' \in {ev_timeout_handshake, NULL}
        /\ called' \in {called, TRUE}
        /\ IssueHandshake
    BY <1>2 DEF IssueConnect, OnEvTimeoutConnect, OnEvTimeoutHandshake, advice
  <2>2. /\ state' \in {"UNCONNECTED", "CONNECTING", "CONNECTED"}
        /\ handshake_in_outbox' \in BOOLEAN
        /\ reconnect = RECONNECT_NONE => handshake_in_outbox' = handshake_in_outbox
    BY <2>1, HandshakeAsked
  <2>3. /\ connect_msg_in_flight' \in BOOLEAN
        /\ reconnect = RECONNECT_NONE => connect_msg_in_flight' = connect_msg_in_flight
    BY <1>0, <1>2 DEF IssueConnect, OnEvTimeoutConnect, OnEvTimeoutHandshake, TypeOK
  <2>4. PacingInv'
    BY <1>0, <2>1, <2>2, <2>3 DEF PacingInv, TypeOK
  <2> QED BY <2>2, <2>3, <2>4 DEF PacingInv
<1>3. ASSUME NEW us \in Steps, Elapse(us)
      PROVE  PacingInv' /\ Quiet
  <2>1. us \in Nat
    BY PacingAssumption
  <2>2. ASSUME NEW timer \in Int \cup {NULL}
        PROVE  Left(timer, us) \in Int \cup {NULL}
    BY <2>1 DEF Left
  <2>3. /\ ev_timeout_connect' \in Int \cup {NULL}
        /\ ev_timeout_handshake' \in Int \cup {NULL}
    BY <1>0, <1>3, <2>2 DEF Elapse, TypeOK
  <2>4. UNCHANGED <<advice, state, connect_msg_in_flight, handshake_in_outbox, called>>
    BY <1>3 DEF Elapse
  <2> QED BY <2>3, <2>4 DEF PacingInv, TypeOK, advice
<1>4. CASE UNCHANGED vars
  BY <1>4 DEF PacingInv, TypeOK, vars, advice
<1> QED BY <1>1, <1>2, <1>3, <1>4 DEF Next

LEMMA PacingInvariance == Spec => []PacingInv
<1>1. Init => PacingInv
  <2> SUFFICES ASSUME Init PROVE PacingInv
    OBVIOUS
  <2>0. reconnect \in 0 .. 2 /\ interval_ms \in Int /\ timeout_ms \in Int
    BY PacingAssumption DEF Init, RECONNECT_RETRY
  <2>1. TypeOK
    BY <2>0, Zenon DEF Init, TypeOK
  <2>2. advised # "none"
    BY DEF Init
  <2> QED BY <2>0, <2>1, <2>2 DEF PacingInv
<1>2. PacingInv /\ [Next]_vars => PacingInv'
  BY PacingStep
<1> QED BY <1>1, <1>2, PTL DEF Spec

\* The timers hold a number of microseconds or nothing, for all intervals the
\* server may ask for.
THEOREM PacingTypeCorrect == Spec => []TypeOK
<1>1. PacingInv => TypeOK
  BY DEF PacingInv
<1> QED BY <1>1, PacingInvariance, PTL

\* Over any sequence of advice, with whatever strings, calls and timers: from
\* "none" until the server says something else it understands, the client puts
\* neither a handshake nor a connect on its queue.
THEOREM LoopStops == Spec => NoneStopsLoop
<1>1. PacingInv /\ [Next]_vars =>
        [advised = "none" => /\ handshake_in_outbox' => handshake_in_outbox
                             /\ connect_msg_in_flight' => connect_msg_in_flight]_vars
  BY PacingStep
<1> QED BY <1>1, PacingInvariance, PTL DEF Spec, NoneStopsLoop
=============================================================================
