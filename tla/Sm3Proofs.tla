------------------------------- MODULE Sm3Proofs -------------------------------
(***************************************************************************)
(* Sm3's buffering and padding are right for every block size, message and *)
(* way of cutting it into updates, and so is what HmacSm3 feeds it.        *)
(***************************************************************************)
EXTENDS Hmac, Arithmetic, SequenceTheorems, TLAPS

-----------------------------------------------------------------------------
(***************************************************************************)
(* Sequences.                                                              *)
(***************************************************************************)

\* A buffer is a sequence of its own length.
LEMMA BufferIsSeq ==
  ASSUME NEW S, NEW n \in Nat, NEW b \in [1 .. n -> S]
  PROVE  b \in Seq(S) /\ Len(b) = n
BY SeqDef

\* Cutting a sequence in two.
LEMMA FirstRest ==
  ASSUME NEW S, NEW s \in Seq(S), NEW n \in 0 .. Len(s)
  PROVE  /\ First(s, n) \in Seq(S) /\ Len(First(s, n)) = n
         /\ \A i \in 1 .. n : First(s, n)[i] = s[i]
         /\ Rest(s, n) \in Seq(S) /\ Len(Rest(s, n)) = Len(s) - n
         /\ First(s, n) \o Rest(s, n) = s
<1>1. Len(s) \in Nat /\ \A i \in 1 .. Len(s) : s[i] \in S
  BY LenProperties, ElementOfSeq
<1>2. /\ First(s, n) \in Seq(S) /\ Len(First(s, n)) = n
      /\ \A i \in 1 .. n : First(s, n)[i] = s[i]
  <2>1. \A i \in 1 .. n : s[i] \in S
    BY <1>1
  <2>2. /\ SubSeq(s, 1, n) \in Seq(S)
        /\ Len(SubSeq(s, 1, n)) = IF 1 <= n THEN n - 1 + 1 ELSE 0
        /\ \A i \in 1 .. n - 1 + 1 : SubSeq(s, 1, n)[i] = s[1 + i - 1]
    BY <1>1, <2>1, SubSeqProperties
  <2> QED
    BY <1>1, <2>2 DEF First
<1>3. Rest(s, n) \in Seq(S) /\ Len(Rest(s, n)) = Len(s) - n
  <2>1. \A i \in n + 1 .. Len(s) : s[i] \in S
    BY <1>1
  <2>2. /\ SubSeq(s, n + 1, Len(s)) \in Seq(S)
        /\ Len(SubSeq(s, n + 1, Len(s))) = IF n + 1 <= Len(s) THEN Len(s) - (n + 1) + 1 ELSE 0
    BY <1>1, <2>1, SubSeqProperties
  <2> QED
    BY <1>1, <2>2 DEF Rest
<1>4. SubSeq(s, 1, n) \o SubSeq(s, n + 1, Len(s)) = SubSeq(s, 1, Len(s))
  <2>1. /\ 1 \in 1 .. Len(s) + 1 /\ n \in (1 - 1) .. Len(s) /\ Len(s) \in n .. Len(s)
    BY <1>1
  <2> QED
    BY <2>1, ConcatAdjacentSubSeq
<1>5. SubSeq(s, 1, Len(s)) = s
  BY SubSeqFull
<1> QED
  BY <1>2, <1>3, <1>4, <1>5 DEF First, Rest

\* Concatenation is associative; named, so that a step says where it is used.
Regroups(s, t, u) == (s \o t) \o u = s \o (t \o u)

LEMMA Associative ==
  ASSUME NEW S, NEW s \in Seq(S), NEW t \in Seq(S), NEW u \in Seq(S)
  PROVE  Regroups(s, t, u)
BY ConcatAssociative DEF Regroups

\* Copying into a buffer appends to the part before it.
Appends(S, b, at, s) ==
  /\ Copied(b, at, s) \in [Place -> S]
  /\ First(b, at) \in Seq(S) /\ Len(First(b, at)) = at
  /\ First(Copied(b, at, s), at + Len(s)) = First(b, at) \o s

LEMMA CopyAppends ==
  ASSUME NEW S, NEW b \in [Place -> S], NEW at \in Nat, NEW s \in Seq(S),
         at + Len(s) <= Block
  PROVE  Appends(S, b, at, s)
<1> DEFINE c == Copied(b, at, s)
<1>1. Len(s) \in Nat /\ \A i \in 1 .. Len(s) : s[i] \in S
  BY LenProperties, ElementOfSeq
<1>2. c \in [Place -> S]
  <2>1. ASSUME NEW i \in Place PROVE c[i] \in S
    BY <1>1 DEF Copied, Place
  <2> QED
    BY <2>1 DEF Copied
<1>3. b \in Seq(S) /\ Len(b) = Block /\ c \in Seq(S) /\ Len(c) = Block
  BY <1>2, ConstantsAssumption, BufferIsSeq DEF Place
<1> DEFINE m == at + Len(s)
           f == First(b, at)
<1> HIDE DEF c
<1>4. /\ f \in Seq(S) /\ Len(f) = at /\ \A i \in 1 .. at : f[i] = b[i]
  <2>1. at \in 0 .. Len(b)
    BY <1>1, <1>3
  <2> QED
    BY <1>3, <2>1, FirstRest
<1>5. First(c, m) \in Seq(S) /\ Len(First(c, m)) = m /\ \A i \in 1 .. m : First(c, m)[i] = c[i]
  <2>1. m \in 0 .. Len(c)
    BY <1>1, <1>3
  <2> QED
    BY <1>3, <2>1, FirstRest
<1>6. \A i \in 1 .. m : c[i] = IF i <= at THEN b[i] ELSE s[i - at]
  BY <1>1, ConstantsAssumption DEF Copied, Place, c
<1> HIDE DEF f
<1>7. /\ f \o s \in Seq(S) /\ Len(f \o s) = m
      /\ \A i \in 1 .. m : (f \o s)[i] = IF i <= at THEN f[i] ELSE s[i - at]
  BY <1>4, ConcatProperties
<1>8. ASSUME NEW i \in 1 .. m PROVE First(c, m)[i] = (f \o s)[i]
  <2>1. First(c, m)[i] = c[i] /\ (f \o s)[i] = IF i <= at THEN f[i] ELSE s[i - at]
    BY <1>5, <1>7
  <2>2. c[i] = IF i <= at THEN b[i] ELSE s[i - at]
    BY <1>6
  <2>3. i <= at => f[i] = b[i]
    BY <1>1, <1>4
  <2> QED
    BY <2>1, <2>2, <2>3
<1>9. First(c, m) = f \o s
  BY <1>5, <1>7, <1>8, SeqEqual
<1> QED
  BY <1>2, <1>4, <1>9 DEF c, f, Appends

\* Whole blocks, and less than one behind them.
LEMMA WholeFacts ==
  ASSUME NEW S, NEW s \in Seq(S)
  PROVE  /\ Whole(s) \in Seq(S)
         /\ Rest(s, Len(Whole(s))) \in Seq(S) /\ Len(Rest(s, Len(Whole(s)))) \in 0 .. Block - 1
         /\ Whole(s) \o Rest(s, Len(Whole(s))) = s
         /\ \E q \in Nat : Len(Whole(s)) = q * Block
<1>1. Len(s) \in Nat /\ Block \in Nat \ {0}
  BY LenProperties, ConstantsAssumption
<1> DEFINE q == Len(s) \div Block
           w == q * Block
<1>2. q \in Nat /\ w \in 0 .. Len(s) /\ Len(s) - w < Block
  <2>1. /\ Len(s) = (Len(s) \div Block) * Block + (Len(s) % Block)
        /\ Len(s) % Block \in 0 .. (Block - 1)
        /\ Len(s) \div Block \in Nat
    BY <1>1
  <2>2. w \in Nat
    BY <2>1, <1>1, Product
  <2> HIDE DEF w
  <2>3. Len(s) = w + (Len(s) % Block)
    BY <2>1 DEF w
  <2> QED
    BY <1>1, <2>1, <2>2, <2>3
<1> HIDE DEF q
<1>3. Whole(s) = First(s, w)
  BY DEF Whole, q
<1> HIDE DEF w
<1>4. /\ First(s, w) \in Seq(S) /\ Len(First(s, w)) = w
      /\ Rest(s, w) \in Seq(S) /\ Len(Rest(s, w)) = Len(s) - w
      /\ First(s, w) \o Rest(s, w) = s
  BY <1>2, FirstRest
<1>5. Len(Whole(s)) = q * Block
  BY <1>3, <1>4 DEF w
<1>6. Len(Whole(s)) = w
  BY <1>3, <1>4
<1>7. /\ Whole(s) \in Seq(S)
      /\ Rest(s, w) \in Seq(S) /\ Len(Rest(s, w)) \in 0 .. Block - 1
      /\ Whole(s) \o Rest(s, w) = s
  BY <1>1, <1>2, <1>3, <1>4
<1> QED
  BY <1>2, <1>5, <1>6, <1>7

-----------------------------------------------------------------------------
(***************************************************************************)
(* The invariant.                                                          *)
(***************************************************************************)

\* What an update relies on; what final returned is no part of it.
StreamInv ==
  /\ state \in Seq(Byte) /\ message \in Seq(Byte)
  /\ buffer \in [Place -> Byte]
  /\ buffer_size \in 0 .. Block - 1
  /\ total_bytes \in 0 .. MaxMessage
  /\ BufferInv

\* An object that has been reset.
LEMMA FreshInv ==
  ASSUME state = <<>>, buffer = Clear, buffer_size = 0, total_bytes = 0, message = <<>>
  PROVE  StreamInv
<1>1. <<>> \in Seq(Byte) /\ Len(<<>>) = 0
  BY EmptySeq
<1>2. Clear \in [Place -> Byte]
  BY ConstantsAssumption DEF Clear, Zero, Byte
<1>3. First(buffer, 0) = <<>>
  BY SubSeqEmpty DEF First
<1>4. state \o First(buffer, buffer_size) = message
  BY <1>1, <1>3, ConcatEmptySeq
<1>5. 0 % Block = 0 /\ 0 \in 0 .. Block - 1 /\ 0 \in 0 .. MaxMessage
  BY ConstantsAssumption
<1> QED
  BY <1>1, <1>2, <1>4, <1>5 DEF StreamInv, BufferInv

\* The length kept beside the message does not wrap.
LEMMA TotalStep ==
  ASSUME StreamInv, NEW data \in Seq(Byte), Update(data)
  PROVE  /\ data \in Seq(Byte) /\ Len(data) \in Nat
         /\ message' \in Seq(Byte) /\ total_bytes' \in 0 .. MaxMessage
         /\ total_bytes' = Len(message')
<1>1. data \in Seq(Byte) /\ Len(data) \in Nat
  BY ConstantsAssumption, LenProperties
<1>2. message' = message \o data
  BY DEF Update
<1>3. message' \in Seq(Byte) /\ Len(message') = Len(message) + Len(data)
  BY <1>1, <1>2, ConcatProperties DEF StreamInv
<1>4. /\ total_bytes \in Nat /\ total_bytes = Len(message)
      /\ total_bytes + Len(data) <= MaxMessage
      /\ total_bytes' = (total_bytes + Len(data)) % Word
  BY DEF Update, StreamInv, BufferInv
<1>5. (total_bytes + Len(data)) % Word = total_bytes + Len(data)
  BY <1>1, <1>4, ConstantsAssumption
<1> QED
  BY <1>1, <1>3, <1>4, <1>5, ConstantsAssumption

\* An update that does not fill the buffer.
LEMMA BufferedInv ==
  ASSUME StreamInv, NEW data \in Seq(Byte), Update(data), Buffered(data)
  PROVE  StreamInv'
<1> DEFINE b == First(buffer, buffer_size)
<1>1. data \in Seq(Byte) /\ Len(data) \in Nat
  BY TotalStep
<1>2. buffer_size \in Nat /\ Block \in Nat
  BY ConstantsAssumption DEF StreamInv
<1>3. /\ buffer_size + Len(data) < Block
      /\ buffer' = Copied(buffer, buffer_size, data)
      /\ buffer_size' = buffer_size + Len(data) /\ state' = state
  BY <1>1, <1>2 DEF Buffered
<1>4. /\ buffer' \in [Place -> Byte] /\ b \in Seq(Byte)
      /\ First(buffer', buffer_size') = b \o data
  <2>1. /\ buffer \in [Place -> Byte] /\ buffer_size \in Nat /\ data \in Seq(Byte)
        /\ buffer_size + Len(data) <= Block
    BY <1>1, <1>2, <1>3 DEF StreamInv
  <2>2. Appends(Byte, buffer, buffer_size, data)
    BY <2>1, CopyAppends
  <2> QED
    BY <1>3, <2>2 DEF Appends
<1>5. state \in Seq(Byte) /\ state \o b = message /\ Len(state) % Block = 0
  BY DEF StreamInv, BufferInv
<1>6. state' \o First(buffer', buffer_size') = message'
  <2>1. (state \o b) \o data = state \o (b \o data)
    <3>1. state \in Seq(Byte) /\ b \in Seq(Byte) /\ data \in Seq(Byte)
      BY <1>1, <1>4, <1>5
    <3>2. Regroups(state, b, data)
      BY <3>1, Associative
    <3> QED
      BY <3>2 DEF Regroups
  <2>2. message' = message \o data
    BY DEF Update
  <2> QED
    BY <1>3, <1>4, <1>5, <2>1, <2>2
<1>7. buffer_size' \in 0 .. Block - 1
  BY <1>1, <1>2, <1>3
<1> QED
  BY <1>3, <1>4, <1>5, <1>6, <1>7, TotalStep DEF StreamInv, BufferInv

\* Two sequences of whole blocks are one.
LEMMA BlocksAddUp ==
  ASSUME NEW m \in Nat, NEW p \in Nat, m % Block = 0
  PROVE  (m + p * Block) % Block = 0
<1>1. Block \in Nat \ {0}
  BY ConstantsAssumption
<1>2. PICK q \in Nat, r \in Nat : m = q * Block + r /\ r < Block /\ m % Block = r
  BY <1>1, DivMod
<1>3. m + p * Block = (q + p) * Block + 0
  BY <1>1, <1>2
<1>4. ((q + p) * Block + 0) % Block = 0
  BY <1>1, ModOf
<1> QED
  BY <1>3, <1>4

\* An update that compresses, or begins a buffer.
LEMMA CompressedInv ==
  ASSUME StreamInv, NEW data \in Seq(Byte), Update(data), Compressed(data)
  PROVE  StreamInv'
<1> DEFINE b     == First(buffer, buffer_size)
           d     == First(data, Needed)
           full  == Copied(buffer, buffer_size, d)
           rest  == Rest(data, Needed)
           whole == Whole(rest)
           left  == Rest(rest, Len(whole))
           head  == IF Needed > 0 THEN full ELSE <<>>
<1>1. data \in Seq(Byte) /\ Len(data) \in Nat
  BY TotalStep
<1>2. buffer_size \in 0 .. Block - 1 /\ Block \in Nat \ {0} /\ buffer \in [Place -> Byte]
  BY ConstantsAssumption DEF StreamInv
<1>3. /\ Needed \in 0 .. Len(data) /\ Needed <= Block - buffer_size
      /\ Needed > 0 <=> buffer_size > 0
      /\ Needed > 0 => buffer_size + Needed = Block
  BY <1>1, <1>2 DEF Needed, Compressed
<1>4. /\ d \in Seq(Byte) /\ Len(d) = Needed /\ rest \in Seq(Byte) /\ d \o rest = data
  BY <1>1, <1>3, FirstRest
<1>5. /\ state' = (state \o head) \o whole
      /\ buffer' = Copied(full, 0, left) /\ buffer_size' = Len(left)
  BY DEF Compressed
<1>6. /\ whole \in Seq(Byte) /\ left \in Seq(Byte) /\ Len(left) \in 0 .. Block - 1
      /\ whole \o left = rest
  BY <1>4, WholeFacts
<1>7. PICK p \in Nat : Len(whole) = p * Block
  BY <1>4, WholeFacts
<1>8. /\ full \in [Place -> Byte] /\ b \in Seq(Byte) /\ Len(b) = buffer_size
      /\ First(full, buffer_size + Len(d)) = b \o d
  <2>1. /\ buffer \in [Place -> Byte] /\ buffer_size \in Nat /\ d \in Seq(Byte)
        /\ buffer_size + Len(d) <= Block
    BY <1>1, <1>2, <1>3, <1>4
  <2>2. Appends(Byte, buffer, buffer_size, d)
    BY <2>1, CopyAppends
  <2> QED
    BY <1>4, <2>2 DEF Appends
<1>9. full \in Seq(Byte) /\ Len(full) = Block
  BY <1>2, <1>8, BufferIsSeq DEF Place
<1>10. head \in Seq(Byte) /\ head = b \o d /\ Len(head) \in {0, Block}
  <2>1. CASE Needed > 0
    <3>1. First(full, Block) = full
      BY <1>9, SubSeqFull DEF First
    <3> QED
      BY <1>3, <1>4, <1>8, <1>9, <2>1, <3>1
  <2>2. CASE Needed = 0
    <3>1. b = <<>> /\ d = <<>>
      BY <1>1, <1>2, <1>3, <1>4, <1>8, <2>2, EmptySeq
    <3>2. <<>> \in Seq(Byte) /\ Len(<<>>) = 0
      BY EmptySeq
    <3>3. <<>> \o <<>> = <<>>
      BY <3>2, ConcatEmptySeq
    <3> QED
      BY <2>2, <3>1, <3>2, <3>3
  <2> QED
    BY <1>3, <2>1, <2>2
<1>11. /\ First(buffer', buffer_size') = left
       /\ buffer' \in [Place -> Byte] /\ buffer_size' \in 0 .. Block - 1
  <2>1. First(full, 0) = <<>>
    BY SubSeqEmpty DEF First
  <2>2. <<>> \o left = left
    BY <1>6, ConcatEmptySeq
  <2>3. /\ Copied(full, 0, left) \in [Place -> Byte]
        /\ First(Copied(full, 0, left), 0 + Len(left)) = First(full, 0) \o left
    <3>1. /\ full \in [Place -> Byte] /\ 0 \in Nat /\ left \in Seq(Byte)
          /\ 0 + Len(left) <= Block
      BY <1>2, <1>6, <1>8
    <3>2. Appends(Byte, full, 0, left)
      BY <3>1, CopyAppends
    <3> QED
      BY <3>2 DEF Appends
  <2>4. First(Copied(full, 0, left), Len(left)) = left
    <3>1. 0 + Len(left) = Len(left)
      BY <1>6
    <3> QED
      BY <2>1, <2>2, <2>3, <3>1
  <2> QED
    BY <1>5, <1>6, <2>3, <2>4
<1>12. state \in Seq(Byte) /\ state \o b = message /\ Len(state) % Block = 0
  BY DEF StreamInv, BufferInv
<1>13. /\ state' \in Seq(Byte) /\ Len(state') = (Len(state) + Len(head)) + Len(whole)
  <2>1. state \o head \in Seq(Byte) /\ Len(state \o head) = Len(state) + Len(head)
    BY <1>10, <1>12, ConcatProperties
  <2> QED
    BY <1>5, <1>6, <2>1, ConcatProperties
<1>14. Len(state') % Block = 0
  <2>1. Len(state) \in Nat
    BY <1>12, LenProperties
  <2>2. Len(state) + Len(head) \in Nat /\ (Len(state) + Len(head)) % Block = 0
    <3>1. CASE Len(head) = 0
      <4>1. Len(state) + Len(head) = Len(state)
        BY <2>1, <3>1
      <4> QED
        BY <1>12, <2>1, <4>1
    <3>2. CASE Len(head) = Block
      <4>1. (Len(state) + 1 * Block) % Block = 0
        BY <1>12, <2>1, BlocksAddUp
      <4>2. 1 * Block = Block
        BY <1>2
      <4> QED
        <5>1. Len(state) + Len(head) \in Nat
          BY <1>2, <2>1, <3>2
        <5>2. Len(state) + Len(head) = Len(state) + 1 * Block
          BY <3>2, <4>2
        <5> QED
          BY <4>1, <5>1, <5>2
    <3> QED
      BY <1>10, <3>1, <3>2
  <2> QED
    BY <1>7, <1>13, <2>2, BlocksAddUp
<1>15. state' \o First(buffer', buffer_size') = message'
  <2>1. ((state \o head) \o whole) \o left = (state \o head) \o (whole \o left)
    <3>1. state \o head \in Seq(Byte)
      BY <1>10, <1>12, ConcatProperties
    <3>2. PICK h \in Seq(Byte), w \in Seq(Byte), l \in Seq(Byte) :
             h = state \o head /\ w = whole /\ l = left
      BY <1>6, <3>1
    <3>3. Regroups(h, w, l)
      BY Associative
    <3> QED
      BY <3>2, <3>3 DEF Regroups
  <2>2. state \o (b \o d) = (state \o b) \o d
    <3>1. state \in Seq(Byte) /\ b \in Seq(Byte) /\ d \in Seq(Byte)
      BY <1>4, <1>8, <1>12
    <3>2. Regroups(state, b, d)
      BY <3>1, Associative
    <3> QED
      BY <3>2 DEF Regroups
  <2>3. ((state \o b) \o d) \o rest = (state \o b) \o (d \o rest)
    <3>1. state \o b \in Seq(Byte)
      BY <1>8, <1>12, ConcatProperties
    <3>2. d \in Seq(Byte) /\ rest \in Seq(Byte)
      BY <1>4
    <3>3. Regroups(state \o b, d, rest)
      BY <3>1, <3>2, Associative
    <3> QED
      BY <3>3 DEF Regroups
  <2>4. message' = message \o data
    BY DEF Update
  <2> QED
    BY <1>4, <1>5, <1>6, <1>10, <1>11, <1>12, <2>1, <2>2, <2>3, <2>4
<1> QED
  BY <1>11, <1>13, <1>14, <1>15, TotalStep DEF StreamInv, BufferInv

\* Every step keeps the invariant.
LEMMA StreamInvStep == StreamInv /\ [Next]_vars => StreamInv'
<1> SUFFICES ASSUME StreamInv, [Next]_vars PROVE StreamInv'
  OBVIOUS
<1>1. ASSUME NEW data \in Piece, Update(data) PROVE StreamInv'
  BY <1>1, ConstantsAssumption, BufferedInv, CompressedInv DEF Update
<1>2. CASE Fresh
  <2>1. /\ state' = <<>> /\ buffer' = Clear /\ buffer_size' = 0 /\ total_bytes' = 0
        /\ message' = <<>>
    BY <1>2 DEF Fresh
  <2>2. (state = <<>> /\ buffer = Clear /\ buffer_size = 0 /\ total_bytes = 0
           /\ message = <<>> => StreamInv)'
    BY FreshInv, PTL
  <2> QED
    BY <2>1, <2>2
<1>3. CASE UNCHANGED vars
  BY <1>3 DEF vars, StreamInv, BufferInv, First
<1> QED
  BY <1>1, <1>2, <1>3 DEF Next, Final, Reset

\* The buffer never holds a whole block between two calls, for any block size
\* and any pieces; the counter of bytes stays within its bound.
THEOREM Sm3Types == Spec => []TypeOK
<1>1. Init => StreamInv
  BY FreshInv DEF Init
<1>2. StreamInv => TypeOK
  BY DEF StreamInv, TypeOK
<1> QED
  BY <1>1, <1>2, StreamInvStep, PTL DEF Spec

\* What is compressed and what is buffered are the message so far, however it
\* was cut into updates.
THEOREM MessageKept == Spec => []BufferInv
<1>1. Init => StreamInv
  BY FreshInv DEF Init
<1>2. StreamInv => BufferInv
  BY DEF StreamInv
<1> QED
  BY <1>1, <1>2, StreamInvStep, PTL DEF Spec

-----------------------------------------------------------------------------
(***************************************************************************)
(* Padding.                                                                *)
(***************************************************************************)

ZeroBytes(k) == [i \in 1 .. k |-> Zero]

\* The buffer of final: the message's end, the set bit, and zeros.
Zeroed(b, r) ==
  [i \in Place |-> IF i > r + 1 THEN Zero ELSE Copied(b, r, <<One>>)[i]]

\* The number of zeros, with r bytes of the message behind its last block.
LEMMA ZerosNumber ==
  ASSUME NEW q \in Nat, NEW r \in 0 .. Block - 1
  PROVE  Hash!Zeros(q * Block + r) =
           IF r + 1 > Block - LengthSize THEN (Block - (r + 1)) + (Block - LengthSize)
                                         ELSE Block - LengthSize - (r + 1)
<1> DEFINE n == q * Block + r
           z == IF r + 1 > Block - LengthSize THEN (Block - (r + 1)) + (Block - LengthSize)
                                              ELSE Block - LengthSize - (r + 1)
<1>1. Block \in Nat \ {0} /\ LengthSize \in Nat /\ LengthSize < Block /\ n \in Nat
  BY ConstantsAssumption, Product
<1>2. z \in 0 .. Block - 1
  BY <1>1
<1>3. (n + 1 + z + LengthSize) % Block = 0
  <2>1. CASE r + 1 > Block - LengthSize
    <3>1. ((q + 2) * Block + 0) % Block = 0
      BY <1>1, ModOf
    <3>2. (q + 2) * Block + 0 = q * Block + Block + Block
      BY <1>1
    <3>3. n + 1 + z + LengthSize = q * Block + Block + Block
      <4>1. q * Block \in Nat
        BY <1>1, Product
      <4> QED
        BY <1>1, <2>1, <4>1
    <3> QED
      BY <3>1, <3>2, <3>3
  <2>2. CASE r + 1 <= Block - LengthSize
    <3>1. ((q + 1) * Block + 0) % Block = 0
      BY <1>1, ModOf
    <3>2. (q + 1) * Block + 0 = q * Block + Block
      BY <1>1
    <3>3. n + 1 + z + LengthSize = q * Block + Block
      <4>1. q * Block \in Nat
        BY <1>1, Product
      <4> QED
        BY <1>1, <2>2, <4>1
    <3> QED
      BY <3>1, <3>2, <3>3
  <2> QED
    BY <1>1, <2>1, <2>2
<1> HIDE DEF n, z
<1>4. ASSUME NEW y \in 0 .. Block - 1, (n + 1 + y + LengthSize) % Block = 0
      PROVE  y = z
  <2>1. n + 1 + y + LengthSize \in Nat /\ n + 1 + z + LengthSize \in Nat
    BY <1>1, <1>2
  <2>2. PICK a \in Nat : n + 1 + y + LengthSize = a * Block
    <3>1. PICK a \in Nat, s \in Nat : /\ n + 1 + y + LengthSize = a * Block + s
                                      /\ (n + 1 + y + LengthSize) % Block = s
      <4>1. PICK x \in Nat : x = n + 1 + y + LengthSize
        BY <2>1
      <4>2. PICK a \in Nat, s \in Nat : x = a * Block + s /\ x % Block = s
        BY <1>1, DivMod
      <4> QED
        BY <4>1, <4>2
    <3>2. s = 0 /\ a * Block \in Nat
      BY <1>1, <1>4, <3>1, Product
    <3> QED
      BY <3>1, <3>2
  <2>3. PICK c \in Nat : n + 1 + z + LengthSize = c * Block
    <3>1. PICK c \in Nat, s \in Nat : /\ n + 1 + z + LengthSize = c * Block + s
                                      /\ (n + 1 + z + LengthSize) % Block = s
      <4>1. PICK x \in Nat : x = n + 1 + z + LengthSize
        BY <2>1
      <4>2. PICK c \in Nat, s \in Nat : x = c * Block + s /\ x % Block = s
        BY <1>1, DivMod
      <4> QED
        BY <4>1, <4>2
    <3>2. s = 0 /\ c * Block \in Nat
      BY <1>1, <1>3, <3>1, Product
    <3> QED
      BY <3>1, <3>2
  <2>4. /\ a < c => a * Block + Block <= c * Block
        /\ c < a => c * Block + Block <= a * Block
    BY <1>1, Apart
  <2>5. ~ (a < c) /\ ~ (c < a)
    <3>1. a * Block \in Nat /\ c * Block \in Nat
      BY <1>1, Product
    <3> QED
      BY <1>1, <1>2, <2>2, <2>3, <2>4, <3>1
  <2>6. a = c
    BY <2>5
  <2> QED
    BY <1>1, <1>2, <2>2, <2>3, <2>6
<1>5. Hash!Zeros(n) = z
  BY <1>2, <1>3, <1>4 DEF Hash!Zeros
<1> QED
  BY <1>5 DEF n, z

\* Zeros are a sequence, and two runs of them one.
LEMMA ZeroRuns ==
  ASSUME NEW S, Zero \in S
  PROVE  /\ \A k \in Nat : ZeroBytes(k) \in Seq(S) /\ Len(ZeroBytes(k)) = k
         /\ \A j, k \in Nat : ZeroBytes(j) \o ZeroBytes(k) = ZeroBytes(j + k)
<1>1. ASSUME NEW k \in Nat
      PROVE  ZeroBytes(k) \in Seq(S) /\ Len(ZeroBytes(k)) = k
  <2>1. ZeroBytes(k) \in [1 .. k -> S]
    BY DEF ZeroBytes
  <2> QED
    BY <2>1, BufferIsSeq
<1>2. ASSUME NEW j \in Nat, NEW k \in Nat
      PROVE  ZeroBytes(j) \o ZeroBytes(k) = ZeroBytes(j + k)
  <2>1. /\ ZeroBytes(j) \in Seq(S) /\ Len(ZeroBytes(j)) = j
        /\ ZeroBytes(k) \in Seq(S) /\ Len(ZeroBytes(k)) = k
        /\ ZeroBytes(j + k) \in Seq(S) /\ Len(ZeroBytes(j + k)) = j + k
    BY <1>1
  <2>2. /\ ZeroBytes(j) \o ZeroBytes(k) \in Seq(S)
        /\ Len(ZeroBytes(j) \o ZeroBytes(k)) = j + k
        /\ \A i \in 1 .. j + k :
             (ZeroBytes(j) \o ZeroBytes(k))[i] =
                IF i <= j THEN ZeroBytes(j)[i] ELSE ZeroBytes(k)[i - j]
    BY <2>1, ConcatProperties
  <2>3. ASSUME NEW i \in 1 .. j + k
        PROVE  (ZeroBytes(j) \o ZeroBytes(k))[i] = ZeroBytes(j + k)[i]
    <3>1. (ZeroBytes(j) \o ZeroBytes(k))[i] =
             IF i <= j THEN ZeroBytes(j)[i] ELSE ZeroBytes(k)[i - j]
      BY <2>2
    <3> QED
      BY <3>1 DEF ZeroBytes
  <2> QED
    BY <2>1, <2>2, <2>3, SeqEqual
<1> QED
  BY <1>1, <1>2

\* Zeroing what is behind the set bit.
ZeroesBehind(S, b, r, m) ==
  /\ Zeroed(b, r) \in [Place -> S]
  /\ First(b, r) \in Seq(S)
  /\ First(Zeroed(b, r), m) = (First(b, r) \o <<One>>) \o ZeroBytes(m - (r + 1))

LEMMA ZeroedFirst ==
  ASSUME NEW S, Zero \in S, One \in S,
         NEW b \in [Place -> S], NEW r \in 0 .. Block - 1, NEW m \in r + 1 .. Block
  PROVE  ZeroesBehind(S, b, r, m)
<1> DEFINE c == Copied(b, r, <<One>>)
           f == First(b, r)
           k == m - (r + 1)
<1>1. Block \in Nat /\ r \in Nat /\ m \in Nat /\ k \in Nat
  BY ConstantsAssumption
<1>2. PICK o \in Seq(S) : o = <<One>> /\ Len(o) = 1
  <2>1. <<One>> \in Seq(S) /\ Len(<<One>>) = 1
    OBVIOUS
  <2> QED
    BY <2>1
<1>3. /\ c \in [Place -> S] /\ f \in Seq(S) /\ Len(f) = r
      /\ First(c, r + 1) = f \o o
  <2>1. r + Len(o) <= Block
    BY <1>1, <1>2
  <2>2. Appends(S, b, r, o)
    BY <1>1, <2>1, CopyAppends
  <2> QED
    BY <1>2, <2>2 DEF Appends
<1>4. Zeroed(b, r) \in [Place -> S]
  <2>1. ASSUME NEW i \in Place PROVE Zeroed(b, r)[i] \in S
    BY <1>3 DEF Zeroed
  <2> QED
    BY <2>1 DEF Zeroed
<1>5. /\ Zeroed(b, r) \in Seq(S) /\ Len(Zeroed(b, r)) = Block
      /\ c \in Seq(S) /\ Len(c) = Block
  BY <1>1, <1>3, <1>4, BufferIsSeq DEF Place
<1> HIDE DEF c, f, k
<1>6. /\ First(Zeroed(b, r), m) \in Seq(S) /\ Len(First(Zeroed(b, r), m)) = m
      /\ \A i \in 1 .. m : First(Zeroed(b, r), m)[i] = Zeroed(b, r)[i]
  <2>1. m \in 0 .. Len(Zeroed(b, r))
    BY <1>1, <1>5
  <2> QED
    BY <1>5, <2>1, FirstRest
<1>7. PICK g \in Seq(S) : g = f \o o /\ Len(g) = r + 1
  <2>1. PICK h \in Seq(S) : h = f /\ Len(h) = r
    BY <1>3
  <2>2. h \o o \in Seq(S) /\ Len(h \o o) = Len(h) + Len(o)
    BY ConcatProperties
  <2> QED
    BY <1>1, <1>2, <2>1, <2>2
<1>8. \A i \in 1 .. r + 1 : g[i] = c[i]
  <2>1. r + 1 \in 0 .. Len(c)
    BY <1>1, <1>5
  <2>2. \A i \in 1 .. r + 1 : First(c, r + 1)[i] = c[i]
    BY <1>5, <2>1, FirstRest
  <2> QED
    BY <1>3, <1>7, <2>2
<1>9. PICK z \in Seq(S) : z = ZeroBytes(k) /\ Len(z) = k
  BY <1>1, ZeroRuns
<1>10. /\ g \o z \in Seq(S) /\ Len(g \o z) = (r + 1) + k
       /\ \A i \in 1 .. (r + 1) + k : (g \o z)[i] = IF i <= r + 1 THEN g[i] ELSE z[i - (r + 1)]
  <2>1. /\ g \o z \in Seq(S) /\ Len(g \o z) = Len(g) + Len(z)
        /\ \A i \in 1 .. Len(g) + Len(z) :
              (g \o z)[i] = IF i <= Len(g) THEN g[i] ELSE z[i - Len(g)]
    BY ConcatProperties
  <2> QED
    BY <1>7, <1>9, <2>1
<1>11. (r + 1) + k = m
  BY <1>1 DEF k
<1>12. ASSUME NEW i \in 1 .. m
       PROVE  First(Zeroed(b, r), m)[i] = (g \o z)[i]
  <2>1. First(Zeroed(b, r), m)[i] = IF i > r + 1 THEN Zero ELSE c[i]
    <3>1. i \in Place /\ First(Zeroed(b, r), m)[i] = Zeroed(b, r)[i]
      BY <1>1, <1>6 DEF Place
    <3> QED
      BY <3>1 DEF Zeroed, c
  <2>2. (g \o z)[i] = IF i <= r + 1 THEN g[i] ELSE z[i - (r + 1)]
    BY <1>10, <1>11
  <2>3. CASE i <= r + 1
    <3>1. i \in 1 .. r + 1 /\ ~ (i > r + 1)
      BY <1>1, <2>3
    <3> QED
      BY <1>8, <2>1, <2>2, <2>3, <3>1
  <2>4. CASE i > r + 1
    <3>1. z[i - (r + 1)] = Zero
      BY <1>1, <1>9, <1>11, <2>4 DEF ZeroBytes
    <3>2. ~ (i <= r + 1)
      BY <1>1, <2>4
    <3> QED
      BY <2>1, <2>2, <2>4, <3>1, <3>2
  <2>5. i <= r + 1 \/ i > r + 1
    BY <1>1
  <2> QED
    BY <2>3, <2>4, <2>5
<1>13. First(Zeroed(b, r), m) = g \o z
  BY <1>6, <1>10, <1>11, <1>12, SeqEqual
<1> QED
  BY <1>2, <1>3, <1>4, <1>7, <1>9, <1>13 DEF f, k, ZeroesBehind

\* Regrouping what final has put together.
RegroupsAll(a, b, c, d) == a \o ((b \o c) \o d) = ((a \o b) \o c) \o d

LEMMA AllAssociative ==
  ASSUME NEW S, NEW a \in Seq(S), NEW b \in Seq(S), NEW c \in Seq(S), NEW d \in Seq(S)
  PROVE  RegroupsAll(a, b, c, d)
<1>1. PICK x \in Seq(S) : x = b \o c
  BY ConcatProperties
<1>2. PICK y \in Seq(S) : y = a \o b
  BY ConcatProperties
<1>3. Regroups(a, x, d) /\ Regroups(a, b, c)
  BY Associative
<1> QED
  BY <1>1, <1>2, <1>3 DEF Regroups, RegroupsAll

\* The length fills the last bytes of a block.
LEMMA LengthAppended ==
  ASSUME NEW S, NEW b \in [Place -> S], NEW lf \in Seq(S), Len(lf) = LengthSize
  PROVE  /\ First(b, Block - LengthSize) \in Seq(S)
         /\ Copied(b, Block - LengthSize, lf) = First(b, Block - LengthSize) \o lf
<1>1. PICK at \in Nat : at = Block - LengthSize
  BY ConstantsAssumption
<1> DEFINE c == Copied(b, at, lf)
<1>2. /\ c \in [Place -> S] /\ First(b, at) \in Seq(S)
      /\ First(c, at + Len(lf)) = First(b, at) \o lf
  <2>1. at + Len(lf) <= Block
    BY <1>1, ConstantsAssumption
  <2>2. Appends(S, b, at, lf)
    BY <2>1, CopyAppends
  <2> QED
    BY <2>2 DEF Appends
<1>3. at + Len(lf) = Block /\ Block \in Nat
  BY <1>1, ConstantsAssumption
<1>4. c \in Seq(S) /\ Len(c) = Block
  BY <1>2, <1>3, BufferIsSeq DEF Place
<1>5. First(c, Block) = c
  BY <1>4, SubSeqFull DEF First
<1> QED
  BY <1>1, <1>2, <1>3, <1>5

\* Both ways final pads are the message, the set bit, zeros and the length.
Pads(st, b, r, lf) ==
  LET m  == st \o First(b, r)
      at == Block - LengthSize
  IN  /\ r + 1 > at => (st \o Zeroed(b, r)) \o Copied(Clear, at, lf)
                         = ((m \o <<One>>) \o ZeroBytes((Block - (r + 1)) + at)) \o lf
      /\ r + 1 <= at => (st \o <<>>) \o Copied(Zeroed(b, r), at, lf)
                          = ((m \o <<One>>) \o ZeroBytes(at - (r + 1))) \o lf

LEMMA FinalPads ==
  ASSUME NEW S, Zero \in S, One \in S, NEW st \in Seq(S), NEW b \in [Place -> S],
         NEW r \in 0 .. Block - 1, NEW lf \in Seq(S), Len(lf) = LengthSize
  PROVE  Pads(st, b, r, lf)
<1>1. PICK at \in Nat : at = Block - LengthSize
  BY ConstantsAssumption
<1>2. Block \in Nat /\ r \in Nat /\ at <= Block
  BY <1>1, ConstantsAssumption
<1>3. PICK o \in Seq(S) : o = <<One>>
  <2>1. <<One>> \in Seq(S)
    OBVIOUS
  <2> QED
    BY <2>1
<1>4. Block \in r + 1 .. Block
  BY <1>2
<1>5. /\ Zeroed(b, r) \in [Place -> S] /\ First(b, r) \in Seq(S)
      /\ First(Zeroed(b, r), Block) = (First(b, r) \o <<One>>) \o ZeroBytes(Block - (r + 1))
  <2>1. ZeroesBehind(S, b, r, Block)
    BY <1>4, ZeroedFirst
  <2> QED
    BY <2>1 DEF ZeroesBehind
<1>6. PICK f \in Seq(S) : f = First(b, r)
  BY <1>5
<1>7. First(Zeroed(b, r), Block) = Zeroed(b, r)
  <2>1. Zeroed(b, r) \in Seq(S) /\ Len(Zeroed(b, r)) = Block
    BY <1>2, <1>5, BufferIsSeq DEF Place
  <2> QED
    BY <2>1, SubSeqFull DEF First
<1>8. PICK m \in Seq(S) : m = (st \o f) \o o
  <2>1. PICK x \in Seq(S) : x = st \o f
    BY ConcatProperties
  <2>2. x \o o \in Seq(S)
    BY ConcatProperties
  <2> QED
    BY <2>1, <2>2
<1>9. ASSUME r + 1 > at
      PROVE  (st \o Zeroed(b, r)) \o Copied(Clear, at, lf)
               = (m \o ZeroBytes((Block - (r + 1)) + at)) \o lf
  <2>1. Block - (r + 1) \in Nat
    BY <1>2
  <2>2. PICK y \in Seq(S), z \in Seq(S) : y = ZeroBytes(Block - (r + 1)) /\ z = ZeroBytes(at)
    BY <1>1, <2>1, ZeroRuns
  <2>3. y \o z = ZeroBytes((Block - (r + 1)) + at)
    BY <1>1, <2>1, <2>2, ZeroRuns
  <2>4. Clear \in [Place -> S]
    BY DEF Clear
  <2>5. First(Clear, at) = z
    <3>1. Clear = ZeroBytes(Block)
      BY DEF Clear, ZeroBytes, Place
    <3>2. Clear \in Seq(S) /\ Len(Clear) = Block
      BY <1>2, <2>4, BufferIsSeq DEF Place
    <3>3. at \in 0 .. Len(Clear)
      BY <1>2, <3>2
    <3>4. /\ First(Clear, at) \in Seq(S) /\ Len(First(Clear, at)) = at
          /\ \A i \in 1 .. at : First(Clear, at)[i] = Clear[i]
      BY <3>2, <3>3, FirstRest
    <3>5. ZeroBytes(at) \in Seq(S) /\ Len(ZeroBytes(at)) = at
      BY <1>1, ZeroRuns
    <3>6. ASSUME NEW i \in 1 .. at PROVE First(Clear, at)[i] = ZeroBytes(at)[i]
      <4>1. i \in Place
        BY <1>2 DEF Place
      <4>2. Clear[i] = Zero /\ ZeroBytes(at)[i] = Zero
        BY <4>1 DEF Clear, ZeroBytes
      <4> QED
        BY <3>4, <4>2
    <3> QED
      BY <2>2, <3>4, <3>5, <3>6, SeqEqual
  <2>6. Copied(Clear, at, lf) = z \o lf
    BY <1>1, <2>4, <2>5, LengthAppended
  <2>7. st \o ((f \o o) \o y) = ((st \o f) \o o) \o y
    <3>1. RegroupsAll(st, f, o, y)
      BY AllAssociative
    <3> QED
      BY <3>1 DEF RegroupsAll
  <2>8. (m \o y) \o (z \o lf) = ((m \o y) \o z) \o lf
    <3>1. PICK x \in Seq(S) : x = m \o y
      BY ConcatProperties
    <3>2. Regroups(x, z, lf)
      BY Associative
    <3> QED
      BY <3>1, <3>2 DEF Regroups
  <2>9. (m \o y) \o z = m \o (y \o z)
    <3>1. Regroups(m, y, z)
      BY Associative
    <3> QED
      BY <3>1 DEF Regroups
  <2>10. Zeroed(b, r) = (f \o o) \o y
    BY <1>3, <1>5, <1>6, <1>7, <2>2
  <2> QED
    BY <1>8, <2>3, <2>6, <2>7, <2>8, <2>9, <2>10
<1>10. ASSUME r + 1 <= at
       PROVE  (st \o <<>>) \o Copied(Zeroed(b, r), at, lf)
                = (m \o ZeroBytes(at - (r + 1))) \o lf
  <2>1. at \in r + 1 .. Block /\ at - (r + 1) \in Nat
    BY <1>1, <1>2, <1>10
  <2>2. PICK y \in Seq(S) : y = ZeroBytes(at - (r + 1))
    BY <2>1, ZeroRuns
  <2>3. First(Zeroed(b, r), at) = (f \o o) \o y
    <3>1. ZeroesBehind(S, b, r, at)
      BY <2>1, ZeroedFirst
    <3> QED
      BY <1>3, <1>6, <2>2, <3>1 DEF ZeroesBehind
  <2>4. Copied(Zeroed(b, r), at, lf) = ((f \o o) \o y) \o lf
    BY <1>1, <1>5, <2>3, LengthAppended
  <2>5. st \o <<>> = st
    BY ConcatEmptySeq
  <2>6. st \o ((f \o o) \o y) = ((st \o f) \o o) \o y
    <3>1. RegroupsAll(st, f, o, y)
      BY AllAssociative
    <3> QED
      BY <3>1 DEF RegroupsAll
  <2>7. PICK x \in Seq(S) : x = (f \o o) \o y
    <3>1. PICK v \in Seq(S) : v = f \o o
      BY ConcatProperties
    <3>2. v \o y \in Seq(S)
      BY ConcatProperties
    <3> QED
      BY <3>1, <3>2
  <2>8. st \o (x \o lf) = (st \o x) \o lf
    <3>1. Regroups(st, x, lf)
      BY Associative
    <3> QED
      BY <3>1 DEF Regroups
  <2> QED
    BY <1>8, <2>2, <2>4, <2>5, <2>6, <2>7, <2>8
<1> QED
  BY <1>1, <1>3, <1>6, <1>8, <1>9, <1>10 DEF Pads

-----------------------------------------------------------------------------
(***************************************************************************)
(* The digest.                                                             *)
(***************************************************************************)

\* Bytes of messages and of length fields.
AnyByte == Byte \cup {LengthField(n)[i] : n \in Nat, i \in 1 .. LengthSize}

\* final pads the message that was given.
LEMMA FinalStep ==
  ASSUME StreamInv, Final
  PROVE  out' = Hash!Padded(message)
<1> DEFINE b  == First(buffer, buffer_size)
           lf == LengthField(total_bytes)
           at == Block - LengthSize
<1>1. /\ Zero \in AnyByte /\ One \in AnyByte /\ Byte \subseteq AnyByte
  BY ConstantsAssumption DEF AnyByte, Byte, Zero, One
<1>2. lf \in Seq(AnyByte) /\ Len(lf) = LengthSize
  <2>1. total_bytes \in Nat
    BY ConstantsAssumption DEF StreamInv
  <2>2. ASSUME NEW i \in 1 .. LengthSize PROVE lf[i] \in AnyByte
    BY <2>1 DEF AnyByte
  <2>3. lf \in [1 .. LengthSize -> AnyByte]
    BY <2>2 DEF LengthField
  <2> QED
    BY <2>3, ConstantsAssumption, BufferIsSeq
<1>3. /\ state \in Seq(AnyByte) /\ buffer \in [Place -> AnyByte]
      /\ buffer_size \in 0 .. Block - 1
  <2>1. state \in Seq(AnyByte)
    BY <1>1, SeqMonotonic DEF StreamInv
  <2>2. buffer \in [Place -> AnyByte]
    BY <1>1 DEF StreamInv
  <2> QED
    BY <2>1, <2>2 DEF StreamInv
<1>4. /\ NeedsTwo <=> buffer_size + 1 > at
      /\ ~ NeedsTwo => buffer_size + 1 <= at
  BY <1>3, ConstantsAssumption DEF NeedsTwo
<1>5. /\ NeedsTwo => out' = (state \o Zeroed(buffer, buffer_size)) \o Copied(Clear, at, lf)
      /\ ~ NeedsTwo => out' = (state \o <<>>) \o Copied(Zeroed(buffer, buffer_size), at, lf)
  BY DEF Final, Zeroed
<1>6. PICK st \in Seq(AnyByte), bf \in [Place -> AnyByte], r \in 0 .. Block - 1,
           len \in Seq(AnyByte) :
        st = state /\ bf = buffer /\ r = buffer_size /\ len = lf /\ Len(len) = LengthSize
  BY <1>2, <1>3
<1>7. /\ r + 1 > at => (st \o Zeroed(bf, r)) \o Copied(Clear, at, len)
           = (((st \o First(bf, r)) \o <<One>>) \o ZeroBytes((Block - (r + 1)) + at)) \o len
      /\ r + 1 <= at => (st \o <<>>) \o Copied(Zeroed(bf, r), at, len)
           = (((st \o First(bf, r)) \o <<One>>) \o ZeroBytes(at - (r + 1))) \o len
  <2>1. Pads(st, bf, r, len)
    BY <1>1, <1>6, FinalPads
  <2> QED
    BY <2>1 DEF Pads
<1>8. st \o First(bf, r) = message /\ len = LengthField(Len(message))
  BY <1>6 DEF StreamInv, BufferInv
<1>9. PICK q \in Nat : Len(message) = q * Block + r
  <2>1. Len(state) \in Nat /\ Len(state) % Block = 0
    BY LenProperties DEF StreamInv, BufferInv
  <2>2. Block \in Nat \ {0}
    BY ConstantsAssumption
  <2>3. PICK q \in Nat, s \in Nat : Len(state) = q * Block + s /\ Len(state) % Block = s
    BY <2>1, <2>2, DivMod
  <2>4. q * Block \in Nat /\ s = 0
    BY <2>1, <2>2, <2>3, Product
  <2>5. First(bf, r) \in Seq(AnyByte) /\ Len(First(bf, r)) = r
    <3>1. bf \in Seq(AnyByte) /\ Len(bf) = Block
      BY <2>2, BufferIsSeq DEF Place
    <3>2. r \in 0 .. Len(bf)
      BY <2>2, <3>1
    <3> QED
      BY <3>1, <3>2, FirstRest
  <2>6. PICK x \in Seq(AnyByte) : x = First(bf, r) /\ Len(x) = r
    BY <2>5
  <2>7. Len(st \o x) = Len(st) + Len(x)
    BY ConcatProperties
  <2> QED
    BY <1>6, <1>8, <2>3, <2>4, <2>6, <2>7
<1>10. Hash!Zeros(Len(message)) =
         IF r + 1 > at THEN (Block - (r + 1)) + at ELSE at - (r + 1)
  BY <1>9, ZerosNumber
<1>11. Hash!Padded(message) =
         ((message \o <<One>>) \o ZeroBytes(Hash!Zeros(Len(message)))) \o LengthField(Len(message))
  BY DEF Hash!Padded, ZeroBytes
<1> QED
  BY <1>4, <1>5, <1>6, <1>7, <1>8, <1>10, <1>11

\* Every step of the object is a step of the hash, or none.
LEMMA HashStep == StreamInv /\ [Next]_vars => [Hash!Next]_<<message, out>>
<1> SUFFICES ASSUME StreamInv, [Next]_vars PROVE [Hash!Next]_<<message, out>>
  OBVIOUS
<1>1. ASSUME NEW data \in Piece, Update(data) PROVE Hash!Next
  BY <1>1 DEF Update, Hash!Next, Hash!Update
<1>2. CASE Final
  <2>1. out' = Hash!Padded(message) /\ message' = <<>>
    BY <1>2, FinalStep DEF Final, Fresh
  <2> QED
    BY <2>1 DEF Hash!Next, Hash!Final
<1>3. CASE Reset
  BY <1>3 DEF Reset, Fresh, Hash!Next, Hash!Reset
<1>4. CASE UNCHANGED vars
  BY <1>4 DEF vars
<1> QED
  BY <1>1, <1>2, <1>3, <1>4 DEF Next

\* The digest of a message is that of its padding, of the fewest blocks, for
\* every way to cut it into updates and whatever was hashed before.
THEOREM HashImplemented == Spec => ImplementsHash
<1>1. Init => StreamInv
  BY FreshInv DEF Init
<1>2. Init => Hash!Init
  BY DEF Init, Hash!Init
<1> QED
  BY <1>1, <1>2, StreamInvStep, HashStep, PTL DEF Spec, ImplementsHash, Hash!Spec

-----------------------------------------------------------------------------
(***************************************************************************)
(* HMAC.                                                                   *)
(***************************************************************************)

\* What is behind a prefix.
LEMMA RestBehind ==
  ASSUME NEW S, NEW p \in Seq(S), NEW r \in Seq(S)
  PROVE  Rest(p \o r, Len(p)) = r
<1>1. /\ p \o r \in Seq(S) /\ Len(p \o r) = Len(p) + Len(r)
      /\ \A i \in 1 .. Len(p) + Len(r) :
           (p \o r)[i] = IF i <= Len(p) THEN p[i] ELSE r[i - Len(p)]
  BY ConcatProperties
<1>2. Len(p) \in Nat /\ Len(r) \in Nat
  BY LenProperties
<1>3. \A i \in Len(p) + 1 .. Len(p) + Len(r) : (p \o r)[i] \in S
  BY <1>1, <1>2, ElementOfSeq
<1>4. /\ Rest(p \o r, Len(p)) \in Seq(S) /\ Len(Rest(p \o r, Len(p))) = Len(r)
      /\ \A i \in 1 .. Len(r) : Rest(p \o r, Len(p))[i] = (p \o r)[Len(p) + i]
  <2>1. /\ SubSeq(p \o r, Len(p) + 1, Len(p) + Len(r)) \in Seq(S)
        /\ Len(SubSeq(p \o r, Len(p) + 1, Len(p) + Len(r))) =
             IF Len(p) + 1 <= Len(p) + Len(r) THEN Len(p) + Len(r) - (Len(p) + 1) + 1 ELSE 0
        /\ \A i \in 1 .. Len(p) + Len(r) - (Len(p) + 1) + 1 :
             SubSeq(p \o r, Len(p) + 1, Len(p) + Len(r))[i] = (p \o r)[Len(p) + 1 + i - 1]
    BY <1>1, <1>2, <1>3, SubSeqProperties
  <2> QED
    BY <1>1, <1>2, <2>1 DEF Rest
<1>5. ASSUME NEW i \in 1 .. Len(r) PROVE Rest(p \o r, Len(p))[i] = r[i]
  BY <1>1, <1>2, <1>4
<1> QED
  BY <1>2, <1>4, <1>5, SeqEqual

\* An HMAC object's hash has been given the inner pad of its key, and then what
\* it has been given itself.
HmacInv ==
  /\ key \in Key \cup {<<>>}
  /\ phase = "keyed" =>
       /\ key \in Key /\ outer_pad = OuterPad(key)
       /\ \E given \in Seq(Byte) : message = InnerPad(key) \o given

\* The pads are a block of bytes, and those of RFC 2104.
LEMMA Pad ==
  ASSUME NEW k \in Key
  PROVE  /\ InnerPad(k) \in Seq(Byte) /\ Len(InnerPad(k)) = Block
         /\ InnerPad(k) = [i \in Place |-> Ipad(Expanded(k)[i])]
         /\ OuterPad(k) = [i \in Place |-> Opad(Expanded(k)[i])]
<1> DEFINE s == IF Len(k) > Block THEN Digest(Hash!Padded(k)) ELSE k
<1>1. s \in Seq(Byte)
  BY HmacAssumption
<1>2. Len(k) \in Nat /\ Block \in Nat /\ Zero \in Byte
  BY HmacAssumption, ConstantsAssumption, LenProperties DEF Zero, Byte
<1>3. Len(s) \in Nat /\ DOMAIN s = 1 .. Len(s) /\ \A i \in 1 .. Len(s) : s[i] \in Byte
  BY <1>1, LenProperties, ElementOfSeq
<1>4. Normalized(k) = [i \in Place |-> IF i <= Len(s) THEN s[i] ELSE Zero]
  BY DEF Normalized, ZeroFilled
<1>5. Expanded(k) = [i \in Place |-> IF i \in DOMAIN s THEN s[i] ELSE Zero]
  BY <1>2 DEF Expanded
<1> HIDE DEF s
<1>6. ASSUME NEW i \in Place
      PROVE  Normalized(k)[i] = Expanded(k)[i] /\ Normalized(k)[i] \in Byte
  <2>1. i \in Nat \ {0}
    BY <1>2 DEF Place
  <2> QED
    BY <1>2, <1>3, <1>4, <1>5, <2>1
<1>7. /\ InnerPad(k) = [i \in Place |-> Ipad(Expanded(k)[i])]
      /\ OuterPad(k) = [i \in Place |-> Opad(Expanded(k)[i])]
  BY <1>6 DEF InnerPad, OuterPad
<1>8. InnerPad(k) \in [1 .. Block -> Byte]
  BY <1>6, HmacAssumption DEF InnerPad, Place
<1> QED
  BY <1>2, <1>7, <1>8, BufferIsSeq

\* Every step keeps the invariants, of the hash and of the object around it.
LEMMA HmacInvStep ==
  StreamInv /\ HmacInv /\ [HashNext]_<<vars, hmacVars>> => StreamInv' /\ HmacInv'
<1> SUFFICES ASSUME StreamInv, HmacInv, [HashNext]_<<vars, hmacVars>>
             PROVE  StreamInv' /\ HmacInv'
  OBVIOUS
<1>1. CASE phase = "none" /\ Next /\ UNCHANGED hmacVars
  BY <1>1, StreamInvStep DEF HmacInv, hmacVars
<1>2. CASE Construct
  <2>1. PICK k \in Key : /\ key' = k /\ Update(InnerPad(k)) /\ outer_pad' = OuterPad(k)
    BY <1>2 DEF Construct
  <2>2. InnerPad(k) \in Seq(Byte)
    BY Pad
  <2>3. StreamInv'
    BY <2>1, <2>2, BufferedInv, CompressedInv DEF Update
  <2>4. message' = InnerPad(k) \o <<>>
    <3>1. message' = <<>> \o InnerPad(k)
      BY <1>2, <2>1 DEF Construct, Update
    <3> QED
      BY <2>2, <3>1, ConcatEmptySeq
  <2>5. <<>> \in Seq(Byte)
    BY EmptySeq
  <2> QED
    BY <2>1, <2>3, <2>4, <2>5 DEF HmacInv
<1>3. CASE HmacUpdate
  <2>1. PICK data \in Piece : Update(data)
    BY <1>3 DEF HmacUpdate
  <2>2. data \in Seq(Byte)
    BY ConstantsAssumption
  <2>3. StreamInv'
    BY <2>1, <2>2, BufferedInv, CompressedInv DEF Update
  <2>4. /\ phase = "keyed" /\ key \in Key /\ outer_pad = OuterPad(key)
        /\ phase' = phase /\ key' = key /\ outer_pad' = outer_pad
    BY <1>3 DEF HmacUpdate, hmacVars, HmacInv
  <2>5. PICK given \in Seq(Byte) : message = InnerPad(key) \o given
    BY <2>4 DEF HmacInv
  <2>6. given \o data \in Seq(Byte)
    BY <2>2, ConcatProperties
  <2>7. message' = InnerPad(key) \o (given \o data)
    <3>1. InnerPad(key) \in Seq(Byte)
      BY <2>4, Pad
    <3>2. Regroups(InnerPad(key), given, data)
      BY <2>2, <3>1, Associative
    <3> QED
      BY <2>1, <2>5, <3>2 DEF Update, Regroups
  <2> QED
    BY <2>3, <2>4, <2>6, <2>7 DEF HmacInv
<1>4. CASE HmacFinal
  <2>1. Final /\ phase' = "done" /\ key' = key
    BY <1>4 DEF HmacFinal
  <2> QED
    BY <2>1, StreamInvStep DEF Next, HmacInv
<1>5. CASE Destroy
  <2>1. Reset /\ phase' = "destroyed" /\ key' = key
    BY <1>5 DEF Destroy
  <2> QED
    BY <2>1, StreamInvStep DEF Next, HmacInv
<1>6. CASE UNCHANGED <<vars, hmacVars>>
  <2>1. StreamInv'
    BY <1>6, StreamInvStep
  <2> QED
    BY <1>6, <2>1 DEF HmacInv, hmacVars, vars
<1> QED
  BY <1>1, <1>2, <1>3, <1>4, <1>5, <1>6 DEF HashNext, HmacNext

\* What final returns.
LEMMA HmacFinalStep ==
  ASSUME StreamInv, HmacInv, HmacFinal
  PROVE  mac' = <<[i \in Place |-> Opad(Expanded(key)[i])],
                  Hash!Padded([i \in Place |-> Ipad(Expanded(key)[i])] \o Rest(message, Block))>>
<1>1. Final /\ mac' = <<outer_pad, out'>> /\ key \in Key /\ outer_pad = OuterPad(key)
  BY DEF HmacFinal, HmacInv
<1>2. PICK given \in Seq(Byte) : message = InnerPad(key) \o given
  BY DEF HmacFinal, HmacInv
<1>3. /\ InnerPad(key) \in Seq(Byte) /\ Len(InnerPad(key)) = Block
      /\ InnerPad(key) = [i \in Place |-> Ipad(Expanded(key)[i])]
      /\ OuterPad(key) = [i \in Place |-> Opad(Expanded(key)[i])]
  BY <1>1, Pad
<1>4. Rest(message, Block) = given
  BY <1>2, <1>3, RestBehind
<1>5. out' = Hash!Padded(message)
  BY <1>1, FinalStep
<1> QED
  BY <1>1, <1>2, <1>3, <1>4, <1>5

\* Every MAC that an object of class HmacSm3 returns is HMAC of its key and of
\* all that update was given: for every key, shorter than a block or longer, and
\* however the data was cut.
THEOREM EveryMacIsHmac == HmacSpec => IsHmac
<1>1. Init /\ HmacInit => StreamInv /\ HmacInv
  BY FreshInv DEF Init, HmacInit, HmacInv
<1>2. ASSUME StreamInv, HmacInv, [HashNext]_<<vars, hmacVars>>
      PROVE  [HmacFinal =>
                mac' = <<[i \in Place |-> Opad(Expanded(key)[i])],
                         Hash!Padded([i \in Place |-> Ipad(Expanded(key)[i])]
                                     \o Rest(message, Block))>>]_<<vars, hmacVars>>
  BY <1>2, HmacFinalStep
<1> QED
  BY <1>1, <1>2, HmacInvStep, PTL DEF HmacSpec, IsHmac
=============================================================================
