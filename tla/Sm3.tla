---------------------------------- MODULE Sm3 ----------------------------------
(***************************************************************************)
(* class Sm3 (src/src/sm3.cpp): the buffering and padding of one object,   *)
(* which a caller feeds, finishes and uses again.  compress is fixed       *)
(* arithmetic on a block; state_ is what it has been given since reset.    *)
(***************************************************************************)
EXTENDS Integers, Sequences

CONSTANTS
  Base,        \* values of a byte, 256
  Block,       \* the size of buffer_, 64
  LengthSize,  \* bytes of the length field, 8
  Bits,        \* bits of a byte, 8
  Word,        \* values of a uint64_t
  Piece,       \* what the caller may pass to update
  MaxMessage   \* bound: bytes between two resets

Byte == 0 .. Base - 1
Zero == 0
One  == Base \div 2

ASSUME ConstantsAssumption ==
  /\ Base \in Nat \ {0, 1}
  /\ Block \in Nat /\ LengthSize \in Nat /\ LengthSize < Block
  /\ Bits \in Nat /\ Word \in Nat
  /\ MaxMessage \in Nat /\ MaxMessage < Word
  /\ Piece \subseteq Seq(Byte)

VARIABLES
  state,        \* state_: the bytes compressed since the reset
  buffer,       \* buffer_: the end of the message, then bytes of earlier blocks
  buffer_size,
  total_bytes,
  out,          \* what final returned last
  message       \* not in the code: what update was given since the reset

vars == <<state, buffer, buffer_size, total_bytes, out, message>>

Place == 1 .. Block
Clear == [i \in Place |-> Zero]

First(s, n) == SubSeq(s, 1, n)
Rest(s, n)  == SubSeq(s, n + 1, Len(s))

\* Buffer b with s copied into it after its first `at` bytes.
CopiedInFront(b, at, s) == [i \in Place |-> IF i <= Len(s) THEN s[i] ELSE b[i]]
Copied(b, at, s) == [i \in Place |-> IF at < i /\ i <= at + Len(s) THEN s[i - at] ELSE b[i]]

\* The bytes of s in whole blocks.
Whole(s) == First(s, (Len(s) \div Block) * Block)

TypeOK ==
  /\ state \in Seq(Byte) /\ message \in Seq(Byte)
  /\ buffer \in [Place -> Byte]
  /\ buffer_size \in 0 .. Block - 1
  /\ total_bytes \in 0 .. MaxMessage

Fresh ==
  /\ state' = <<>> /\ buffer' = Clear /\ buffer_size' = 0 /\ total_bytes' = 0
  /\ message' = <<>>

Init ==
  /\ state = <<>> /\ buffer = Clear /\ buffer_size = 0 /\ total_bytes = 0
  /\ message = <<>> /\ out = <<>>

-----------------------------------------------------------------------------
\* data does not fill the buffer that earlier updates have begun.
Buffered(data) ==
  /\ buffer_size > 0 /\ Len(data) < Block - buffer_size
  /\ buffer' = Copied(buffer, buffer_size, data)
  /\ buffer_size' = buffer_size + Len(data)
  /\ UNCHANGED state

\* data completes a begun buffer, if there is one; then come its whole blocks,
\* and what is left begins the next buffer.
Needed == IF buffer_size > 0 THEN Block - buffer_size ELSE 0

Compressed(data) ==
  LET full == Copied(buffer, buffer_size, First(data, Needed))
      rest == Rest(data, Needed)
      left == Rest(rest, Len(Whole(rest)))
  IN  /\ Needed <= Len(data)
      /\ state' = state \o (IF Needed > 0 THEN full ELSE <<>>) \o Whole(rest)
      /\ buffer' = Copied(full, 0, left)
      /\ buffer_size' = Len(left)

Update(data) ==
  /\ total_bytes + Len(data) <= MaxMessage
  /\ total_bytes' = (total_bytes + Len(data)) % Word
  /\ Buffered(data) \/ Compressed(data)
  /\ message' = message \o data
  /\ UNCHANGED out

\* bit_len, most significant byte first.
LengthField(bytes) ==
  [i \in 1 .. LengthSize |-> (((bytes * Bits) % Word) \div Base ^ (LengthSize - i)) % Base]

\* The length does not fit behind the message and its set bit.
NeedsTwoLate == buffer_size > Block - LengthSize
NeedsTwo     == buffer_size + 1 > Block - LengthSize

Final ==
  LET marked == Copied(buffer, buffer_size, <<One>>)
      zeroed == [i \in Place |-> IF i > buffer_size + 1 THEN Zero ELSE marked[i]]
      base   == IF NeedsTwo THEN Clear ELSE zeroed
  IN  /\ out' = state \o (IF NeedsTwo THEN zeroed ELSE <<>>)
                      \o Copied(base, Block - LengthSize, LengthField(total_bytes))
      /\ Fresh

\* Called by HmacSm3 when a key is to be forgotten.
Reset == Fresh /\ UNCHANGED out

Next == (\E data \in Piece : Update(data)) \/ Final \/ Reset

Spec == Init /\ [][Next]_vars

-----------------------------------------------------------------------------
\* No byte of the message is lost, repeated or hashed out of order, wherever the
\* updates are cut: what is compressed, in whole blocks, and what is buffered
\* are the message so far.
BufferInv ==
  /\ state \o First(buffer, buffer_size) = message
  /\ Len(state) % Block = 0
  /\ total_bytes = Len(message)

\* An object's digest is that of the padded message, of the fewest blocks, and
\* nothing of one message reaches the next one's digest.
Hash == INSTANCE HashStream WITH digest <- out
ImplementsHash == Hash!Spec
=============================================================================
