------------------------------ MODULE HashStream ------------------------------
(***************************************************************************)
(* What a streaming hash promises: however a message is cut into updates,  *)
(* its digest is that of the whole message, padded once.  The compression  *)
(* function is not interpreted: a digest is what is compressed for it.     *)
(***************************************************************************)
EXTENDS Integers, Sequences

CONSTANTS
  Piece,             \* what the caller may add to the message
  Block, LengthSize, \* bytes per block, and of the length field that ends the last
  Zero, One,         \* the bytes of the padding
  LengthField(_)     \* the length field of a message of so many bytes

VARIABLES message, digest

\* The fewest zeros that make the padded message a number of whole blocks.
Zeros(n) == CHOOSE z \in 0 .. Block - 1 : (n + 1 + z + LengthSize) % Block = 0

Padded(m) ==
  m \o <<One>> \o [i \in 1 .. Zeros(Len(m)) |-> Zero] \o LengthField(Len(m))

Init == message = <<>> /\ digest = <<>>

Update == \E data \in Piece : message' = message \o data /\ UNCHANGED digest

Final == message' = <<>> /\ digest' = Padded(message)

Reset == message' = <<>> /\ UNCHANGED digest

Next == Update \/ Final \/ Reset

Spec == Init /\ [][Next]_<<message, digest>>
=============================================================================
