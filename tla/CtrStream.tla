------------------------------- MODULE CtrStream -------------------------------
(***************************************************************************)
(* What CTR mode promises: block b of the input is combined, once, with    *)
(* the keystream block of counter nonce + b, in any order, and the call    *)
(* returns when all of them are.  A call may also fail half way.           *)
(***************************************************************************)
EXTENDS Integers, Sequences

CONSTANTS BlockSize, Period

VARIABLES
  size, nonce,   \* the input's length, the number its 16-byte nonce stands for
  out,           \* per byte, the keystream bytes it has been combined with
  result         \* "running", "returned" or "threw"

vars == <<size, nonce, out, result>>

Position == 0 .. size - 1

\* A keystream byte: the counter of its block and its place in the block.
Keystream(b, r) == <<(nonce + b) % Period, r>>

\* The bytes of block b; the last block may be short.
BlockBytes(b) == {p \in Position : b * BlockSize <= p /\ p < b * BlockSize + BlockSize}

Init ==
  /\ size \in Nat
  /\ nonce \in 0 .. Period - 1
  /\ out = [p \in Position |-> <<>>]
  /\ result = "running"

Combine(b) ==
  /\ result = "running"
  /\ BlockBytes(b) # {}
  /\ \A p \in BlockBytes(b) : out[p] = <<>>
  /\ out' = [p \in Position |-> IF p \in BlockBytes(b)
                                THEN <<Keystream(b, p - b * BlockSize)>> ELSE out[p]]
  /\ UNCHANGED <<size, nonce, result>>

Return ==
  /\ result = "running"
  /\ \A p \in Position : out[p] # <<>>
  /\ result' = "returned"
  /\ UNCHANGED <<size, nonce, out>>

Throw ==
  /\ result = "running"
  /\ result' = "threw"
  /\ UNCHANGED <<size, nonce, out>>

Next == (\E b \in 0 .. size : Combine(b)) \/ Return \/ Throw

Spec == Init /\ [][Next]_vars
=============================================================================
