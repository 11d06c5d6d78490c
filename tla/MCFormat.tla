------------------------------- MODULE MCFormat -------------------------------
(***************************************************************************)
(* Instances of Format and Sealing for TLC: bytes of two values, lengths   *)
(* below four, and a keystream that differs between keys, nonces and       *)
(* positions.                                                              *)
(***************************************************************************)
EXTENDS Sealing

MCByte == {0, 1}

MCStream(key, nonce, i) ==
  FoldLeft(LAMBDA acc, k : 5 * acc + k, 7 * nonce + 3 * i, key)

\* What the proofs assume holds of the instance with room for its lengths; the
\* other is there for what happens without.
ASSUME RoomForLengths == MaxContent < Word => LengthsFit /\ ListsFit /\ CellsFit /\ FilesFit
=============================================================================
