------------------------------ MODULE RandomBytes ------------------------------
(***************************************************************************)
(* random_bytes (src/src/crypto.cpp): getrandom in a loop that survives    *)
(* interruptions and short reads, and /dev/urandom if getrandom fails.     *)
(* Each key, nonce and salt of a vault comes from here.                    *)
(***************************************************************************)
EXTENDS Naturals

CONSTANT MaxSize   \* bound: the most bytes asked for

ASSUME RandomAssumption == MaxSize \in Nat

VARIABLES
  size,      \* bytes asked for
  bytes,     \* per byte, "zero" as allocated or the source it was read from
  filled,    \* where the span that is left to fill begins
  source         \* "getrandom", "urandom", "returned" or "threw"

randomVars == <<size, bytes, filled, source>>

Source == {"getrandom", "urandom"}

RandomTypeOK ==
  /\ size \in 0 .. MaxSize
  /\ bytes \in [1 .. size -> Source \cup {"zero"}]
  /\ filled \in 0 .. size
  /\ source \in {"getrandom", "urandom", "returned", "threw"}

RandomInit ==
  /\ size \in 0 .. MaxSize
  /\ bytes = [k \in 1 .. size |-> "zero"]
  /\ filled = 0
  /\ source = "getrandom"

\* What is asked for, and where the span begins after n bytes of it.
Asked == size - filled
NotAdvanced(n) == filled
Advanced(n) == filled + n

\* getrandom(2) fills some bytes of the span, at least one.
Getrandom ==
  /\ source = "getrandom"
  /\ filled < size
  /\ \E n \in 1 .. Asked :
       /\ bytes' = [k \in 1 .. size |->
                      IF k \in filled + 1 .. filled + n THEN "getrandom" ELSE bytes[k]]
       /\ filled' = Advanced(n)
  /\ UNCHANGED <<size, source>>

\* It is interrupted before it has read anything: errno is EINTR, and the loop
\* calls it again.
Interrupted ==
  /\ source = "getrandom"
  /\ filled < size
  /\ UNCHANGED randomVars

\* Any other error is thrown, and caught by random_bytes.
GetrandomFails ==
  /\ source = "getrandom"
  /\ filled < size
  /\ source' = "urandom"
  /\ UNCHANGED <<size, bytes, filled>>

\* The loop's end, or the early return for no bytes at all.
FirstReadSuffices == filled > 0 \/ size = 0
AllFilled == filled = size

Finish ==
  /\ source = "getrandom"
  /\ AllFilled
  /\ source' = "returned"
  /\ UNCHANGED <<size, bytes, filled>>

\* The fallback reads all of the buffer: the span that fill_random_getrandom
\* shortened was its own.
Urandom ==
  /\ source = "urandom"
  /\ bytes' = [k \in 1 .. size |-> "urandom"]
  /\ source' = "returned"
  /\ UNCHANGED <<size, filled>>

\* It cannot be opened, or the read is short.
UrandomFails ==
  /\ source = "urandom"
  /\ \E n \in 0 .. size - 1 :
       bytes' = [k \in 1 .. size |-> IF k \in 1 .. n THEN "urandom" ELSE bytes[k]]
  /\ source' = "threw"
  /\ UNCHANGED <<size, filled>>

RandomNext == \/ Getrandom \/ Interrupted \/ GetrandomFails
        \/ Finish \/ Urandom \/ UrandomFails

\* getrandom is not interrupted for ever; it need not fail either.
RandomSpec == RandomInit /\ [][RandomNext]_randomVars
        /\ WF_randomVars(Getrandom \/ Finish \/ Urandom \/ UrandomFails)

-----------------------------------------------------------------------------
\* No returned byte is the zero the buffer was allocated with, wherever
\* getrandom stopped or failed.
NoByteUnfilled == source = "returned" => \A k \in 1 .. size : bytes[k] # "zero"

\* Every call returns or throws.
Answers == <>(source \in {"returned", "threw"})
=============================================================================
