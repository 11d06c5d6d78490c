------------------------------ MODULE BlockCounter ------------------------------
(***************************************************************************)
(* The counters of CtrParallel as the 16-byte arrays of src/src/sm4.cpp.   *)
(* A thread steps its copy with increment_counter, and gets the first one  *)
(* with add_counter.                                                       *)
(***************************************************************************)
EXTENDS CtrParallel

CONSTANTS
  Base,    \* values of a byte, 256
  Bytes,   \* bytes of a counter, 16
  Word     \* values of the uint64_t that holds a number of blocks

Place   == 1 .. Bytes
Block16 == [Place -> 0 .. Base - 1]

\* The number an array stands for, most significant byte first, and back.
Value(a) ==
  LET upTo[i \in 0 .. Bytes] == IF i = 0 THEN 0 ELSE upTo[i - 1] * Base + a[i]
  IN  upTo[Bytes]
Digits(n) == CHOOSE a \in Block16 : Value(a) = n

ASSUME CounterAssumption ==
  /\ Base \in Nat \ {0, 1} /\ Bytes \in Nat \ {0}
  /\ Word \in Nat \ {0} /\ \A s \in Sizes : s < Word
  /\ Period = Value([i \in Place |-> Base - 1]) + 1

\* increment_counter: the carry goes on from a byte that became zero.
CarriesTo(a, i) == \A j \in Place : j > i => a[j] = Base - 1
Incremented(a)  == [i \in Place |-> IF CarriesTo(a, i) THEN (a[i] + 1) % Base ELSE a[i]]

\* One turn of add_counter's loop: what is left to add becomes the rest of the
\* number and the carry of the sum.
AddByteDropped(acc, i) ==
  LET sum == acc.counter[i] + (acc.blocks % Base)
  IN  [counter |-> [acc.counter EXCEPT ![i] = sum % Base], blocks |-> acc.blocks \div Base]
AddByte(acc, i) ==
  LET sum == acc.counter[i] + (acc.blocks % Base)
  IN  [counter |-> [acc.counter EXCEPT ![i] = sum % Base],
       blocks  |-> (acc.blocks \div Base + sum \div Base) % Word]

\* add_counter, from the last byte to the first.
Added(a, n) ==
  LET after[k \in 0 .. Bytes] == IF k = 0 THEN [counter |-> a, blocks |-> n]
                                 ELSE AddByte(after[k - 1], Bytes + 1 - k)
  IN  after[Bytes].counter

-----------------------------------------------------------------------------
\* Each operation on an array is that on the number it stands for, through every
\* carry and past the wrap: the thread that starts at a block with add_counter
\* and the one that increments its way there use the same counter.
CountersAreNumbers ==
  \A w \in Worker :
     /\ Value(Incremented(Digits(job[w].counter))) = AddCounter(job[w].counter, 1)
     /\ Started(w) => Value(Added(Digits(nonce), w * Width)) = AddCounter(nonce, w * Width)
=============================================================================
