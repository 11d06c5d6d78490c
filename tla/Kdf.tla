---------------------------------- MODULE Kdf ----------------------------------
(***************************************************************************)
(* The key derivations of src/src/hmac_sm3.cpp: a behaviour is one call of *)
(* hkdf_sm3 or of pbkdf2_hmac_sm3.  HMAC is uninterpreted.  In HKDF it is  *)
(* the sequence of counters hashed into it; in PBKDF2 U_i of a block is    *)
(* the pair <<block, i>>, and the XOR of several is the set of those that  *)
(* occur an odd number of times.                                           *)
(***************************************************************************)
EXTENDS Naturals, Sequences

CONSTANTS
  MacSize,         \* bytes of an HMAC, 32
  CounterValues,           \* values of HKDF's std::uint8_t counter, 256
  BlockValues,           \* values of PBKDF2's std::uint32_t counters
  MaxIterations,  \* bound: the largest iteration count
  HkdfSizes, Pbkdf2Sizes   \* bound: the lengths asked for

ASSUME KdfAssumption ==
  /\ MacSize \in Nat \ {0} /\ CounterValues \in Nat \ {0, 1} /\ BlockValues \in Nat \ {0, 1}
  /\ MaxIterations \in 1 .. BlockValues - 1
  /\ HkdfSizes \subseteq Nat /\ Pbkdf2Sizes \subseteq Nat

VARIABLES
  call, iterations, output_size,   \* the function and its arguments
  output, written,
  counter, i,     \* HKDF's counter or PBKDF2's block, and PBKDF2's inner loop
  last, t,        \* the last HMAC (previous, u), the XOR of the block's HMACs
  step              \* "check", "loop", "mix", "returned" or "threw"

request == <<call, iterations, output_size>>
kdfVars == <<request, output, written, counter, i, last, t, step>>

Hkdf   == call = "hkdf"
Pbkdf2 == call = "pbkdf2"

Chain  == Seq(0 .. CounterValues - 1)
U      == (0 .. BlockValues - 1) \X Nat
Offset == 0 .. MacSize - 1
Xor(a, b) == (a \ b) \cup (b \ a)

KdfTypeOK ==
  /\ \/ Hkdf /\ output_size \in HkdfSizes
        /\ output \in Seq(Chain \X Offset) /\ Len(output) = written
        /\ counter \in 0 .. CounterValues - 1 /\ last \in Chain
     \/ Pbkdf2 /\ output_size \in Pbkdf2Sizes
        /\ output \in Seq((SUBSET U) \X Offset) /\ Len(output) = output_size
        /\ counter \in 0 .. BlockValues - 1 /\ last \in U \cup {<<>>}
  /\ iterations \in 0 .. MaxIterations /\ i \in 1 .. BlockValues - 1
  /\ written \in 0 .. output_size
  /\ t \subseteq U
  /\ step \in {"check", "loop", "mix", "returned", "threw"}

\* SecureBytes output(output_size): bytes that are the XOR of nothing.
ZeroByte == <<{}, 0>>

KdfInit ==
  /\ \/ call = "hkdf" /\ iterations = 0 /\ output_size \in HkdfSizes
        /\ output = <<>>
     \/ call = "pbkdf2" /\ iterations \in 0 .. MaxIterations /\ output_size \in Pbkdf2Sizes
        /\ output = [p \in 1 .. output_size |-> ZeroByte]
  /\ written = 0 /\ counter = 1 /\ i = 1
  /\ last = <<>> /\ t = {}
  /\ step = "check"

-----------------------------------------------------------------------------
OneMore  == output_size > CounterValues * MacSize
TooLarge == output_size > (CounterValues - 1) * MacSize

Blocks == (output_size + MacSize - 1) \div MacSize

Refused == \/ Hkdf /\ TooLarge
           \/ Pbkdf2 /\ (iterations = 0 \/ Blocks > BlockValues - 1)

Check ==
  /\ step = "check"
  /\ step' = IF Refused THEN "threw" ELSE "loop"
  /\ UNCHANGED <<request, output, written, counter, i, last, t>>

MoreBlocks == IF Hkdf THEN written < output_size ELSE counter <= Blocks

Taken == IF MacSize < output_size - written THEN MacSize ELSE output_size - written

\* HKDF: the block before goes into the HMAC of every block but the first.
HmacUnchained == <<counter>>
Hmac == IF counter # 1 THEN Append(last, counter) ELSE <<counter>>

Derive ==
  /\ Hkdf /\ step = "loop" /\ MoreBlocks
  /\ last' = Hmac
  /\ output' = output \o [j \in 1 .. Taken |-> <<Hmac, j - 1>>]
  /\ written' = written + Taken
  /\ counter' = (counter + 1) % CounterValues
  /\ UNCHANGED <<request, i, t, step>>

\* PBKDF2: U_1 is the HMAC of the salt and the block's number.
FirstU ==
  /\ Pbkdf2 /\ step = "loop" /\ MoreBlocks
  /\ last' = <<counter, 1>> /\ t' = {<<counter, 1>>}
  /\ i' = 1
  /\ step' = "mix"
  /\ UNCHANGED <<request, output, written, counter>>

NextUAssigned(next) == {next}
NextU(next) == Xor(t, {next})

Mix ==
  /\ step = "mix" /\ i < iterations
  /\ LET next == <<last[1], last[2] + 1>>
     IN  last' = next /\ t' = NextU(next)
  /\ i' = (i + 1) % BlockValues
  /\ UNCHANGED <<request, output, written, counter, step>>

NextBlockNarrow == (counter + 1) % (BlockValues \div 2)
NextBlock == (counter + 1) % BlockValues

\* std::copy_n(t, take, output + written).
Emit ==
  /\ step = "mix" /\ i >= iterations
  /\ output' = [p \in 1 .. output_size |->
                  IF p \in written + 1 .. written + Taken
                  THEN <<t, p - written - 1>> ELSE output[p]]
  /\ written' = written + Taken
  /\ last' = <<>> /\ t' = {}
  /\ counter' = NextBlock
  /\ step' = "loop"
  /\ UNCHANGED <<request, i>>

Return ==
  /\ step = "loop" /\ ~ MoreBlocks
  /\ step' = "returned"
  /\ UNCHANGED <<request, output, written, counter, i, last, t>>

KdfNext == Check \/ Derive \/ FirstU \/ Mix \/ Emit \/ Return

\* Straight-line code in one thread.
KdfSpec == KdfInit /\ [][KdfNext]_kdfVars /\ WF_kdfVars(KdfNext)

-----------------------------------------------------------------------------
\* RFC 5869: block n is chained from the n - 1 before it and its counter is n.
\* RFC 8018: a byte comes from the XOR of U_1 to U_iterations of its block.
Expected(p) ==
  LET n == p \div MacSize + 1
  IN  <<IF Hkdf THEN [k \in 1 .. n |-> k]
        ELSE {<<n, k>> : k \in 1 .. iterations}, p % MacSize>>

\* At every point of hkdf_sm3 the output is the beginning of what HKDF defines,
\* up to the last block the counter can number: no counter is used twice, and
\* no block but the first misses its predecessor.
IsHkdf == Hkdf => \A p \in 1 .. written : output[p] = Expected(p - 1)

\* What pbkdf2_hmac_sm3 has written of the key is what PBKDF2 defines, and a
\* call that returns has left none of its zero bytes.
IsPbkdf2 ==
  Pbkdf2 => /\ \A p \in 1 .. written : output[p] = Expected(p - 1)
            /\ step = "returned" => written = output_size

\* PBKDF2 with as many blocks as its counter can number and not count past.
Uncountable == Pbkdf2 /\ iterations > 0 /\ Blocks = BlockValues - 1

\* Every call but one kind ends: a request for more blocks than the counter can
\* number, or for no iteration, is refused before a byte is written, and any other
\* is answered in full.  The one kind is PBKDF2 with exactly BlockValues - 1 blocks:
\* the check admits it, and the loop goes on after the last of them for ever.
Answered ==
  LET blocks == IF Hkdf THEN CounterValues - 1 ELSE BlockValues - 1
      refused == output_size > blocks * MacSize \/ (Pbkdf2 /\ iterations = 0)
  IN  /\ refused => <>(step = "threw" /\ written = 0)
      /\ ~ refused /\ ~ Uncountable => <>(step = "returned" /\ written = output_size)
      /\ Uncountable => [](step \notin {"returned", "threw"})
=============================================================================
