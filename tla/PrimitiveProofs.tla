---------------------------- MODULE PrimitiveProofs ----------------------------
(***************************************************************************)
(* The SM4 block cipher, random_bytes, hkdf_sm3 and pbkdf2_hmac_sm3, the   *)
(* secure buffers and the command line, for every value of the constants.  *)
(***************************************************************************)
EXTENDS Sm4Block, RandomBytes, Kdf, SecureBuffer, Cli, Arithmetic, SequenceTheorems,
        FiniteSetTheorems, TLAPS

-----------------------------------------------------------------------------
\* XOR of words: what the rounds need of it.
LEMMA XorType ==
  ASSUME NEW v \in Word4, NEW w \in Word4
  PROVE  WordXor(v, w) \in Word4
BY DEF WordXor, Word4

LEMMA XorCommutes ==
  ASSUME NEW v, NEW w
  PROVE  WordXor(v, w) = WordXor(w, v)
BY DEF WordXor

LEMMA XorAssociates ==
  ASSUME NEW u, NEW v, NEW w
  PROVE  WordXor(WordXor(u, v), w) = WordXor(u, WordXor(v, w))
BY DEF WordXor

LEMMA XorCancels ==
  ASSUME NEW v, NEW w
  PROVE  WordXor(WordXor(v, w), w) = v
BY DEF WordXor

\* The three words of a round may be taken in reverse.
LEMMA XorReversed ==
  ASSUME NEW u, NEW v, NEW w
  PROVE  WordXor(WordXor(u, v), w) = WordXor(WordXor(w, v), u)
BY XorCommutes, XorAssociates

\* What a round shifts in.
RoundWord(w0, w1, w2, w3, k) == WordXor(w0, Transform(WordXor(WordXor(WordXor(w1, w2), w3), k)))

LEMMA RoundUndone ==
  ASSUME NEW w0, NEW w1, NEW w2, NEW w3, NEW k
  PROVE  RoundWord(RoundWord(w0, w1, w2, w3, k), w3, w2, w1, k) = w0
<1>1. WordXor(WordXor(w3, w2), w1) = WordXor(WordXor(w1, w2), w3)
  BY XorReversed
<1> DEFINE f == Transform(WordXor(WordXor(WordXor(w1, w2), w3), k))
<1>2. WordXor(WordXor(w0, f), f) = w0
  BY XorCancels
<1> QED
  BY <1>1, <1>2 DEF RoundWord

LEMMA RoundType ==
  ASSUME NEW w0 \in Word4, NEW w1 \in Word4, NEW w2 \in Word4, NEW w3 \in Word4, NEW k \in Word4
  PROVE  RoundWord(w0, w1, w2, w3, k) \in Word4
<1> DEFINE a == WordXor(w1, w2)
           b == WordXor(a, w3)
           c == WordXor(b, k)
<1>1. a \in Word4
  BY XorType
<1>2. b \in Word4
  BY <1>1, XorType
<1>3. c \in Word4
  BY <1>2, XorType
<1> HIDE DEF c
<1>4. Transform(c) \in Word4
  BY <1>3, Sm4Assumption
<1>5. WordXor(w0, Transform(c)) \in Word4
  BY <1>4, XorType
<1> QED
  BY <1>5 DEF RoundWord, c

-----------------------------------------------------------------------------
\* The inductive invariant: the words of the encryption are linked by its
\* rounds, and in mid-decryption the four words are theirs, in reverse.
Sm4TypeOK ==
  /\ stage \in {"schedule", "encrypt", "decrypt", "decrypted"}
  /\ round \in 0 .. Rounds
  /\ x \in Block4 /\ block \in Block4
  /\ round_keys \in [0 .. Rounds - 1 -> Word4]
  /\ words \in [0 .. Rounds + 3 -> Word4]

Begins == \A j \in 0 .. 3 : words[j] = block[j]

Linked(n) ==
  words[n + 4] = RoundWord(words[n], words[n + 1], words[n + 2], words[n + 3], round_keys[n])

Encrypting ==
  /\ Begins /\ \A n \in 0 .. round - 1 : Linked(n)
  /\ \A j \in 0 .. 3 : x[j] = words[round + j]

Decrypting ==
  /\ Begins /\ \A n \in 0 .. Rounds - 1 : Linked(n)
  /\ \A j \in 0 .. 3 : x[j] = words[Rounds - round + 3 - j]

Sm4Inv ==
  /\ Sm4TypeOK
  /\ stage = "encrypt" => Encrypting
  /\ stage = "decrypt" => Decrypting
  /\ stage = "decrypted" => x = block

LEMMA MixedIsRound ==
  ASSUME NEW y, NEW k
  PROVE  Mixed(y, Transform, k) = RoundWord(y[0], y[1], y[2], y[3], k)
BY DEF Mixed, RoundWord

LEMMA ShiftedType ==
  ASSUME NEW y \in Block4, NEW w \in Word4
  PROVE  /\ Shifted(y, w) \in Block4
         /\ Shifted(y, w)[0] = y[1] /\ Shifted(y, w)[1] = y[2]
         /\ Shifted(y, w)[2] = y[3] /\ Shifted(y, w)[3] = w
BY DEF Shifted, Block4

LEMMA ReversedType ==
  ASSUME NEW y \in Block4
  PROVE  /\ Reversed(y) \in Block4
         /\ \A j \in 0 .. 3 : Reversed(y)[j] = y[3 - j]
BY DEF Reversed, Block4

LEMMA MixedKeyType ==
  ASSUME NEW y \in Block4, NEW k \in Word4
  PROVE  Mixed(y, TransformKey, k) \in Word4
<1> DEFINE a == WordXor(y[1], y[2])
           b == WordXor(a, y[3])
           c == WordXor(b, k)
<1>1. y[0] \in Word4 /\ y[1] \in Word4 /\ y[2] \in Word4 /\ y[3] \in Word4
  BY DEF Block4
<1>2. a \in Word4
  BY <1>1, XorType
<1>3. b \in Word4
  BY <1>1, <1>2, XorType
<1>4. c \in Word4
  BY <1>3, XorType
<1> HIDE DEF c
<1>5. TransformKey(c) \in Word4
  BY <1>4, Sm4Assumption
<1>6. WordXor(y[0], TransformKey(c)) \in Word4
  BY <1>1, <1>5, XorType
<1> QED
  BY <1>6 DEF Mixed, c

LEMMA MixedType ==
  ASSUME NEW y \in Block4, NEW k \in Word4
  PROVE  Mixed(y, Transform, k) \in Word4
<1>1. y[0] \in Word4 /\ y[1] \in Word4 /\ y[2] \in Word4 /\ y[3] \in Word4
  BY DEF Block4
<1>2. RoundWord(y[0], y[1], y[2], y[3], k) \in Word4
  BY <1>1, RoundType
<1> QED
  BY <1>2, MixedIsRound

-----------------------------------------------------------------------------
LEMMA Sm4InitInv == Sm4Init => Sm4Inv
<1> SUFFICES ASSUME Sm4Init PROVE Sm4Inv
  OBVIOUS
<1>1. x \in Block4
  <2>1. PICK key \in CipherKey : x = [j \in 0 .. 3 |-> WordXor(key[j], Fk[j])]
    BY DEF Sm4Init
  <2>2. key \in Block4 /\ Fk \in Block4
    BY Sm4Assumption
  <2>3. \A j \in 0 .. 3 : WordXor(key[j], Fk[j]) \in Word4
    BY <2>2, XorType DEF Block4
  <2> QED
    BY <2>1, <2>3 DEF Block4
<1>2. {} \in Word4
  BY DEF Word4
<1>3. /\ round_keys \in [0 .. Rounds - 1 -> Word4]
      /\ words \in [0 .. Rounds + 3 -> Word4]
  BY <1>2 DEF Sm4Init
<1>4. block \in Block4 /\ round \in 0 .. Rounds /\ stage = "schedule"
  BY Sm4Assumption DEF Sm4Init
<1> QED
  BY <1>1, <1>3, <1>4 DEF Sm4Inv, Sm4TypeOK

LEMMA ScheduleStep ==
  ASSUME Sm4Inv, Schedule
  PROVE  Sm4Inv'
<1> DEFINE k == Mixed(x, TransformKey, Ck[round])
<1>1. round \in 0 .. Rounds - 1 /\ Rounds \in Nat
  BY Sm4Assumption DEF Schedule, Sm4Inv, Sm4TypeOK
<1>2. k \in Word4
  BY <1>1, MixedKeyType, Sm4Assumption DEF Sm4Inv, Sm4TypeOK
<1>3. x' = Shifted(x, k) /\ round_keys' = [round_keys EXCEPT ![round] = k]
  BY DEF Schedule
<1> HIDE DEF k
<1>4. x' \in Block4
  BY <1>2, <1>3, ShiftedType DEF Sm4Inv, Sm4TypeOK
<1>5. round_keys' \in [0 .. Rounds - 1 -> Word4]
  BY <1>2, <1>3 DEF Sm4Inv, Sm4TypeOK
<1>6. /\ round' \in 0 .. Rounds /\ stage' = "schedule"
      /\ words' \in [0 .. Rounds + 3 -> Word4] /\ block' \in Block4
  BY <1>1 DEF Schedule, Sm4Inv, Sm4TypeOK
<1> QED
  BY <1>4, <1>5, <1>6 DEF Sm4Inv, Sm4TypeOK

LEMMA BeginEncryptStep ==
  ASSUME Sm4Inv, BeginEncrypt
  PROVE  Sm4Inv'
<1>1. Rounds \in Nat /\ block \in Block4
  BY Sm4Assumption DEF Sm4Inv, Sm4TypeOK
<1>2. /\ stage' = "encrypt" /\ round' = 0 /\ x' = block /\ block' = block
      /\ words' = [n \in 0 .. Rounds + 3 |-> IF n <= 3 THEN block[n] ELSE {}]
      /\ round_keys' = round_keys
  BY DEF BeginEncrypt
<1>3. words' \in [0 .. Rounds + 3 -> Word4]
  <2>1. \A n \in 0 .. Rounds + 3 : (IF n <= 3 THEN block[n] ELSE {}) \in Word4
    BY <1>1 DEF Block4, Word4
  <2> QED
    BY <1>2, <2>1
<1>4. \A j \in 0 .. 3 : words'[j] = block[j]
  BY <1>1, <1>2
<1>5. Encrypting'
  BY <1>2, <1>4 DEF Encrypting, Begins
<1> QED
  BY <1>1, <1>2, <1>3, <1>5 DEF Sm4Inv, Sm4TypeOK

LEMMA EncryptStep ==
  ASSUME Sm4Inv, Encrypt
  PROVE  Sm4Inv'
<1> DEFINE w == Mixed(x, Transform, round_keys[round])
<1>1. round \in 0 .. Rounds - 1 /\ Rounds \in Nat
  BY Sm4Assumption DEF Encrypt, Sm4Inv, Sm4TypeOK
<1>2. x \in Block4 /\ round_keys[round] \in Word4
  BY <1>1 DEF Sm4Inv, Sm4TypeOK
<1>3. w \in Word4
  BY <1>2, MixedType
<1>4. w = RoundWord(x[0], x[1], x[2], x[3], round_keys[round])
  BY MixedIsRound
<1>5. /\ x' = Shifted(x, w) /\ words' = [words EXCEPT ![round + 4] = w]
      /\ round' = round + 1 /\ stage = "encrypt" /\ stage' = "encrypt"
      /\ round_keys' = round_keys /\ block' = block
  BY DEF Encrypt
<1> HIDE DEF w
<1>6. /\ x' \in Block4 /\ x'[0] = x[1] /\ x'[1] = x[2] /\ x'[2] = x[3] /\ x'[3] = w
  BY <1>2, <1>3, <1>5, ShiftedType
<1>7. words \in [0 .. Rounds + 3 -> Word4] /\ Encrypting
  BY <1>5 DEF Sm4Inv, Sm4TypeOK
<1>8. /\ words' \in [0 .. Rounds + 3 -> Word4] /\ words'[round + 4] = w
      /\ \A n \in 0 .. round + 3 : words'[n] = words[n]
  BY <1>1, <1>3, <1>5, <1>7
<1>9. x[0] = words[round] /\ x[1] = words[round + 1] /\ x[2] = words[round + 2] /\ x[3] = words[round + 3]
  BY <1>1, <1>7 DEF Encrypting
<1>10. Begins'
  <2>1. ASSUME NEW j \in 0 .. 3
        PROVE  words'[j] = block'[j]
    <3>1. j \in 0 .. round + 3
      BY <1>1
    <3>2. words[j] = block[j]
      BY <1>7 DEF Encrypting, Begins
    <3> QED
      BY <1>5, <1>8, <3>1, <3>2
  <2> QED
    BY <2>1 DEF Begins
<1>11. ASSUME NEW n \in 0 .. round
       PROVE  Linked(n)'
  <2>1. CASE n = round
    BY <1>1, <1>4, <1>5, <1>8, <1>9, <2>1 DEF Linked
  <2>2. CASE n < round
    <3>1. Linked(n) /\ n \in 0 .. round - 1
      BY <1>1, <1>7, <2>2 DEF Encrypting
    <3>2. /\ words'[n] = words[n] /\ words'[n + 1] = words[n + 1] /\ words'[n + 2] = words[n + 2]
          /\ words'[n + 3] = words[n + 3] /\ words'[n + 4] = words[n + 4]
      BY <1>1, <1>8, <3>1
    <3> QED
      BY <1>5, <3>1, <3>2 DEF Linked
  <2> QED
    BY <1>1, <2>1, <2>2
<1>12. ASSUME NEW j \in 0 .. 3
       PROVE  x'[j] = words'[round' + j]
  <2>1. /\ words'[round + 1] = words[round + 1] /\ words'[round + 2] = words[round + 2]
        /\ words'[round + 3] = words[round + 3]
    BY <1>1, <1>8
  <2>2. /\ x'[0] = words'[round' + 0] /\ x'[1] = words'[round' + 1]
        /\ x'[2] = words'[round' + 2] /\ x'[3] = words'[round' + 3]
    <3>1. /\ round' + 0 = round + 1 /\ round' + 1 = round + 2
          /\ round' + 2 = round + 3 /\ round' + 3 = round + 4
      BY <1>1, <1>5
    <3> QED
      BY <1>6, <1>8, <1>9, <2>1, <3>1
  <2>3. j \in {0, 1, 2, 3}
    OBVIOUS
  <2> QED
    BY <2>2, <2>3
<1>13. \A n \in 0 .. round' - 1 : Linked(n)'
  BY <1>1, <1>5, <1>11
<1>14. Encrypting'
  BY <1>10, <1>12, <1>13 DEF Encrypting
<1> QED
  BY <1>1, <1>5, <1>6, <1>8, <1>14 DEF Sm4Inv, Sm4TypeOK

LEMMA BeginDecryptStep ==
  ASSUME Sm4Inv, BeginDecrypt
  PROVE  Sm4Inv'
<1>1. /\ stage = "encrypt" /\ round = Rounds /\ stage' = "decrypt" /\ round' = 0
      /\ x' = Reversed(x) /\ round_keys' = round_keys /\ words' = words /\ block' = block
      /\ Rounds \in Nat
  BY Sm4Assumption DEF BeginDecrypt
<1>2. x \in Block4 /\ Encrypting
  BY <1>1 DEF Sm4Inv, Sm4TypeOK
<1>3. x' \in Block4 /\ \A j \in 0 .. 3 : x'[j] = x[3 - j]
  BY <1>1, <1>2, ReversedType
<1>4. ASSUME NEW j \in 0 .. 3
      PROVE  x'[j] = words'[Rounds - round' + 3 - j]
  <2>1. 3 - j \in 0 .. 3 /\ Rounds - 0 + 3 - j = Rounds + (3 - j)
    BY <1>1
  <2>2. x[3 - j] = words[Rounds + (3 - j)]
    BY <1>1, <1>2, <2>1 DEF Encrypting
  <2> QED
    BY <1>1, <1>3, <2>1, <2>2
<1>5. Decrypting'
  <2>1. Begins' /\ \A n \in 0 .. Rounds - 1 : Linked(n)'
    BY <1>1, <1>2 DEF Encrypting, Begins, Linked
  <2> QED
    BY <1>4, <2>1 DEF Decrypting
<1> QED
  BY <1>1, <1>3, <1>5 DEF Sm4Inv, Sm4TypeOK

\* A round of the decryption takes the last round of the encryption back.
LEMMA DecryptStep ==
  ASSUME Sm4Inv, Decrypt
  PROVE  Sm4Inv'
<1> DEFINE n == Rounds - 1 - round
           w == Mixed(x, Transform, round_keys[n])
<1>1. round \in 0 .. Rounds - 1 /\ Rounds \in Nat
  BY Sm4Assumption DEF Decrypt, Sm4Inv, Sm4TypeOK
<1>2. n \in 0 .. Rounds - 1
  BY <1>1
<1>3. /\ x' = Shifted(x, w) /\ round' = round + 1 /\ stage = "decrypt" /\ stage' = "decrypt"
      /\ round_keys' = round_keys /\ words' = words /\ block' = block
  BY DEF Decrypt, RoundKeyBackward
<1>4. x \in Block4 /\ round_keys[n] \in Word4 /\ Decrypting
  BY <1>2, <1>3 DEF Sm4Inv, Sm4TypeOK
<1>5. w \in Word4 /\ w = RoundWord(x[0], x[1], x[2], x[3], round_keys[n])
  BY <1>4, MixedType, MixedIsRound
<1>6. /\ x[0] = words[n + 4] /\ x[1] = words[n + 3]
      /\ x[2] = words[n + 2] /\ x[3] = words[n + 1]
  <2>1. /\ x[0] = words[Rounds - round + 3 - 0] /\ x[1] = words[Rounds - round + 3 - 1]
        /\ x[2] = words[Rounds - round + 3 - 2] /\ x[3] = words[Rounds - round + 3 - 3]
    BY <1>4 DEF Decrypting
  <2>2. /\ Rounds - round + 3 - 0 = n + 4 /\ Rounds - round + 3 - 1 = n + 3
        /\ Rounds - round + 3 - 2 = n + 2 /\ Rounds - round + 3 - 3 = n + 1
    BY <1>1
  <2> QED
    BY <2>1, <2>2
<1>7. Linked(n)
  BY <1>2, <1>4 DEF Decrypting
<1> HIDE DEF w
<1>8. w = words[n]
  BY <1>5, <1>6, <1>7, RoundUndone DEF Linked
<1>9. x' \in Block4 /\ x'[0] = x[1] /\ x'[1] = x[2] /\ x'[2] = x[3] /\ x'[3] = w
  BY <1>3, <1>4, <1>5, ShiftedType
<1>10. /\ x'[0] = words[n + 3] /\ x'[1] = words[n + 2]
       /\ x'[2] = words[n + 1] /\ x'[3] = words[n]
  BY <1>6, <1>8, <1>9
<1>11. ASSUME NEW j \in 0 .. 3
       PROVE  x'[j] = words'[Rounds - round' + 3 - j]
  <2>1. Rounds - round' + 3 - j = n + 3 - j
    BY <1>1, <1>3
  <2>2. x'[j] = words[n + 3 - j]
    <3>1. n + 3 - 0 = n + 3 /\ n + 3 - 1 = n + 2 /\ n + 3 - 2 = n + 1 /\ n + 3 - 3 = n
      BY <1>2
    <3>2. j = 0 \/ j = 1 \/ j = 2 \/ j = 3
      OBVIOUS
    <3> HIDE DEF n
    <3> QED
      BY <1>10, <3>1, <3>2
  <2> QED
    BY <1>3, <2>1, <2>2
<1>12. Decrypting'
  <2>1. Begins' /\ \A h \in 0 .. Rounds - 1 : Linked(h)'
    BY <1>3, <1>4 DEF Decrypting, Begins, Linked
  <2> QED
    BY <1>11, <2>1 DEF Decrypting
<1> QED
  BY <1>1, <1>3, <1>9, <1>12 DEF Sm4Inv, Sm4TypeOK

LEMMA ReturnStep ==
  ASSUME Sm4Inv, ReturnBlock
  PROVE  Sm4Inv'
<1>1. /\ stage = "decrypt" /\ round = Rounds /\ stage' = "decrypted" /\ x' = Reversed(x)
      /\ round' = round /\ round_keys' = round_keys /\ words' = words /\ block' = block
      /\ Rounds \in Nat
  BY Sm4Assumption DEF ReturnBlock
<1>2. x \in Block4 /\ block \in Block4 /\ Decrypting
  BY <1>1 DEF Sm4Inv, Sm4TypeOK
<1>3. x' \in Block4 /\ \A j \in 0 .. 3 : x'[j] = x[3 - j]
  BY <1>1, <1>2, ReversedType
<1>4. ASSUME NEW j \in 0 .. 3
      PROVE  x'[j] = block[j]
  <2>1. 3 - j \in 0 .. 3 /\ Rounds - round + 3 - (3 - j) = j
    BY <1>1
  <2>2. x[3 - j] = words[Rounds - round + 3 - (3 - j)]
    BY <1>2, <2>1 DEF Decrypting
  <2>3. words[j] = block[j]
    BY <1>2 DEF Decrypting, Begins
  <2> QED
    BY <1>3, <2>1, <2>2, <2>3
<1>5. x' = block
  BY <1>2, <1>3, <1>4 DEF Block4
<1> QED
  BY <1>1, <1>2, <1>3, <1>5 DEF Sm4Inv, Sm4TypeOK

\* decrypt_block undoes encrypt_block, for substitutions that need no inverse,
\* any key schedule and any number of rounds.
THEOREM Sm4RoundTrip == Sm4Spec => []RoundTrip
<1>1. Sm4Inv /\ [Sm4Next]_sm4Vars => Sm4Inv'
  <2> SUFFICES ASSUME Sm4Inv, [Sm4Next]_sm4Vars PROVE Sm4Inv'
    OBVIOUS
  <2>1. CASE Schedule
    BY <2>1, ScheduleStep
  <2>2. CASE BeginEncrypt
    BY <2>2, BeginEncryptStep
  <2>3. CASE Encrypt
    BY <2>3, EncryptStep
  <2>4. CASE BeginDecrypt
    BY <2>4, BeginDecryptStep
  <2>5. CASE Decrypt
    BY <2>5, DecryptStep
  <2>6. CASE ReturnBlock
    BY <2>6, ReturnStep
  <2>7. CASE UNCHANGED sm4Vars
    BY <2>7 DEF sm4Vars, Sm4Inv, Sm4TypeOK, Encrypting, Decrypting, Begins, Linked
  <2> QED
    BY <2>1, <2>2, <2>3, <2>4, <2>5, <2>6, <2>7 DEF Sm4Next
<1>2. Sm4Inv => RoundTrip
  BY DEF Sm4Inv, RoundTrip
<1> QED
  BY Sm4InitInv, <1>1, <1>2, PTL DEF Sm4Spec

-----------------------------------------------------------------------------
(***************************************************************************)
(* random_bytes.  NoByteUnfilled is not inductive: the return only checks  *)
(* that the span is at its end, so the induction needs what the loop has   *)
(* put before the span, whatever getrandom's answers were.                 *)
(***************************************************************************)
RandomInv ==
  /\ RandomTypeOK
  /\ \A k \in 1 .. filled : bytes[k] # "zero"
  /\ NoByteUnfilled

LEMMA RandomInitially == RandomInit => RandomInv
BY RandomAssumption DEF RandomInit, RandomInv, RandomTypeOK, NoByteUnfilled

LEMMA RandomStep ==
  ASSUME RandomInv, [RandomNext]_randomVars
  PROVE  RandomInv'
<1> USE RandomAssumption DEF RandomInv, RandomTypeOK, NoByteUnfilled, Source
<1>1. CASE Getrandom
  BY <1>1 DEF Getrandom, Asked, Advanced
<1>2. CASE Interrupted
  BY <1>2 DEF Interrupted, randomVars
<1>3. CASE GetrandomFails
  BY <1>3 DEF GetrandomFails
<1>4. CASE Finish
  BY <1>4 DEF Finish, AllFilled
<1>5. CASE Urandom
  BY <1>5 DEF Urandom
<1>6. CASE UrandomFails
  BY <1>6 DEF UrandomFails
<1>7. CASE UNCHANGED randomVars
  BY <1>7 DEF randomVars
<1> QED
  BY <1>1, <1>2, <1>3, <1>4, <1>5, <1>6, <1>7 DEF RandomNext

LEMMA RandomAlways == RandomSpec => []RandomInv
<1>1. RandomInv /\ [RandomNext]_randomVars => RandomInv'
  BY RandomStep
<1> QED
  BY <1>1, RandomInitially, PTL DEF RandomSpec

\* The span random_bytes has left to fill stays inside its buffer, and each byte
\* is the allocated zero or was read from one of the two sources.
THEOREM RandomTypes == RandomSpec => []RandomTypeOK
<1>1. RandomInv => RandomTypeOK
  BY DEF RandomInv
<1> QED
  BY <1>1, RandomAlways, PTL

\* No byte random_bytes returns is one the buffer was allocated with, for a
\* buffer of any size and any sequence of short reads, interruptions and errors.
THEOREM EveryByteDrawn == RandomSpec => []NoByteUnfilled
<1>1. RandomInv => NoByteUnfilled
  BY DEF RandomInv
<1> QED
  BY <1>1, RandomAlways, PTL

-----------------------------------------------------------------------------
(***************************************************************************)
(* hkdf_sm3 and pbkdf2_hmac_sm3.  What has been written says nothing of    *)
(* the next block: the induction needs how many blocks the counter stands  *)
(* for, over its wrap to 0, and what the last HMAC and the XOR hold.       *)
(***************************************************************************)
Done == IF counter = 0 THEN CounterValues - 1 ELSE counter - 1

Running == step \in {"loop", "mix", "returned"}

HkdfInv ==
  Hkdf /\ Running =>
    /\ output_size <= (CounterValues - 1) * MacSize
    /\ last = [k \in 1 .. Done |-> k]
    /\ written = Done * MacSize \/ (written = output_size /\ output_size <= Done * MacSize)

Pbkdf2Inv ==
  Pbkdf2 /\ Running =>
    /\ iterations >= 1 /\ Blocks <= BlockValues - 1
    /\ written = output_size \/ (counter >= 1 /\ written = (counter - 1) * MacSize)
    /\ step = "mix" => /\ last = <<counter, i>>
                       /\ t = {<<counter, k>> : k \in 1 .. i}
                       /\ i <= iterations /\ counter <= Blocks

KdfInv ==
  /\ KdfTypeOK /\ HkdfInv /\ Pbkdf2Inv /\ IsHkdf /\ IsPbkdf2
  /\ step = "check" => written = 0 /\ counter = 1 /\ last = <<>>
  /\ Hkdf => step # "mix"

LEMMA KdfConstants ==
  /\ MacSize \in Nat \ {0} /\ CounterValues \in Nat /\ CounterValues >= 2
  /\ BlockValues \in Nat /\ BlockValues >= 2
  /\ MaxIterations \in Nat /\ MaxIterations <= BlockValues - 1
  /\ HkdfSizes \subseteq Nat /\ Pbkdf2Sizes \subseteq Nat
BY KdfAssumption

LEMMA QuotientOf ==
  ASSUME NEW M \in Nat \ {0}, NEW q \in Nat, NEW s \in 0 .. M - 1
  PROVE  (q * M + s) \div M = q
<1> DEFINE m == q * M + s
           d == m \div M
<1>1. m \in Nat
  BY Product
<1>2. d \in Nat /\ m = d * M + (m % M) /\ m % M \in 0 .. M - 1
  BY <1>1
<1>3. m % M = s
  BY ModOf
<1>4. d * M = q * M
  BY <1>2, <1>3, Product
<1> HIDE DEF m, d
<1>5. ~ (d < q) /\ ~ (q < d)
  BY <1>2, <1>4, Apart, Product
<1> QED
  BY <1>2, <1>5 DEF d, m

\* Byte s of block n + 1.
LEMMA ExpectedAt ==
  ASSUME NEW n \in Nat, NEW s \in 0 .. MacSize - 1
  PROVE  Expected(n * MacSize + s)
           = <<IF Hkdf THEN [k \in 1 .. n + 1 |-> k]
               ELSE {<<n + 1, k>> : k \in 1 .. iterations}, s>>
<1>1. (n * MacSize + s) \div MacSize = n /\ (n * MacSize + s) % MacSize = s
  BY KdfAssumption, QuotientOf, ModOf
<1> QED
  BY <1>1 DEF Expected

LEMMA BlocksCover ==
  ASSUME output_size \in Nat
  PROVE  Blocks \in Nat /\ output_size <= Blocks * MacSize
<1> DEFINE m == output_size + MacSize - 1
<1>1. m \in Nat
  BY KdfAssumption
<1>2. m \div MacSize \in Nat /\ m = (m \div MacSize) * MacSize + (m % MacSize) /\ m % MacSize \in 0 .. MacSize - 1
  BY <1>1, KdfAssumption
<1>3. (m \div MacSize) * MacSize \in Nat
  BY <1>2, KdfAssumption, Product
<1> QED
  BY <1>2, <1>3, KdfAssumption DEF Blocks

LEMMA KdfInitInv == KdfInit => KdfInv
<1> SUFFICES ASSUME KdfInit PROVE KdfInv
  OBVIOUS
<1> USE KdfConstants DEF KdfInit, Hkdf, Pbkdf2
<1>1. CASE call = "hkdf"
  <2>1. output \in Seq(Chain \X Offset) /\ Len(output) = 0
    BY <1>1
  <2>2. last \in Chain
    BY DEF Chain
  <2>3. t \subseteq U
    OBVIOUS
  <2>5. output_size \in Nat /\ iterations = 0
    BY <1>1
  <2>6. 0 \in 0 .. MaxIterations
    OBVIOUS
  <2>4. KdfTypeOK
    BY <1>1, <2>1, <2>2, <2>3, <2>5, <2>6 DEF KdfTypeOK
  <2> QED
    BY <1>1, <2>4 DEF KdfInv, HkdfInv, Pbkdf2Inv, Running, IsHkdf, IsPbkdf2
<1>2. CASE call = "pbkdf2"
  <2>1. output \in Seq((SUBSET U) \X Offset) /\ Len(output) = output_size
    <3>1. ZeroByte \in (SUBSET U) \X Offset
      BY DEF ZeroByte, Offset
    <3>2. output_size \in Nat /\ output = [p \in 1 .. output_size |-> ZeroByte]
      BY <1>2
    <3> QED
      BY <3>1, <3>2
  <2>2. KdfTypeOK
    BY <1>2, <2>1 DEF KdfTypeOK
  <2> QED
    BY <1>2, <2>2 DEF KdfInv, HkdfInv, Pbkdf2Inv, Running, IsHkdf, IsPbkdf2
<1> QED
  BY <1>1, <1>2

\* What the loops copy of a block is as much as fits.
LEMMA TakenFits ==
  ASSUME KdfTypeOK
  PROVE  /\ Taken \in 0 .. MacSize /\ written + Taken <= output_size
         /\ written \in Nat /\ output_size \in Nat
         /\ Taken = MacSize \/ written + Taken = output_size
<1>0. output_size \in HkdfSizes \/ output_size \in Pbkdf2Sizes
  BY DEF KdfTypeOK
<1>1. output_size \in Nat /\ written \in 0 .. output_size
  BY <1>0, KdfConstants DEF KdfTypeOK
<1> QED
  BY <1>1, KdfConstants DEF Taken

LEMMA CheckStep ==
  ASSUME KdfInv, Check PROVE KdfInv'
<1> USE KdfConstants DEF Check, request, Hkdf, Pbkdf2
<1>0. UNCHANGED <<call, iterations, output_size, output, written, counter, i, last, t>>
  OBVIOUS
<1>1. KdfTypeOK'
  <2>1. step' \in {"check", "loop", "mix", "returned", "threw"}
    OBVIOUS
  <2>2. KdfTypeOK
    BY DEF KdfInv
  <2> QED
    BY <1>0, <2>1, <2>2 DEF KdfTypeOK
<1>2. written = 0 /\ counter = 1 /\ last = <<>> /\ output_size \in Nat /\ iterations \in Nat
  <2>1. written = 0 /\ counter = 1 /\ last = <<>>
    BY DEF KdfInv
  <2>2. output_size \in Nat
    BY TakenFits DEF KdfInv
  <2>3. iterations \in 0 .. MaxIterations
    BY DEF KdfInv, KdfTypeOK
  <2> QED
    BY <2>1, <2>2, <2>3
<1>3. step' = "loop" => HkdfInv'
  <2> SUFFICES ASSUME Hkdf, step' = "loop" PROVE HkdfInv'
    BY DEF HkdfInv
  <2>1. ~ TooLarge
    BY DEF Refused
  <2>2. Done = 0 /\ Done' = 0
    BY <1>2 DEF Done
  <2>3. last' = [k \in 1 .. Done' |-> k]
    BY <1>2, <2>2
  <2>4. written' = Done' * MacSize
    BY <1>2, <2>2
  <2>5. output_size <= (CounterValues - 1) * MacSize
    <3> DEFINE m == (CounterValues - 1) * MacSize
    <3>1. m \in Nat
      BY Product
    <3>2. ~ (output_size > m)
      BY <2>1 DEF TooLarge
    <3> HIDE DEF m
    <3>3. output_size <= m
      BY <1>2, <3>1, <3>2
    <3> QED
      BY <3>3 DEF m
  <2> QED
    BY <2>3, <2>4, <2>5 DEF HkdfInv
<1>4. step' = "loop" => Pbkdf2Inv'
  <2> SUFFICES ASSUME Pbkdf2, step' = "loop" PROVE Pbkdf2Inv'
    BY DEF Pbkdf2Inv
  <2>1. iterations # 0 /\ ~ (Blocks > BlockValues - 1)
    BY DEF Refused
  <2>2. Blocks' = Blocks
    BY DEF Blocks
  <2>3. Blocks <= BlockValues - 1
    BY <1>2, <2>1, BlocksCover
  <2> QED
    BY <1>2, <2>1, <2>2, <2>3 DEF Pbkdf2Inv
<1>5. IsHkdf' /\ IsPbkdf2'
  BY <1>2 DEF IsHkdf, IsPbkdf2
<1> QED
  BY <1>1, <1>3, <1>4, <1>5 DEF KdfInv, HkdfInv, Pbkdf2Inv, Running

LEMMA DeriveStep ==
  ASSUME KdfInv, Derive PROVE KdfInv'
<1> USE KdfConstants
<1>1. KdfTypeOK /\ Hkdf /\ step = "loop" /\ written < output_size /\ call = "hkdf"
  BY DEF KdfInv, Derive, MoreBlocks, Hkdf
<1>2. /\ UNCHANGED <<call, iterations, output_size, i, t, step>>
      /\ last' = Hmac /\ written' = written + Taken /\ counter' = (counter + 1) % CounterValues
      /\ output' = output \o [j \in 1 .. Taken |-> <<Hmac, j - 1>>]
  BY DEF Derive, request
<1>3. /\ Taken \in 0 .. MacSize /\ written + Taken <= output_size
      /\ written \in Nat /\ output_size \in Nat
      /\ Taken = MacSize \/ written + Taken = output_size
  BY <1>1, TakenFits
<1> DEFINE n == Done
<1>4. /\ output_size <= (CounterValues - 1) * MacSize
      /\ last = [k \in 1 .. n |-> k]
      /\ written = n * MacSize
  BY <1>1, <1>3 DEF KdfInv, HkdfInv, Running
<1>5. counter \in 0 .. CounterValues - 1 /\ n \in 0 .. CounterValues - 1
  BY <1>1 DEF KdfTypeOK, Pbkdf2, Done
<1>6. n < CounterValues - 1
  <2>1. n # CounterValues - 1
    BY <1>1, <1>3, <1>4
  <2> HIDE DEF n
  <2> QED
    BY <1>5, <2>1
<1>7. counter = n + 1
  BY <1>5, <1>6 DEF Done
<1>8. Hmac = [k \in 1 .. n + 1 |-> k]
  <2>1. CASE counter = 1
    BY <1>7, <2>1, <1>5 DEF Hmac
  <2>2. CASE counter # 1
    <3>1. Hmac = Append([k \in 1 .. n |-> k], n + 1)
      BY <1>4, <1>7, <2>2 DEF Hmac
    <3> HIDE DEF n
    <3> QED
      BY <1>5, <3>1
  <2> QED
    BY <2>1, <2>2
<1>9. Done' = n + 1
  <2>1. CASE counter = CounterValues - 1
    <3>1. counter' = 0
      BY <1>2, <2>1
    <3> QED
      BY <1>7, <2>1, <3>1 DEF Done
  <2>2. CASE counter # CounterValues - 1
    <3>1. counter' = counter + 1
      BY <1>2, <1>5, <2>2
    <3> QED
      BY <1>5, <1>7, <3>1 DEF Done
  <2> QED
    BY <2>1, <2>2
<1>10. (n + 1) * MacSize = n * MacSize + MacSize /\ n * MacSize \in Nat
  BY <1>5, Product
<1>11. HkdfInv'
  <2>1. written' = Done' * MacSize \/ (written' = output_size' /\ output_size' <= Done' * MacSize)
    <3> DEFINE m == n * MacSize
    <3>1. /\ written = m /\ written' = m + Taken /\ Done' * MacSize = m + MacSize /\ m \in Nat
          /\ output_size' = output_size
      BY <1>2, <1>4, <1>9, <1>10
    <3> HIDE DEF m
    <3> QED
      BY <1>3, <3>1
  <2>2. last' = [k \in 1 .. Done' |-> k]
    BY <1>2, <1>8, <1>9
  <2> QED
    BY <1>2, <1>4, <2>1, <2>2 DEF HkdfInv
<1>12. Hmac \in Chain
  <2> HIDE DEF n
  <2> QED
    BY <1>5, <1>6, <1>8 DEF Chain
<1>13. output \in Seq(Chain \X Offset) /\ Len(output) = written
  BY <1>1 DEF KdfTypeOK, Pbkdf2
<1> DEFINE added == [j \in 1 .. Taken |-> <<Hmac, j - 1>>]
<1>14. added \in Seq(Chain \X Offset) /\ Len(added) = Taken
  <2>1. \A j \in 1 .. Taken : j - 1 \in Offset
    BY <1>3 DEF Offset
  <2> QED
    BY <1>3, <1>12, <2>1
<1>15. /\ output' \in Seq(Chain \X Offset) /\ Len(output') = written'
       /\ \A p \in 1 .. written' :
            output'[p] = IF p <= written THEN output[p] ELSE <<Hmac, p - written - 1>>
  <2> HIDE DEF n
  <2>1. output' = output \o added
    BY <1>2
  <2>2. /\ output' \in Seq(Chain \X Offset) /\ Len(output') = written + Taken
        /\ \A p \in 1 .. written + Taken :
             output'[p] = IF p <= written THEN output[p] ELSE added[p - written]
    <3> HIDE DEF added
    <3>1. /\ Len(output \o added) = written + Taken
          /\ \A p \in 1 .. written + Taken :
               (output \o added)[p] = IF p <= written THEN output[p] ELSE added[p - written]
      <4>1. PICK o \in Seq(Chain \X Offset), a \in Seq(Chain \X Offset) : o = output /\ a = added
        BY <1>13, <1>14
      <4>2. /\ Len(o \o a) = Len(o) + Len(a)
            /\ \A p \in 1 .. Len(o) + Len(a) : (o \o a)[p] = IF p <= Len(o) THEN o[p] ELSE a[p - Len(o)]
        BY ConcatProperties
      <4>3. Len(o) = written /\ Len(a) = Taken
        BY <1>13, <1>14, <4>1
      <4> QED
        BY <4>1, <4>2, <4>3, Zenon
    <3>2. output \o added \in Seq(Chain \X Offset)
      BY <1>13, <1>14, ConcatProperties
    <3> QED
      BY <2>1, <3>1, <3>2
  <2>3. ASSUME NEW p \in 1 .. written + Taken, p > written
        PROVE  added[p - written] = <<Hmac, p - written - 1>>
    <3>1. p - written \in 1 .. Taken
      BY <1>3, <2>3
    <3> QED
      BY <3>1
  <2>4. written' = written + Taken
    BY <1>2
  <2> HIDE DEF added
  <2>5. \A p \in 1 .. written + Taken : p > written \/ p <= written
    BY <1>3
  <2> QED
    BY <2>2, <2>3, <2>4, <2>5
<1>16. KdfTypeOK'
  <2>1. counter' \in 0 .. CounterValues - 1
    BY <1>2, <1>5
  <2>2. written' \in 0 .. output_size'
    BY <1>2, <1>3
  <2> QED
    BY <1>1, <1>2, <1>12, <1>15, <2>1, <2>2 DEF KdfTypeOK, Hkdf, Pbkdf2
<1>17. IsHkdf'
  <2> SUFFICES ASSUME NEW p \in 1 .. written' PROVE output'[p] = Expected(p - 1)'
    BY DEF IsHkdf
  <2>1. Expected(p - 1)' = Expected(p - 1)
    BY <1>2 DEF Expected, Hkdf
  <2>2. CASE p <= written
    BY <1>1, <1>3, <1>15, <2>1, <2>2 DEF KdfInv, IsHkdf
  <2>3. CASE p > written
    <3> DEFINE s == p - 1 - written
    <3>0. p \in Nat /\ p <= written + Taken
      BY <1>2, <1>3
    <3>1. s \in 0 .. MacSize - 1 /\ n * MacSize + s = p - 1
      BY <1>3, <1>4, <2>3, <3>0
    <3>2. Expected(n * MacSize + s) = <<[k \in 1 .. n + 1 |-> k], s>>
      BY <1>1, <1>5, <3>1, ExpectedAt
    <3>3. output'[p] = <<Hmac, s>>
      BY <1>3, <1>15, <2>3
    <3> QED
      BY <1>8, <2>1, <3>1, <3>2, <3>3
  <2>4. p \in Nat
    BY <1>2, <1>3
  <2> QED
    BY <1>3, <2>2, <2>3, <2>4
<1> QED
  BY <1>1, <1>2, <1>11, <1>16, <1>17 DEF KdfInv, Pbkdf2Inv, IsPbkdf2, Hkdf, Pbkdf2

LEMMA FirstUStep ==
  ASSUME KdfInv, FirstU PROVE KdfInv'
<1> USE KdfConstants
<1>1. KdfTypeOK /\ Pbkdf2 /\ call = "pbkdf2" /\ step = "loop" /\ counter <= Blocks
  BY DEF KdfInv, FirstU, MoreBlocks, Hkdf, Pbkdf2
<1>2. /\ UNCHANGED <<call, iterations, output_size, output, written, counter>>
      /\ last' = <<counter, 1>> /\ t' = {<<counter, 1>>} /\ i' = 1 /\ step' = "mix"
  BY DEF FirstU, request
<1>3. counter \in 0 .. BlockValues - 1 /\ iterations \in 0 .. MaxIterations
  BY <1>1 DEF KdfTypeOK, Hkdf
<1>4. /\ iterations >= 1 /\ Blocks <= BlockValues - 1
      /\ written = output_size \/ (counter >= 1 /\ written = (counter - 1) * MacSize)
  BY <1>1 DEF KdfInv, Pbkdf2Inv, Running
<1>5. KdfTypeOK'
  <2>1. <<counter, 1>> \in U
    BY <1>3 DEF U
  <2> QED
    BY <1>1, <1>2, <2>1 DEF KdfTypeOK, Hkdf, Pbkdf2
<1>6. Pbkdf2Inv'
  <2>1. Blocks' = Blocks
    BY <1>2 DEF Blocks
  <2>2. t' = {<<counter', k>> : k \in 1 .. i'}
    BY <1>2
  <2> QED
    BY <1>1, <1>2, <1>3, <1>4, <2>1, <2>2 DEF Pbkdf2Inv
<1>7. IsPbkdf2'
  BY <1>1, <1>2 DEF KdfInv, IsPbkdf2, Expected, Hkdf, Pbkdf2
<1> QED
  BY <1>1, <1>2, <1>5, <1>6, <1>7 DEF KdfInv, HkdfInv, IsHkdf, Hkdf, Pbkdf2

LEMMA MixStep ==
  ASSUME KdfInv, Mix PROVE KdfInv'
<1> USE KdfConstants
<1>1. KdfTypeOK /\ Pbkdf2 /\ call = "pbkdf2" /\ step = "mix"
  BY DEF KdfInv, KdfTypeOK, Mix, Hkdf, Pbkdf2
<1>2. /\ iterations >= 1 /\ Blocks <= BlockValues - 1
      /\ written = output_size \/ (counter >= 1 /\ written = (counter - 1) * MacSize)
      /\ last = <<counter, i>> /\ t = {<<counter, k>> : k \in 1 .. i}
      /\ i <= iterations /\ counter <= Blocks
  BY <1>1 DEF KdfInv, Pbkdf2Inv, Running
<1>3. counter \in 0 .. BlockValues - 1 /\ iterations \in 0 .. MaxIterations /\ i \in 1 .. BlockValues - 1
  BY <1>1 DEF KdfTypeOK, Hkdf
<1>4. i + 1 <= iterations /\ i' = i + 1
  BY <1>3 DEF Mix
<1>5. /\ UNCHANGED <<call, iterations, output_size, output, written, counter, step>>
      /\ last' = <<counter, i + 1>> /\ t' = Xor(t, {<<counter, i + 1>>})
  BY <1>2 DEF Mix, request, NextU
<1>6. t' = {<<counter, k>> : k \in 1 .. i + 1}
  <2>1. <<counter, i + 1>> \notin t
    BY <1>2, <1>3
  <2>2. t' = t \cup {<<counter, i + 1>>}
    BY <1>5, <2>1 DEF Xor
  <2>3. 1 .. i + 1 = (1 .. i) \cup {i + 1}
    BY <1>3
  <2> QED
    BY <1>2, <2>2, <2>3
<1>7. KdfTypeOK'
  <2>1. <<counter, i + 1>> \in U /\ t' \subseteq U
    BY <1>3, <1>6 DEF U
  <2>2. i' \in 1 .. BlockValues - 1
    BY <1>3, <1>4
  <2> QED
    BY <1>1, <1>5, <2>1, <2>2 DEF KdfTypeOK, Hkdf, Pbkdf2
<1>8. Pbkdf2Inv'
  <2>1. Blocks' = Blocks
    BY <1>5 DEF Blocks
  <2> QED
    BY <1>1, <1>2, <1>4, <1>5, <1>6, <2>1 DEF Pbkdf2Inv
<1>9. IsPbkdf2'
  BY <1>1, <1>5 DEF KdfInv, IsPbkdf2, Expected, Hkdf, Pbkdf2
<1> QED
  BY <1>1, <1>5, <1>7, <1>8, <1>9 DEF KdfInv, HkdfInv, IsHkdf, Hkdf, Pbkdf2

LEMMA EmitStep ==
  ASSUME KdfInv, Emit PROVE KdfInv'
<1> USE KdfConstants
<1>1. KdfTypeOK /\ Pbkdf2 /\ call = "pbkdf2" /\ step = "mix"
  BY DEF KdfInv, KdfTypeOK, Emit, Hkdf, Pbkdf2
<1>2. /\ iterations >= 1 /\ Blocks <= BlockValues - 1
      /\ written = output_size \/ (counter >= 1 /\ written = (counter - 1) * MacSize)
      /\ t = {<<counter, k>> : k \in 1 .. i}
      /\ i <= iterations /\ counter <= Blocks
  BY <1>1 DEF KdfInv, Pbkdf2Inv, Running
<1>3. counter \in 0 .. BlockValues - 1 /\ iterations \in 0 .. MaxIterations /\ i \in 1 .. BlockValues - 1
  BY <1>1 DEF KdfTypeOK, Hkdf
<1>4. i = iterations
  BY <1>2, <1>3 DEF Emit
<1>5. /\ UNCHANGED <<call, iterations, output_size, i>>
      /\ written' = written + Taken /\ counter' = (counter + 1) % BlockValues
      /\ last' = <<>> /\ t' = {} /\ step' = "loop"
      /\ output' = [p \in 1 .. output_size |->
                      IF p \in written + 1 .. written + Taken
                      THEN <<t, p - written - 1>> ELSE output[p]]
  BY DEF Emit, request, NextBlock
<1>6. /\ Taken \in 0 .. MacSize /\ written + Taken <= output_size
      /\ written \in Nat /\ output_size \in Nat
      /\ Taken = MacSize \/ written + Taken = output_size
  BY <1>1, TakenFits
<1>7. Blocks \in Nat /\ output_size <= Blocks * MacSize /\ Blocks' = Blocks
  BY <1>5, <1>6, BlocksCover DEF Blocks
<1>8. output \in Seq((SUBSET U) \X Offset) /\ Len(output) = output_size /\ output_size \in Pbkdf2Sizes
  BY <1>1 DEF KdfTypeOK, Hkdf
<1>9. t \subseteq U
  BY <1>1 DEF KdfTypeOK
<1>10. output' \in Seq((SUBSET U) \X Offset) /\ Len(output') = output_size
  <2>1. ASSUME NEW p \in 1 .. output_size
        PROVE  (IF p \in written + 1 .. written + Taken
                THEN <<t, p - written - 1>> ELSE output[p]) \in (SUBSET U) \X Offset
    <3>1. CASE p \in written + 1 .. written + Taken
      <4>1. p - written - 1 \in Offset
        BY <1>6, <3>1 DEF Offset
      <4> QED
        BY <1>9, <3>1, <4>1
    <3>2. CASE p \notin written + 1 .. written + Taken
      BY <1>8, <3>2
    <3> QED
      BY <3>1, <3>2
  <2>2. output' \in [1 .. output_size -> (SUBSET U) \X Offset] /\ output_size \in Nat
    BY <1>5, <1>6, <2>1
  <2> QED
    BY <2>2, SeqDef
<1>11. KdfTypeOK'
  <2>1. counter' \in 0 .. BlockValues - 1
    BY <1>3, <1>5
  <2>2. written' \in 0 .. output_size'
    BY <1>5, <1>6
  <2> QED
    BY <1>1, <1>3, <1>5, <1>8, <1>10, <2>1, <2>2 DEF KdfTypeOK, Hkdf, Pbkdf2
<1>12. written' = output_size' \/ (counter' >= 1 /\ written' = (counter' - 1) * MacSize)
  <2>1. CASE written + Taken = output_size
    BY <1>5, <2>1
  <2>2. CASE written + Taken # output_size
    <3>1. Taken = MacSize /\ written # output_size
      BY <1>6, <2>2
    <3>2. counter >= 1 /\ written = (counter - 1) * MacSize
      BY <1>2, <3>1
    <3>3. written + MacSize = counter * MacSize
      BY <1>3, <3>2
    <3>4. counter # Blocks
      BY <1>6, <1>7, <2>2, <3>1, <3>3
    <3>5. counter + 1 <= BlockValues - 1
      BY <1>2, <1>3, <1>7, <3>4
    <3>6. counter' = counter + 1
      BY <1>3, <1>5, <3>5
    <3> QED
      BY <1>3, <1>5, <3>1, <3>3, <3>6
  <2> QED
    BY <2>1, <2>2
<1>13. Pbkdf2Inv'
  BY <1>1, <1>2, <1>5, <1>7, <1>12 DEF Pbkdf2Inv
<1>14. IsPbkdf2'
  <2> SUFFICES ASSUME NEW p \in 1 .. written' PROVE output'[p] = Expected(p - 1)'
    BY <1>5 DEF IsPbkdf2
  <2>0. p \in Nat /\ p >= 1 /\ p <= written + Taken /\ p \in 1 .. output_size
    BY <1>5, <1>6
  <2>1. Expected(p - 1)' = Expected(p - 1)
    BY <1>5 DEF Expected, Hkdf
  <2>2. CASE p <= written
    <3>1. output[p] = Expected(p - 1)
      BY <1>1, <1>6, <2>0, <2>2 DEF KdfInv, IsPbkdf2
    <3> QED
      BY <1>5, <1>6, <2>0, <2>1, <2>2, <3>1
  <2>3. CASE p > written
    <3> DEFINE s == p - written - 1
               n == counter - 1
    <3>1. Taken # 0
      BY <1>6, <2>0, <2>3
    <3>2. n \in Nat /\ written = n * MacSize
      BY <1>2, <1>3, <1>6, <3>1
    <3>3. s \in 0 .. MacSize - 1 /\ written + s = p - 1
      BY <1>6, <2>0, <2>3
    <3>4. Expected(n * MacSize + s) = <<{<<n + 1, k>> : k \in 1 .. iterations}, s>>
      <4> HIDE DEF n, s
      <4> QED
        BY <1>1, <3>2, <3>3, ExpectedAt DEF Hkdf
    <3>5. n + 1 = counter
      BY <1>3
    <3>6. Expected(p - 1) = <<t, s>>
      BY <1>2, <1>4, <3>2, <3>3, <3>4, <3>5
    <3>7. p \in written + 1 .. written + Taken
      BY <1>6, <2>0, <2>3
    <3> QED
      BY <1>5, <2>0, <2>1, <3>6, <3>7
  <2> QED
    BY <1>6, <2>0, <2>2, <2>3
<1> QED
  BY <1>1, <1>5, <1>11, <1>13, <1>14 DEF KdfInv, HkdfInv, IsHkdf, Hkdf, Pbkdf2

LEMMA KdfReturnStep ==
  ASSUME KdfInv, Return PROVE KdfInv'
<1> USE KdfConstants
<1>1. KdfTypeOK /\ step = "loop" /\ ~ MoreBlocks /\ step' = "returned"
      /\ UNCHANGED <<call, iterations, output_size, output, written, counter, i, last, t>>
  BY DEF KdfInv, Return, request
<1>2. KdfTypeOK'
  <2>1. step' \in {"check", "loop", "mix", "returned", "threw"}
    BY <1>1
  <2> QED
    BY <1>1, <2>1 DEF KdfTypeOK, Hkdf, Pbkdf2
<1>3. written \in Nat /\ output_size \in Nat /\ written <= output_size
  <2>1. written \in 0 .. output_size
    BY <1>1 DEF KdfTypeOK
  <2> QED
    BY <1>1, <2>1, TakenFits
<1>4. Pbkdf2 => written = output_size
  <2> SUFFICES ASSUME Pbkdf2, written # output_size PROVE FALSE
    OBVIOUS
  <2>1. counter >= 1 /\ written = (counter - 1) * MacSize
    BY <1>1 DEF KdfInv, Pbkdf2Inv, Running
  <2>2. counter \in 0 .. BlockValues - 1
    BY <1>1 DEF KdfTypeOK, Hkdf, Pbkdf2
  <2>3. Blocks \in Nat /\ output_size <= Blocks * MacSize
    BY <1>3, BlocksCover
  <2>4. Blocks <= counter - 1
    BY <1>1, <2>2, <2>3 DEF MoreBlocks, Hkdf, Pbkdf2
  <2>5. Blocks * MacSize <= (counter - 1) * MacSize
    <3>1. CASE Blocks = counter - 1
      BY <2>2, <3>1, Product
    <3>2. CASE Blocks < counter - 1
      <4>1. counter - 1 \in Nat
        BY <2>1, <2>2
      <4>2. Blocks * MacSize + MacSize <= (counter - 1) * MacSize
        BY <2>3, <3>2, <4>1, Apart
      <4> QED
        BY <2>3, <4>1, <4>2, Product
    <3> QED
      BY <2>2, <2>3, <2>4, <3>1, <3>2
  <2> DEFINE a == Blocks * MacSize
             b == (counter - 1) * MacSize
  <2>6. a \in Nat /\ output_size <= a /\ a <= b /\ written = b
    BY <2>1, <2>3, <2>5, Product
  <2> HIDE DEF a, b
  <2> QED
    BY <1>3, <2>6
<1>5. HkdfInv' /\ Pbkdf2Inv'
  <2>1. Blocks' = Blocks /\ Done' = Done
    BY <1>1 DEF Blocks, Done
  <2>2. HkdfInv /\ Pbkdf2Inv
    BY DEF KdfInv
  <2> QED
    BY <1>1, <2>1, <2>2 DEF HkdfInv, Pbkdf2Inv, Running, Hkdf, Pbkdf2
<1>6. IsHkdf' /\ IsPbkdf2'
  BY <1>1, <1>4 DEF KdfInv, IsHkdf, IsPbkdf2, Expected, Hkdf, Pbkdf2
<1> QED
  BY <1>1, <1>2, <1>5, <1>6 DEF KdfInv, Hkdf

LEMMA KdfAlways == KdfSpec => []KdfInv
<1>1. ASSUME KdfInv, UNCHANGED kdfVars PROVE KdfInv'
  <2>1. UNCHANGED <<call, iterations, output_size, output, written, counter, i, last, t, step>>
    BY <1>1 DEF kdfVars, request
  <2>2. KdfTypeOK'
    <3>1. KdfTypeOK
      BY <1>1 DEF KdfInv
    <3> QED
      BY <2>1, <3>1 DEF KdfTypeOK, Hkdf, Pbkdf2
  <2>3. HkdfInv' /\ Pbkdf2Inv'
    BY <1>1, <2>1 DEF KdfInv, HkdfInv, Pbkdf2Inv, Running, Done, Blocks, Hkdf, Pbkdf2
  <2>4. IsHkdf' /\ IsPbkdf2'
    BY <1>1, <2>1 DEF KdfInv, IsHkdf, IsPbkdf2, Expected, Hkdf, Pbkdf2
  <2> QED
    BY <1>1, <2>1, <2>2, <2>3, <2>4 DEF KdfInv, Hkdf
<1>2. KdfInv /\ [KdfNext]_kdfVars => KdfInv'
  BY <1>1, CheckStep, DeriveStep, FirstUStep, MixStep, EmitStep, KdfReturnStep DEF KdfNext
<1> QED
  BY <1>2, KdfInitInv, PTL DEF KdfSpec

\* The counters of both derivations stay in their types, and what is written
\* stays inside the requested output.
THEOREM KdfTypes == KdfSpec => []KdfTypeOK
<1>1. KdfInv => KdfTypeOK
  BY DEF KdfInv
<1> QED
  BY <1>1, KdfAlways, PTL

\* hkdf_sm3's output is HKDF's for every length its check lets through, up to
\* the block after which its 8-bit counter wraps.
THEOREM HkdfDerives == KdfSpec => []IsHkdf
<1>1. KdfInv => IsHkdf
  BY DEF KdfInv
<1> QED
  BY <1>1, KdfAlways, PTL

\* What pbkdf2_hmac_sm3 writes is PBKDF2's output for every length and number of
\* iterations, and is never written over: not even when its 32-bit counter wraps.
THEOREM Pbkdf2Derives == KdfSpec => []IsPbkdf2
<1>1. KdfInv => IsPbkdf2
  BY DEF KdfInv
<1> QED
  BY <1>1, KdfAlways, PTL

-----------------------------------------------------------------------------
(***************************************************************************)
(* SecureBytes and SecureString.  The secret bytes that a buffer shows are *)
(* its first, as many as it is to hold; and what it does not show is       *)
(* wiped, unless the memory's own history says that it need not be.        *)
(***************************************************************************)
Memory ==
  [capacity : Nat, heap : SUBSET Nat, inside : SUBSET (1 .. Local), used : Nat,
   shrunk : BOOLEAN, husk : BOOLEAN]

BufferTypeOK ==
  /\ class \in {"bytes", "string"}
  /\ mem \in [Object -> Memory]
  /\ held \in [Object -> Nat]

\* The string's own cells are used by short strings only, and then alone; only
\* SecureBytes has a resize, and only a string's object becomes a husk.
Placed(m) ==
  /\ class = "bytes" => m.inside = {} /\ m.husk = FALSE
  /\ class = "string" => m.shrunk = FALSE
  /\ IF InObject(m) THEN m.heap = {} /\ m.capacity = 0
     ELSE m.used <= m.capacity

Shows(m, n) ==
  /\ n <= m.used
  /\ (IF InObject(m) THEN m.inside ELSE m.heap) \cap 1 .. m.used = 1 .. n


WipedBeyond(m) ==
  /\ ~ InObject(m) /\ m.shrunk = FALSE => m.heap \subseteq 1 .. m.used
  /\ m.husk = FALSE => m.inside \subseteq IF InObject(m) THEN 1 .. m.used ELSE {}

Sound(m, n) == m \in Memory /\ Placed(m) /\ Shows(m, n) /\ WipedBeyond(m)

\* The kinds of memory that may be given back with a secret in it.
Excused == IF class = "bytes" THEN {"resized"} ELSE {"husk"}

SecretInv ==
  /\ BufferTypeOK
  /\ \A o \in Object : Sound(mem[o], held[o])
  /\ left \subseteq Excused

LEMMA EmptySound == Sound(Empty, 0)
BY SecureBufferAssumption DEF Sound, Memory, Empty, Placed, Shows, WipedBeyond, InObject

\* clear() leaves an empty buffer, and what it gives back is wiped or excused.
LEMMA ClearedSound ==
  ASSUME NEW m, NEW n \in Nat, Sound(m, n), class \in {"bytes", "string"}
  PROVE  /\ Sound(Cleared(m), 0) /\ Cleared(m).used = 0 /\ Returned(m) \subseteq Nat
         /\ Given(HeapKind(m), Returned(m)) \subseteq Excused
         /\ Given(HeapKind(m), Returned(m) \cup Cleared(m).heap) \subseteq Excused
         /\ Given(OwnKind(Cleared(m)), Cleared(m).inside) \subseteq Excused
<1>1. /\ m \in Memory /\ m.heap \subseteq Nat /\ m.used \in Nat
      /\ m.inside \subseteq 1 .. Local
      /\ m.shrunk \in BOOLEAN /\ m.husk \in BOOLEAN
      BY DEF Sound, Memory
<1>2. /\ class = "bytes" => m.inside = {} /\ m.husk = FALSE
      /\ class = "string" => m.shrunk = FALSE
      BY DEF Sound, Placed
<1>3. /\ Cleared(m) \in Memory /\ Cleared(m).used = 0 /\ Cleared(m).husk = m.husk
      /\ Cleared(m).shrunk \in {m.shrunk, FALSE}
      BY <1>1 DEF Cleared, Memory, Wiped
<1>4. CASE m.used = 0
  <2>1. Cleared(m) = m /\ Returned(m) = {}
        BY <1>4 DEF Cleared, Returned
  <2>2. Sound(m, 0)
        BY <1>1, <1>4 DEF Sound, Shows
  <2>3. m.heap # {} => class = "bytes" /\ m.shrunk = TRUE
        BY <1>1, <1>2, <1>4, SecureBufferAssumption DEF Sound, Placed, WipedBeyond, InObject
  <2>4. m.inside # {} => class = "string" /\ m.husk = TRUE
        BY <1>1, <1>2, <1>4 DEF Sound, WipedBeyond
  <2> QED
        BY <1>4, <2>1, <2>2, <2>3, <2>4 DEF Given, HeapKind, OwnKind, Excused
<1>5. CASE m.used # 0 /\ InObject(m)
  <2>1. /\ Cleared(m).heap = m.heap /\ Cleared(m).capacity = m.capacity
        /\ Cleared(m).inside = m.inside \ 1 .. m.used /\ Cleared(m).shrunk = m.shrunk
        /\ Returned(m) = {}
        BY <1>1, <1>5 DEF Cleared, Wiped, Memory, Returned
  <2>2. class = "string" /\ InObject(Cleared(m)) /\ m.heap = {}
        BY <1>3, <1>5, SecureBufferAssumption DEF InObject, Sound, Placed
  <2>3. m.husk = FALSE => Cleared(m).inside = {}
        BY <1>1, <1>5, <2>1 DEF Sound, WipedBeyond
  <2>4. Sound(Cleared(m), 0)
        BY <1>1, <1>2, <1>3, <1>5, <2>1, <2>2, <2>3 DEF Sound, Shows, Placed, WipedBeyond
  <2> QED
        BY <1>1, <1>3, <2>1, <2>2, <2>3, <2>4 DEF Given, OwnKind, Excused
<1>6. CASE m.used # 0 /\ ~ InObject(m)
  <2>1. /\ Cleared(m).heap = {} /\ Cleared(m).capacity = 0 /\ Cleared(m).shrunk = FALSE
        /\ Cleared(m).inside = m.inside /\ Returned(m) = m.heap \ 1 .. m.used
        BY <1>1, <1>6 DEF Cleared, Memory, Returned, Wiped
  <2>2. m.husk = FALSE => m.inside = {}
        BY <1>6 DEF Sound, WipedBeyond
  <2>3. m.shrunk = FALSE => Returned(m) = {}
        BY <1>6, <2>1 DEF Sound, WipedBeyond
  <2>4. Sound(Cleared(m), 0)
        BY <1>1, <1>2, <1>3, <2>1, <2>2 DEF Sound, Shows, Placed, WipedBeyond
  <2> QED
        BY <1>1, <1>2, <1>3, <2>1, <2>2, <2>3, <2>4 DEF Given, HeapKind, OwnKind, Excused
<1> QED
    BY <1>4, <1>5, <1>6

\* The source of a move shows nothing; what it keeps of a secret makes it a husk.
LEMMA MovedSound ==
  ASSUME NEW m, NEW n \in Nat, Sound(m, n), class \in {"bytes", "string"}
  PROVE  /\ Sound(Moved(m), 0) /\ Moved(m).used = 0 /\ Cleared(Moved(m)) = Moved(m)
         /\ Given(OwnKind(Moved(m)), Moved(m).inside) \subseteq Excused
<1>1. /\ m \in Memory /\ m.heap \subseteq Nat /\ m.used \in Nat
      /\ m.inside \subseteq 1 .. Local
      /\ m.shrunk \in BOOLEAN /\ m.husk \in BOOLEAN
      /\ class = "bytes" => m.inside = {} /\ m.husk = FALSE
      /\ class = "string" => m.shrunk = FALSE
      BY DEF Sound, Memory, Placed
<1>2. CASE InObject(m)
  <2>1. /\ Moved(m).heap = m.heap /\ Moved(m).capacity = m.capacity
        /\ Moved(m).used = 0 /\ Moved(m).inside = m.inside \ {1} /\ Moved(m) \in Memory
        /\ Moved(m).shrunk = m.shrunk /\ Moved(m).husk = (m.husk \/ m.used >= 2)
        BY <1>1, <1>2 DEF Moved, Memory
  <2>2. class = "string" /\ m.used <= Local /\ InObject(Moved(m))
        BY <1>2, <2>1, SecureBufferAssumption DEF InObject
  <2>3. Moved(m).husk = FALSE => Moved(m).inside = {}
    <3> SUFFICES ASSUME Moved(m).husk = FALSE
                 PROVE  Moved(m).inside = {}
        OBVIOUS
    <3>1. ~ m.husk /\ ~ m.used >= 2
          BY <2>1, Zenon
    <3>2. m.husk = FALSE
          BY <1>1, <3>1
    <3>3. m.inside \subseteq 1 .. m.used
          BY <1>2, <3>2 DEF Sound, WipedBeyond
    <3>4. \A c \in 1 .. m.used : c = 1
          BY <1>1, <3>1
    <3> QED
          BY <2>1, <3>3, <3>4
  <2>4. Sound(Moved(m), 0)
        BY <1>1, <1>2, <2>1, <2>2, <2>3 DEF Sound, Shows, Placed, WipedBeyond
  <2> QED
        BY <1>1, <2>1, <2>2, <2>3, <2>4 DEF Cleared, Given, OwnKind, Excused
<1>3. CASE ~ InObject(m)
  <2>1. /\ Moved(m).heap = {} /\ Moved(m).capacity = 0 /\ Moved(m).used = 0
        /\ Moved(m).inside = m.inside /\ Moved(m) \in Memory
        /\ Moved(m).shrunk = FALSE /\ Moved(m).husk = m.husk
        BY <1>1, <1>3 DEF Moved, Memory
  <2>2. m.husk = FALSE => m.inside = {}
        BY <1>3 DEF Sound, WipedBeyond
  <2>3. Sound(Moved(m), 0)
        BY <1>1, <2>1, <2>2 DEF Sound, Shows, Placed, WipedBeyond
  <2> QED
        BY <1>1, <2>1, <2>2, <2>3 DEF Cleared, Given, OwnKind, Excused
<1> QED
    BY <1>2, <1>3

\* The target of a move shows what the source did.
LEMMA IntoSound ==
  ASSUME NEW to, NEW m, NEW n \in Nat, Sound(to, 0), to.used = 0, to.heap = {}, to.capacity = 0,
         to.shrunk = FALSE, Sound(m, n), class \in {"bytes", "string"}
  PROVE  Sound(Into(to, m), n)
<1>1. /\ m \in Memory /\ m.heap \subseteq Nat /\ m.used \in Nat /\ m.inside \subseteq 1 .. Local
      /\ m.shrunk \in BOOLEAN /\ m.capacity \in Nat
      /\ to \in Memory /\ to.inside \subseteq 1 .. Local /\ to.husk \in BOOLEAN
      BY DEF Sound, Memory
<1>2. to.husk = FALSE => to.inside = {}
      BY DEF Sound, WipedBeyond
<1>3. CASE InObject(m)
  <2>1. /\ Into(to, m).used = m.used /\ Into(to, m).heap = {} /\ Into(to, m).capacity = 0
        /\ Into(to, m).inside = (m.inside \cap 1 .. m.used) \cup (to.inside \ 1 .. m.used)
        /\ Into(to, m).shrunk = FALSE /\ Into(to, m).husk = to.husk
        /\ Into(to, m) \in Memory
        BY <1>1, <1>3 DEF Into, Memory, Wiped
  <2>2. class = "string" /\ InObject(Into(to, m))
        BY <1>3, <2>1 DEF InObject
  <2>3. Into(to, m).inside \cap 1 .. m.used = m.inside \cap 1 .. m.used
        BY <2>1
  <2>4. Shows(Into(to, m), n)
        BY <1>3, <2>1, <2>2, <2>3 DEF Sound, Shows
  <2>5. WipedBeyond(Into(to, m))
        BY <1>2, <2>1, <2>2 DEF WipedBeyond
  <2> QED
        BY <1>1, <1>3, <2>1, <2>2, <2>4, <2>5 DEF Sound, Placed
<1>4. CASE ~ InObject(m)
  <2>1. /\ Into(to, m).used = m.used /\ Into(to, m).heap = m.heap
        /\ Into(to, m).capacity = m.capacity /\ Into(to, m).inside = to.inside
        /\ Into(to, m).shrunk = m.shrunk /\ Into(to, m).husk = to.husk
        /\ Into(to, m) \in Memory
        BY <1>1, <1>4 DEF Into, Memory
  <2>2. ~ InObject(Into(to, m))
        BY <1>4, <2>1 DEF InObject
  <2>3. WipedBeyond(Into(to, m))
        BY <1>2, <1>4, <2>1, <2>2 DEF Sound, WipedBeyond
  <2> QED
        BY <1>1, <1>4, <2>1, <2>2, <2>3 DEF Sound, Shows, Placed
<1> QED
    BY <1>3, <1>4

\* What a step shows of the other buffers.
Others(o, p) ==
  \A q \in Object \ {o, p} : mem'[q] = mem[q] /\ held'[q] = held[q]

LEMMA StepSound ==
  ASSUME SecretInv, NEW o \in Object, NEW p \in Object,
         class' = class, mem' \in [Object -> Memory], held' \in [Object -> Nat], Others(o, p),
         Sound(mem'[o], held'[o]), Sound(mem'[p], held'[p]),
         left' \subseteq Excused
  PROVE  SecretInv'
<1>1. BufferTypeOK'
      BY DEF SecretInv, BufferTypeOK
<1>2. \A q \in Object : Sound(mem'[q], held'[q])
      BY DEF SecretInv, Others
<1>3. (\A q \in Object : Sound(mem[q], held[q]))'
      BY <1>2 DEF Sound, Placed, Shows, InObject, WipedBeyond
<1>4. (left \subseteq Excused)'
      BY DEF Excused
<1> QED
    BY <1>1, <1>3, <1>4 DEF SecretInv

LEMMA SecretStep ==
  ASSUME SecretInv, [BufferNext]_bufferVars
  PROVE  SecretInv'
<1>1. /\ class \in {"bytes", "string"} /\ mem \in [Object -> Memory] /\ held \in [Object -> Nat]
      /\ \A o \in Object : Sound(mem[o], held[o])
      /\ left \subseteq Excused
      BY DEF SecretInv, BufferTypeOK
<1>2. Sound(Empty, 0) /\ Empty.heap = {} /\ Empty.inside = {}
      /\ Empty.used = 0 /\ Empty.capacity = 0 /\ Empty.shrunk = FALSE
      BY EmptySound DEF Empty
<1>3. \A m, n : Sound(m, n) => m \in Memory
      BY DEF Sound
<1>4. ASSUME NEW o \in Object, NEW n \in 0 .. MaxBytes, Own(o, n)
      PROVE  SecretInv'
  <2> DEFINE m == IF class = "string" /\ n <= Local
                  THEN [Empty EXCEPT !.used = n, !.inside = 1 .. n]
                  ELSE [Empty EXCEPT !.used = n, !.capacity = n, !.heap = 1 .. n]
  <2>1. Sound(m, n)
    <3>1. CASE class = "string" /\ n <= Local
      <4>1. m = [capacity |-> 0, heap |-> {}, inside |-> 1 .. n, used |-> n,
                     shrunk |-> FALSE, husk |-> FALSE]
            BY <3>1 DEF Empty
      <4> HIDE DEF m
      <4>2. m \in Memory
            BY <3>1, <4>1, SecureBufferAssumption DEF Memory
      <4> QED
            BY <3>1, <4>1, <4>2 DEF Sound, Placed, Shows, WipedBeyond, InObject
    <3>2. CASE ~ (class = "string" /\ n <= Local)
      <4>1. m = [capacity |-> n, heap |-> 1 .. n, inside |-> {}, used |-> n,
                     shrunk |-> FALSE, husk |-> FALSE]
            BY <3>2 DEF Empty
      <4> HIDE DEF m
      <4>2. m \in Memory
            BY <4>1, SecureBufferAssumption DEF Memory
      <4> QED
            BY <3>2, <4>1, <4>2 DEF Sound, Placed, Shows, WipedBeyond, InObject
    <3> QED
          BY <3>1, <3>2
  <2>2. Sound(Into(Empty, m), n)
    <3> HIDE DEF m
    <3>1. n \in Nat
          BY SecureBufferAssumption
    <3> QED
          BY <1>1, <1>2, <2>1, <3>1, IntoSound
  <2>3. /\ mem' = [mem EXCEPT ![o] = Into(Empty, m)]
        /\ left' = left \cup Given(OwnKind(Moved(m)), Moved(m).inside)
        /\ held' = [held EXCEPT ![o] = n]
        /\ class' = class
        BY <1>4 DEF Own
  <2>4. left' \subseteq Excused
    <3>1. Given(OwnKind(Moved(m)), Moved(m).inside) \subseteq Excused
          BY <1>1, <2>1, MovedSound
    <3> QED
          BY <1>1, <2>3, <3>1
  <2> HIDE DEF m
  <2>5. /\ mem' \in [Object -> Memory] /\ held' \in [Object -> Nat] /\ Others(o, o)
        /\ mem'[o] = Into(Empty, m) /\ held'[o] = n
        BY <1>1, <1>3, <2>2, <2>3 DEF Others
  <2> QED
        BY <2>2, <2>3, <2>4, <2>5, StepSound
<1>5. ASSUME NEW o \in Object, NEW p \in Object, MoveConstruct(o, p)
      PROVE  SecretInv'
  <2>1. o # p
        BY <1>5 DEF MoveConstruct
  <2>2. /\ mem' = [mem EXCEPT ![o] = Into(Empty, mem[p]), ![p] = Cleared(Moved(mem[p]))]
        /\ held' = [held EXCEPT ![o] = held[p], ![p] = 0]
        /\ class' = class /\ left' = left
        BY <1>5 DEF MoveConstruct
  <2>3. Sound(Into(Empty, mem[p]), held[p])
        BY <1>1, <1>2, IntoSound
  <2>4. Sound(Moved(mem[p]), 0) /\ Cleared(Moved(mem[p])) = Moved(mem[p])
        BY <1>1, MovedSound
  <2>5. /\ mem' \in [Object -> Memory] /\ held' \in [Object -> Nat] /\ Others(o, p)
        /\ mem'[o] = Into(Empty, mem[p]) /\ held'[o] = held[p]
        /\ mem'[p] = Moved(mem[p]) /\ held'[p] = 0
        BY <1>1, <1>3, <2>1, <2>2, <2>3, <2>4 DEF Others
  <2> QED
        BY <1>1, <2>2, <2>3, <2>4, <2>5, StepSound
<1>6. ASSUME NEW o \in Object, NEW p \in Object, MoveAssign(o, p)
      PROVE  SecretInv'
  <2>1. CASE o = p
        BY <1>1, <1>6, <2>1, StepSound DEF MoveAssign, Same, Others
  <2>2. CASE o # p
    <3> DEFINE to == [Cleared(mem[o]) EXCEPT !.capacity = 0, !.heap = {}, !.shrunk = FALSE]
    <3>1. /\ mem' = [mem EXCEPT ![o] = Into(to, mem[p]), ![p] = Cleared(Moved(mem[p]))]
          /\ held' = [held EXCEPT ![o] = held[p], ![p] = 0]
          /\ left' = left \cup Given(HeapKind(mem[o]), Returned(mem[o]) \cup Cleared(mem[o]).heap)
          /\ class' = class
          BY <1>6, <2>2 DEF MoveAssign, Same
    <3>2. /\ Sound(Cleared(mem[o]), 0) /\ Cleared(mem[o]).used = 0
          /\ Given(HeapKind(mem[o]), Returned(mem[o]) \cup Cleared(mem[o]).heap) \subseteq Excused
          BY <1>1, ClearedSound
    <3>3. /\ to.used = 0 /\ to.heap = {} /\ to.capacity = 0 /\ to.inside = Cleared(mem[o]).inside
          /\ to.shrunk = FALSE /\ to.husk = Cleared(mem[o]).husk
          /\ to \in Memory
          BY <3>2 DEF Sound, Memory
    <3> HIDE DEF to
    <3>4. Sound(to, 0)
      <4>1. InObject(to) <=> InObject(Cleared(mem[o]))
            BY <3>2, <3>3 DEF InObject
      <4> QED
            BY <3>2, <3>3, <4>1, SecureBufferAssumption
               DEF Sound, Placed, Shows, WipedBeyond
    <3>5. Sound(Into(to, mem[p]), held[p])
          BY <1>1, <3>3, <3>4, IntoSound
    <3>6. Sound(Moved(mem[p]), 0) /\ Cleared(Moved(mem[p])) = Moved(mem[p])
          BY <1>1, MovedSound
    <3>7. /\ mem' \in [Object -> Memory] /\ held' \in [Object -> Nat] /\ Others(o, p)
          /\ mem'[o] = Into(to, mem[p]) /\ held'[o] = held[p]
          /\ mem'[p] = Moved(mem[p]) /\ held'[p] = 0
          BY <1>1, <1>3, <2>2, <3>1, <3>5, <3>6 DEF Others
    <3>8. left' \subseteq Excused
          BY <1>1, <3>1, <3>2
    <3> QED
          BY <3>1, <3>5, <3>6, <3>7, <3>8, StepSound
  <2> QED
        BY <2>1, <2>2
<1>7. ASSUME NEW o \in Object, ClearBuffer(o)
      PROVE  SecretInv'
  <2>1. /\ mem' = [mem EXCEPT ![o] = Cleared(mem[o])]
        /\ held' = [held EXCEPT ![o] = 0]
        /\ left' = left \cup Given(HeapKind(mem[o]), Returned(mem[o]))
        /\ class' = class
        BY <1>7 DEF ClearBuffer
  <2>2. /\ Sound(Cleared(mem[o]), 0)
        /\ Given(HeapKind(mem[o]), Returned(mem[o])) \subseteq Excused
        BY <1>1, ClearedSound
  <2>3. /\ mem' \in [Object -> Memory] /\ held' \in [Object -> Nat] /\ Others(o, o)
        /\ mem'[o] = Cleared(mem[o]) /\ held'[o] = 0
        BY <1>1, <1>3, <2>1, <2>2 DEF Others
  <2> QED
        BY <1>1, <2>1, <2>2, <2>3, StepSound
<1>8. ASSUME NEW o \in Object, DestroyBuffer(o)
      PROVE  SecretInv'
  <2>1. /\ mem' = [mem EXCEPT ![o] = Empty]
        /\ held' = [held EXCEPT ![o] = 0]
        /\ left' = (left \cup Given(HeapKind(mem[o]), Returned(mem[o]) \cup Cleared(mem[o]).heap))
                        \cup Given(OwnKind(Cleared(mem[o])), Cleared(mem[o]).inside)
        /\ class' = class
        BY <1>8 DEF DestroyBuffer
  <2>2. /\ Given(HeapKind(mem[o]), Returned(mem[o]) \cup Cleared(mem[o]).heap) \subseteq Excused
        /\ Given(OwnKind(Cleared(mem[o])), Cleared(mem[o]).inside) \subseteq Excused
        BY <1>1, ClearedSound
  <2>3. /\ mem' \in [Object -> Memory] /\ held' \in [Object -> Nat] /\ Others(o, o)
        /\ mem'[o] = Empty /\ held'[o] = 0
        BY <1>1, <1>2, <1>3, <2>1 DEF Others
  <2>4. left' \subseteq Excused
        BY <1>1, <2>1, <2>2
  <2> QED
        BY <1>2, <2>1, <2>3, <2>4, StepSound
<1>9. ASSUME NEW o \in Object, NEW n \in 0 .. MaxBytes, ResizeBuffer(o, n)
      PROVE  SecretInv'
  <2> DEFINE m == mem[o]
             r == [m EXCEPT !.capacity = IF n <= m.capacity THEN @ ELSE n,
                            !.heap = @ \ (m.used + 1 .. n), !.used = n,
                            !.shrunk = @ \/ n < m.used]
             k == IF held[o] < n THEN held[o] ELSE n
  <2>1. /\ mem' = [mem EXCEPT ![o] = r] /\ held' = [held EXCEPT ![o] = k]
        /\ class = "bytes" /\ class' = class /\ left' \subseteq Excused
        BY <1>1, <1>9 DEF ResizeBuffer, Memory, Given, Excused
  <2>2. Sound(r, k)
    <3>1. m \in Memory /\ held[o] \in Nat /\ n \in Nat /\ Sound(m, held[o])
          BY <1>1, SecureBufferAssumption
    <3>2. /\ r \in Memory /\ r.used = n /\ r.inside = m.inside
          /\ r.heap = m.heap \ (m.used + 1 .. n)
          /\ r.capacity = IF n <= m.capacity THEN m.capacity ELSE n
          /\ r.shrunk = (m.shrunk \/ n < m.used) /\ r.husk = m.husk
          BY <3>1 DEF Memory
    <3>3. held[o] <= m.used /\ m.heap \cap 1 .. m.used = 1 .. held[o]
          BY <2>1, <3>1 DEF Sound, Shows, InObject
    <3>4. r.heap \cap 1 .. n = 1 .. k
          BY <3>1, <3>2, <3>3 DEF Memory
    <3>5. m.inside = {} /\ m.husk = FALSE /\ ~ InObject(m) /\ ~ InObject(r)
          BY <2>1, <3>1 DEF Sound, Placed, InObject
    <3>6. WipedBeyond(r)
      <4>1. r.shrunk = FALSE => m.shrunk = FALSE /\ m.used <= n
        <5> SUFFICES ASSUME r.shrunk = FALSE
                     PROVE  m.shrunk = FALSE /\ m.used <= n
            OBVIOUS
        <5>1. ~ m.shrunk /\ ~ n < m.used
              BY <3>2, Zenon
        <5>2. m.shrunk \in BOOLEAN /\ m.used \in Nat
              BY <3>1 DEF Memory
        <5> QED
              BY <3>1, <5>1, <5>2
      <4>2. m.shrunk = FALSE => m.heap \subseteq 1 .. m.used
            BY <3>1, <3>5 DEF Sound, WipedBeyond
      <4>3. m.used <= n => 1 .. m.used \subseteq 1 .. n
            BY <3>1 DEF Memory
      <4> QED
            BY <3>2, <3>5, <4>1, <4>2, <4>3 DEF WipedBeyond
    <3> QED
          BY <2>1, <3>1, <3>2, <3>4, <3>5, <3>6 DEF Sound, Placed, Shows, Memory
  <2> HIDE DEF r, k
  <2>3. /\ mem' \in [Object -> Memory] /\ held' \in [Object -> Nat] /\ Others(o, o)
        /\ mem'[o] = r /\ held'[o] = k
    <3>1. r \in Memory /\ k \in Nat
          BY <1>1, <1>3, <2>2, SecureBufferAssumption DEF k
    <3> QED
          BY <1>1, <2>1, <3>1 DEF Others
  <2> QED
        BY <2>1, <2>2, <2>3, StepSound
<1>10. CASE UNCHANGED bufferVars
      BY <1>1, <1>10 DEF bufferVars, SecretInv, BufferTypeOK, Sound, WipedBeyond, Placed, Shows, InObject, Excused
<1> QED
    BY <1>4, <1>5, <1>6, <1>7, <1>8, <1>9, <1>10 DEF BufferNext

LEMMA SecretInit == BufferInit => SecretInv
<1> SUFFICES ASSUME BufferInit PROVE SecretInv
    OBVIOUS
<1>1. Empty \in Memory
      BY EmptySound DEF Sound
<1> QED
    BY <1>1, EmptySound DEF BufferInit, SecretInv, BufferTypeOK

LEMMA SecretAlways == BufferSpec => []SecretInv
<1>1. SecretInv /\ [BufferNext]_bufferVars => SecretInv'
      BY SecretStep
<1> QED
    BY <1>1, SecretInit, PTL DEF BufferSpec

\* In any order of moves, assignments, clears and destructions, and for secrets
\* of any length, SecureBytes gives back no heap with a byte of a secret in it but
\* what resize itself gave back or had made smaller; and SecureString gives back
\* no heap with one at all, and of the cells of strings themselves only those out
\* of which a string of 2 to Local bytes has been moved.
THEOREM NothingLeftBehind == BufferSpec => []NothingLeft
<1>1. SecretInv => NothingLeft
      BY DEF SecretInv, NothingLeft, Excused
<1> QED
    BY <1>1, SecretAlways, PTL

\* A move, one to itself included, neither loses a secret nor doubles it.
THEOREM EachSecretHasOneOwner == BufferSpec => []OneOwner
<1>1. SecretInv => OneOwner
  <2> SUFFICES ASSUME SecretInv, NEW o \in Object
               PROVE  Visible(mem[o]) = held[o]
      BY DEF OneOwner
  <2>1. held[o] \in Nat /\ Visible(mem[o]) = Cardinality(1 .. held[o])
        BY DEF SecretInv, BufferTypeOK, Sound, Shows, Visible
  <2> QED
        BY <2>1, FS_Interval
<1> QED
    BY <1>1, SecretAlways, PTL

-----------------------------------------------------------------------------
(***************************************************************************)
(* The command line.                                                       *)
(***************************************************************************)

\* The words of a line.  A literal is a string, which the provers do not know.
Spelling == STRING \cup {"--password", "--iterations", "--name", "--keep-source", "--keep-in-vault"}

LEMMA FirstPlaceOf ==
  ASSUME NEW s \in Seq(Spelling), NEW w, Places(s, w) # {}
  PROVE  /\ FirstPlace(s, w) \in 1 .. Len(s) /\ s[FirstPlace(s, w)] = w
         /\ \A j \in Places(s, w) : FirstPlace(s, w) <= j
<1>1. Len(s) \in Nat /\ DOMAIN s = 1 .. Len(s)
  BY LenProperties
<1>2. Places(s, w) \subseteq Nat /\ Places(s, w) \subseteq 1 .. Len(s)
  BY <1>1 DEF Places
<1>3. \E m \in Places(s, w) : \A j \in Places(s, w) : m <= j
  BY <1>2, LeastExists
<1>4. FirstPlace(s, w) \in Places(s, w) /\ \A j \in Places(s, w) : FirstPlace(s, w) <= j
  BY <1>3 DEF FirstPlace
<1> QED
  BY <1>2, <1>4 DEF Places

\* Taking n words out leaves the others, in their order.
LEMMA RemovedAt ==
  ASSUME NEW s \in Seq(Spelling), NEW k \in Nat \ {0}, NEW n \in Nat, k + n - 1 <= Len(s)
  PROVE  /\ Removed(s, k, n) \in Seq(Spelling) /\ Len(Removed(s, k, n)) = Len(s) - n
         /\ \A j \in 1 .. Len(s) - n : Removed(s, k, n)[j] = IF j < k THEN s[j] ELSE s[j + n]
<1> DEFINE front == SubSeq(s, 1, k - 1)
           back  == SubSeq(s, k + n, Len(s))
<1>1. Len(s) \in Nat /\ \A j \in 1 .. Len(s) : s[j] \in Spelling
  BY LenProperties, ElementOfSeq
<1>2. /\ front \in Seq(Spelling) /\ Len(front) = k - 1
      /\ \A j \in 1 .. k - 1 : front[j] = s[j]
  <2>1. \A j \in 1 .. k - 1 : s[j] \in Spelling
    BY <1>1
  <2>2. /\ front \in Seq(Spelling) /\ Len(front) = IF 1 <= k - 1 THEN k - 1 - 1 + 1 ELSE 0
        /\ \A j \in 1 .. k - 1 - 1 + 1 : front[j] = s[1 + j - 1]
    BY <2>1, SubSeqProperties
  <2> HIDE DEF front
  <2> QED
    BY <2>2
<1>3. /\ back \in Seq(Spelling) /\ Len(back) = Len(s) - (k + n) + 1
      /\ \A j \in 1 .. Len(s) - (k + n) + 1 : back[j] = s[k + n + j - 1]
  <2>1. \A j \in k + n .. Len(s) : s[j] \in Spelling
    BY <1>1
  <2>2. /\ back \in Seq(Spelling) /\ Len(back) = IF k + n <= Len(s) THEN Len(s) - (k + n) + 1 ELSE 0
        /\ \A j \in 1 .. Len(s) - (k + n) + 1 : back[j] = s[k + n + j - 1]
    BY <1>1, <2>1, SubSeqProperties
  <2> HIDE DEF back
  <2> QED
    BY <1>1, <2>2
<1>4. Removed(s, k, n) = front \o back
  BY DEF Removed
<1> HIDE DEF front, back
<1> DEFINE r == front \o back
<1>5. /\ r \in Seq(Spelling) /\ Len(r) = Len(front) + Len(back)
      /\ \A j \in 1 .. Len(front) + Len(back) :
           r[j] = IF j <= Len(front) THEN front[j] ELSE back[j - Len(front)]
  BY <1>2, <1>3, ConcatProperties
<1> HIDE DEF r
<1>6. Len(r) = Len(s) - n /\ DOMAIN r = 1 .. Len(r)
  BY <1>1, <1>2, <1>3, <1>5, LenProperties
<1>7. ASSUME NEW j \in 1 .. Len(s) - n
      PROVE  r[j] = IF j < k THEN s[j] ELSE s[j + n]
  <2>1. j \in 1 .. Len(front) + Len(back) /\ (j <= Len(front) <=> j < k)
    BY <1>1, <1>2, <1>3
  <2>2. CASE j < k
    <3>1. r[j] = front[j] /\ j \in 1 .. k - 1
      BY <1>5, <2>1, <2>2
    <3> QED
      BY <1>2, <2>2, <3>1
  <2>3. CASE ~ (j < k)
    <3>1. r[j] = back[j - Len(front)] /\ j - Len(front) = j - k + 1
      BY <1>2, <1>5, <2>1, <2>3
    <3>2. j - k + 1 \in 1 .. Len(s) - (k + n) + 1 /\ k + n + (j - k + 1) - 1 = j + n
      BY <1>1, <2>3
    <3>3. back[j - k + 1] = s[j + n]
      BY <1>3, <3>2
    <3> QED
      BY <2>3, <3>1, <3>3
  <2> QED
    BY <2>2, <2>3
<1> QED
  BY <1>4, <1>5, <1>6, <1>7 DEF r

LEMMA RemovedOf ==
  ASSUME NEW s \in Seq(Spelling), NEW k \in Nat \ {0}, NEW n \in Nat, k + n - 1 <= Len(s)
  PROVE  /\ Removed(s, k, n) \in Seq(Spelling) /\ Len(Removed(s, k, n)) = Len(s) - n
         /\ \A j \in 1 .. Len(s) :
              j < k \/ k + n <= j => \E m \in DOMAIN Removed(s, k, n) : Removed(s, k, n)[m] = s[j]
<1> DEFINE r == Removed(s, k, n)
<1>1. /\ r \in Seq(Spelling) /\ Len(r) = Len(s) - n
      /\ \A j \in 1 .. Len(s) - n : r[j] = IF j < k THEN s[j] ELSE s[j + n]
  BY RemovedAt
<1>2. Len(s) \in Nat
  BY LenProperties
<1> HIDE DEF r
<1>3. DOMAIN r = 1 .. Len(s) - n
  BY <1>1, LenProperties
<1>4. ASSUME NEW j \in 1 .. Len(s), j < k PROVE \E m \in DOMAIN r : r[m] = s[j]
  <2>1. j \in 1 .. Len(s) - n
    BY <1>2, <1>4
  <2> QED
    BY <1>1, <1>3, <1>4, <2>1
<1>5. ASSUME NEW j \in 1 .. Len(s), k + n <= j PROVE \E m \in DOMAIN r : r[m] = s[j]
  <2>1. j - n \in 1 .. Len(s) - n /\ ~ (j - n < k) /\ (j - n) + n = j
    BY <1>2, <1>5
  <2> QED
    BY <1>1, <1>3, <2>1
<1> QED
  BY <1>1, <1>4, <1>5 DEF r

Holds(s, w) == Places(s, w) # {}

\* take_option takes no word, or the option and its value, and leaves the rest.
OptionTaken(s, w) ==
  /\ AfterOption(s, w) \in Seq(Spelling)
  /\ \/ ~ Holds(s, w) /\ Option(s, w) = {} /\ AfterOption(s, w) = s
     \/ Holds(s, w) /\ \E v \in Spelling :
          Option(s, w) = {v} /\ Len(AfterOption(s, w)) = Len(s) - 2
  /\ \A v \in Spelling \ {w} : Holds(s, v) => Holds(AfterOption(s, w), v) \/ v \in Option(s, w)
  /\ AfterOption(s, w) = <<>> /\ s # <<>> => Len(s) = 2 /\ s[1] = w

LEMMA TakeOption ==
  ASSUME NEW s \in Seq(Spelling), NEW w \in Spelling, ~ NoValue(s, w)
  PROVE  OptionTaken(s, w)
<1>1. CASE ~ Holds(s, w)
  BY <1>1 DEF OptionTaken, Holds, Option, AfterOption
<1>2. CASE Holds(s, w)
  <2>1. PICK k \in 1 .. Len(s) : k = FirstPlace(s, w) /\ s[k] = w /\ k # Len(s)
    BY <1>2, FirstPlaceOf DEF Holds, NoValue
  <2> DEFINE r == Removed(s, k, 2)
  <2>2. Len(s) \in Nat /\ DOMAIN s = 1 .. Len(s) /\ \A j \in 1 .. Len(s) : s[j] \in Spelling
    BY LenProperties, ElementOfSeq
  <2>3. Option(s, w) = {s[k + 1]} /\ AfterOption(s, w) = r
    BY <1>2, <2>1 DEF Option, AfterOption, Holds
  <2>4. /\ r \in Seq(Spelling) /\ Len(r) = Len(s) - 2
        /\ \A j \in 1 .. Len(s) : j < k \/ k + 2 <= j => \E m \in DOMAIN r : r[m] = s[j]
    <3>1. k \in Nat \ {0} /\ 2 \in Nat /\ k + 2 - 1 <= Len(s)
      BY <2>1, <2>2
    <3> QED
      BY <3>1, RemovedOf
  <2> HIDE DEF r
  <2>5. s[k + 1] \in Spelling
    BY <2>1, <2>2
  <2>6. ASSUME NEW v \in Spelling \ {w}, Holds(s, v) PROVE Holds(r, v) \/ v \in {s[k + 1]}
    <3>1. PICK j \in 1 .. Len(s) : s[j] = v
      BY <2>2, <2>6 DEF Holds, Places
    <3>2. j # k
      BY <2>1, <3>1
    <3>3. CASE j = k + 1
      BY <3>1, <3>3
    <3>4. CASE j # k + 1
      <4>1. j < k \/ k + 2 <= j
        BY <2>1, <2>2, <3>2, <3>4
      <4>2. PICK m \in DOMAIN r : r[m] = v
        BY <2>4, <3>1, <4>1
      <4> QED
        BY <4>2 DEF Holds, Places
    <3> QED
      BY <3>3, <3>4
  <2>7. ASSUME r = <<>> PROVE Len(s) = 2 /\ s[1] = w
    <3>1. Len(s) = 2
      <4>1. Len(r) = 0
        BY <2>7, EmptySeq
      <4>2. Len(r) = Len(s) - 2 /\ Len(s) \in Nat
        BY <2>2, <2>4
      <4> QED
        BY <4>1, <4>2
    <3>2. k = 1
      BY <2>1, <3>1
    <3> QED
      BY <2>1, <3>1, <3>2
  <2> QED
    BY <1>2, <2>3, <2>4, <2>5, <2>6, <2>7 DEF OptionTaken
<1> QED
  BY <1>1, <1>2

\* take_flag takes one word or none.
LEMMA TakeFlag ==
  ASSUME NEW s \in Seq(Spelling), NEW w \in Spelling
  PROVE  /\ AfterFlag(s, w) \in Seq(Spelling)
         /\ Len(AfterFlag(s, w)) = Len(s) - (IF Holds(s, w) THEN 1 ELSE 0)
<1>1. Len(s) \in Nat
  BY LenProperties
<1>2. CASE ~ Holds(s, w)
  BY <1>1, <1>2 DEF AfterFlag, Holds
<1>3. CASE Holds(s, w)
  <2> DEFINE k == FirstPlace(s, w)
  <2>1. k \in 1 .. Len(s)
    BY <1>3, FirstPlaceOf DEF Holds
  <2>2. AfterFlag(s, w) = Removed(s, k, 1)
    BY <1>3 DEF AfterFlag, Holds
  <2> HIDE DEF k
  <2>3. k \in Nat \ {0} /\ 1 \in Nat /\ k + 1 - 1 <= Len(s)
    BY <1>1, <2>1
  <2>4. Removed(s, k, 1) \in Seq(Spelling) /\ Len(Removed(s, k, 1)) = Len(s) - 1
    BY <2>3, RemovedOf
  <2> QED
    BY <1>3, <2>2, <2>4
<1> QED
  BY <1>2, <1>3

\* The command's flag and option, if it has them.
LEMMA FlagAndOption ==
  ASSUME NEW c \in Commands
  PROVE  /\ FlagOf(c) = {} \/ \E w \in {"--keep-source", "--keep-in-vault"} : FlagOf(c) = {w}
         /\ OptionOf(c) = {} \/ \E w \in Spelling : OptionOf(c) = {w}
<1>1. c \in {"init", "list", "add", "extract", "remove", "delete"}
  BY DEF Commands
<1>2. /\ FlagOf("init") = {} /\ FlagOf("list") = {} /\ FlagOf("remove") = {}
      /\ FlagOf("delete") = {} /\ FlagOf("add") = {"--keep-source"}
      /\ FlagOf("extract") = {"--keep-in-vault"}
  BY DEF FlagOf
<1>3. /\ OptionOf("init") = {"--iterations"} /\ OptionOf("list") = {}
      /\ OptionOf("remove") = {} /\ OptionOf("delete") = {} /\ OptionOf("extract") = {}
      /\ OptionOf("add") = {"--name"}
  BY DEF OptionOf
<1>4. "--iterations" \in Spelling /\ "--name" \in Spelling
  BY DEF Spelling
<1> QED
  BY <1>1, <1>2, <1>3, <1>4

\* What a command reads accounts for every word behind its name.
LEMMA EveryWordRead ==
  ASSUME NEW c \in Commands, NEW s \in Seq(Spelling), ~ Read(c, s).fails
  PROVE  /\ Read(c, s).operands \in Seq(Spelling)
         /\ Cardinality(Read(c, s).value) \in Nat
         /\ Len(s) = Len(Read(c, s).operands) + 2 * Cardinality(Read(c, s).value)
                     + (IF Read(c, s).flag THEN 1 ELSE 0)
<1> DEFINE unflagged == Each(FlagOf(c), s, AfterFlag)
<1>1. Len(s) \in Nat
  BY LenProperties
<1>2. /\ unflagged \in Seq(Spelling)
      /\ Len(unflagged) = Len(s) - (IF Read(c, s).flag THEN 1 ELSE 0)
  <2>1. CASE FlagOf(c) = {}
    <3>1. unflagged = s /\ ~ Read(c, s).flag
      BY <2>1 DEF Each, Read
    <3> QED
      BY <1>1, <3>1
  <2>2. ASSUME NEW w \in Spelling, FlagOf(c) = {w}
        PROVE  /\ unflagged \in Seq(Spelling)
               /\ Len(unflagged) = Len(s) - (IF Read(c, s).flag THEN 1 ELSE 0)
    <3>1. unflagged = AfterFlag(s, w)
      BY <2>2 DEF Each
    <3>2. Read(c, s).flag <=> Holds(s, w)
      BY <2>2 DEF Read, Holds
    <3> QED
      BY <3>1, <3>2, TakeFlag
  <2>3. FlagOf(c) = {} \/ \E w \in Spelling : FlagOf(c) = {w}
    <3>1. {"--keep-source", "--keep-in-vault"} \subseteq Spelling
      BY DEF Spelling
    <3> QED
      BY <3>1, FlagAndOption
  <2> QED
    BY <2>1, <2>2, <2>3
<1>3. /\ Read(c, s).fails <=> \E w \in OptionOf(c) : NoValue(unflagged, w)
      /\ Read(c, s).operands = Each(OptionOf(c), unflagged, AfterOption)
      /\ Read(c, s).value = UNION {Option(unflagged, w) : w \in {o \in OptionOf(c) : ~ NoValue(unflagged, o)}}
  BY DEF Read
<1> HIDE DEF unflagged
<1>4. /\ Read(c, s).operands \in Seq(Spelling)
      /\ Cardinality(Read(c, s).value) \in Nat
      /\ Len(unflagged) = Len(Read(c, s).operands) + 2 * Cardinality(Read(c, s).value)
  <2>0. Len(unflagged) \in Nat
    BY <1>2, LenProperties
  <2>1. CASE OptionOf(c) = {}
    <3>1. Read(c, s).operands = unflagged /\ Read(c, s).value = {}
      BY <1>3, <2>1 DEF Each
    <3> QED
      BY <1>2, <2>0, <3>1, FS_EmptySet
  <2>2. ASSUME NEW w \in Spelling, OptionOf(c) = {w}
        PROVE  /\ Read(c, s).operands \in Seq(Spelling)
               /\ Cardinality(Read(c, s).value) \in Nat
               /\ Len(unflagged) = Len(Read(c, s).operands) + 2 * Cardinality(Read(c, s).value)
    <3>1. ~ NoValue(unflagged, w)
      BY <1>3, <2>2
    <3>2. Read(c, s).operands = AfterOption(unflagged, w)
      BY <1>3, <2>2 DEF Each
    <3>3. Read(c, s).value = Option(unflagged, w)
      BY <1>3, <2>2, <3>1
    <3>4. OptionTaken(unflagged, w)
      BY <1>2, <3>1, TakeOption
    <3>5. CASE ~ Holds(unflagged, w)
      <4>1. Read(c, s).operands = unflagged /\ Read(c, s).value = {}
        BY <3>2, <3>3, <3>4, <3>5 DEF OptionTaken
      <4>2. Cardinality(Read(c, s).value) = 0
        BY <4>1, FS_EmptySet, Zenon
      <4> QED
        BY <1>2, <2>0, <4>1, <4>2
    <3>6. CASE Holds(unflagged, w)
      <4>1. PICK v \in Spelling : /\ Option(unflagged, w) = {v}
                                /\ Len(AfterOption(unflagged, w)) = Len(unflagged) - 2
        BY <3>4, <3>6 DEF OptionTaken
      <4>2. Cardinality({v}) = 1
        BY FS_Singleton
      <4> QED
        BY <2>0, <3>2, <3>3, <3>4, <4>1, <4>2 DEF OptionTaken
    <3> QED
      BY <3>5, <3>6
  <2> QED
    BY <2>1, <2>2, FlagAndOption
<1> QED
  BY <1>1, <1>2, <1>4

-----------------------------------------------------------------------------
\* What main has accounted for, when it has read the arguments.
Accounted ==
  Len(line) = 1 + Len(args) + 2 * Cardinality(cli_password) + 2 * Cardinality(value)
              + (IF flag THEN 1 ELSE 0)

KeptFlags == {"--keep-source", "--keep-in-vault"}

Reading == {"start", "command", "arguments"}
ReadAll == {"password", "prompt", "typing", "call", "called"}

\* What is known of the line at each place of main.
CliInv ==
  /\ at \in Reading \cup ReadAll \cup {"end", "returned"}
  /\ at \notin {"end", "returned"} => status = "running"
  /\ line \in Seq(Spelling) /\ args \in Seq(Spelling)
  /\ Cardinality(cli_password) \in Nat
  /\ at = "start" => args = line
  /\ at = "command" =>
       /\ Len(line) = Len(args) + 2 * Cardinality(cli_password)
       /\ args = <<>> => Len(line) = 2 /\ line[1] = "--password"
       /\ \A w \in KeptFlags : Holds(line, w) => Holds(args, w) \/ w \in cli_password
  /\ at = "arguments" =>
       /\ command \in Commands
       /\ Len(line) = 1 + Len(args) + 2 * Cardinality(cli_password)
       /\ \A w \in KeptFlags : Holds(line, w) => Holds(args, w) \/ w \in cli_password
  /\ at \in ReadAll =>
       /\ Accounted
       /\ \A w \in FlagOf(command) : Holds(line, w) => flag \/ w \in cli_password
  /\ status = "undefined" => Len(line) = 2 /\ line[1] = "--password"
  /\ EchoRestored

LEMMA CliInvInit == CliInit => CliInv
<1> SUFFICES ASSUME CliInit PROVE CliInv
  OBVIOUS
<1>1. line \in Seq(Spelling) /\ args \in Seq(Spelling)
  <2>1. line \in Seq(STRING)
    BY CliAssumption DEF CliInit
  <2>2. STRING \subseteq Spelling
    BY DEF Spelling
  <2>3. line \in Seq(Spelling)
    BY <2>1, <2>2, SeqMonotonic
  <2> QED
    BY <2>3 DEF CliInit
<1>2. Cardinality(cli_password) \in Nat
  <2>1. Cardinality(cli_password) = 0
    BY FS_EmptySet, Zenon DEF CliInit
  <2> QED
    BY <2>1
<1> QED
  BY <1>1, <1>2 DEF CliInit, CliInv, Reading, ReadAll, EchoRestored

LEMMA TakePasswordInv == CliInv /\ TakePassword => CliInv'
<1> SUFFICES ASSUME CliInv, TakePassword PROVE CliInv'
  OBVIOUS
<1>1. /\ at = "start" /\ status = "running" /\ args = line /\ line \in Seq(Spelling)
      /\ UNCHANGED <<line, command, value, flag, echo, old_term>>
      /\ echo = old_term /\ Cardinality(cli_password) \in Nat
  BY DEF CliInv, TakePassword, EchoRestored
<1>2. CASE /\ at' = "end" /\ status' \in {"1", "2"} /\ UNCHANGED <<args, cli_password>>
  BY <1>1, <1>2 DEF CliInv, Reading, ReadAll, EchoRestored
<1>3. CASE /\ ~ NoArguments /\ ~ NoValue(args, "--password")
           /\ cli_password' = Option(args, "--password")
           /\ args' = AfterOption(args, "--password")
           /\ at' = "command" /\ UNCHANGED status
  <2>1. OptionTaken(line, "--password")
    <3>1. "--password" \in Spelling
      BY DEF Spelling
    <3> QED
      BY <1>1, <1>3, <3>1, TakeOption
  <2>2. /\ Cardinality(cli_password') \in Nat /\ args' \in Seq(Spelling)
        /\ Len(line) = Len(args') + 2 * Cardinality(cli_password')
    <3>1. Len(line) \in Nat
      BY <1>1, LenProperties
    <3>2. CASE ~ Holds(line, "--password")
      <4>1. args' = line /\ cli_password' = {}
        BY <1>1, <1>3, <2>1, <3>2 DEF OptionTaken
      <4>2. Cardinality(cli_password') = 0
        BY <4>1, FS_EmptySet, Zenon
      <4> QED
        BY <1>1, <3>1, <4>1, <4>2
    <3>3. CASE Holds(line, "--password")
      <4>1. PICK v \in Spelling : /\ cli_password' = {v} /\ Len(args') = Len(line) - 2
        BY <1>1, <1>3, <2>1, <3>3 DEF OptionTaken
      <4>2. Cardinality({v}) = 1
        BY FS_Singleton
      <4>3. args' \in Seq(Spelling)
        BY <1>1, <1>3, <2>1 DEF OptionTaken
      <4> QED
        BY <3>1, <4>1, <4>2, <4>3
    <3> QED
      BY <3>2, <3>3
  <2>3. args' = <<>> => Len(line) = 2 /\ line[1] = "--password"
    BY <1>1, <1>3, <2>1 DEF OptionTaken, NoArguments
  <2>4. \A w \in KeptFlags : Holds(line, w) => Holds(args', w) \/ w \in cli_password'
    <3>1. KeptFlags \subseteq Spelling \ {"--password"}
      BY DEF KeptFlags, Spelling
    <3> QED
      BY <1>1, <1>3, <2>1, <3>1 DEF OptionTaken
  <2> QED
    BY <1>1, <1>3, <2>2, <2>3, <2>4 DEF CliInv, Reading, ReadAll, EchoRestored, Holds
<1> QED
  BY <1>2, <1>3 DEF TakePassword, Exit

LEMMA TakeCommandInv == CliInv /\ TakeCommand => CliInv'
<1> SUFFICES ASSUME CliInv, TakeCommand PROVE CliInv'
  OBVIOUS
<1>1. /\ at = "command" /\ status = "running" /\ line \in Seq(Spelling) /\ args \in Seq(Spelling)
      /\ UNCHANGED <<line, cli_password, value, flag, echo, old_term>>
      /\ echo = old_term /\ Cardinality(cli_password) \in Nat
      /\ Len(line) = Len(args) + 2 * Cardinality(cli_password)
      /\ args = <<>> => Len(line) = 2 /\ line[1] = "--password"
      /\ \A w \in KeptFlags : Holds(line, w) => Holds(args, w) \/ w \in cli_password
  BY DEF CliInv, TakeCommand, EchoRestored
<1>2. CASE args = <<>> /\ at' = "end" /\ status' = "undefined" /\ UNCHANGED <<args, command>>
  BY <1>1, <1>2 DEF CliInv, Reading, ReadAll, EchoRestored
<1>3. CASE args # <<>> /\ command' = Head(args) /\ args' = Tail(args)
  <2>1. /\ Head(args) \in Spelling /\ args' \in Seq(Spelling) /\ Len(args') = Len(args) - 1
        /\ \A j \in 1 .. Len(args') : args'[j] = args[j + 1]
    BY <1>1, <1>3, HeadTailProperties
  <2>2. Len(args) \in Nat /\ DOMAIN args = 1 .. Len(args) /\ DOMAIN args' = 1 .. Len(args')
        /\ Len(args') \in Nat /\ Head(args) = args[1]
    BY <1>1, <2>1, LenProperties
  <2>3. CASE at' = "end" /\ status' \in {"0", "1"}
    BY <1>1, <2>1, <2>3 DEF CliInv, Reading, ReadAll, EchoRestored
  <2>4. CASE command' \in Commands /\ at' = "arguments" /\ UNCHANGED status
    <3>1. Len(line) = 1 + Len(args') + 2 * Cardinality(cli_password)
      BY <1>1, <2>1, <2>2
    <3>2. ASSUME NEW w \in KeptFlags, Holds(args, w) PROVE Holds(args', w)
      <4>1. PICK j \in 1 .. Len(args) : args[j] = w
        BY <2>2, <3>2 DEF Holds, Places
      <4>2. j # 1
        BY <1>3, <2>2, <2>4, <4>1 DEF KeptFlags, Commands
      <4>3. j - 1 \in 1 .. Len(args') /\ (j - 1) + 1 = j
        BY <2>1, <2>2, <4>2
      <4>4. args'[j - 1] = w
        BY <2>1, <4>1, <4>3
      <4> QED
        BY <2>2, <4>3, <4>4 DEF Holds, Places
    <3> QED
      BY <1>1, <2>1, <2>4, <3>1, <3>2 DEF CliInv, Reading, ReadAll, EchoRestored, Holds
  <2> QED
    BY <1>3, <2>3, <2>4 DEF TakeCommand, Exit
<1> QED
  BY <1>2, <1>3 DEF TakeCommand

LEMMA TakeArgumentsInv == CliInv /\ TakeArguments => CliInv'
<1> SUFFICES ASSUME CliInv, TakeArguments PROVE CliInv'
  OBVIOUS
<1> DEFINE r == Read(command, args)
<1>1. /\ at = "arguments" /\ status = "running" /\ line \in Seq(Spelling) /\ args \in Seq(Spelling)
      /\ UNCHANGED <<line, command, cli_password, echo, old_term>>
      /\ echo = old_term /\ Cardinality(cli_password) \in Nat /\ command \in Commands
      /\ Len(line) = 1 + Len(args) + 2 * Cardinality(cli_password)
      /\ \A w \in KeptFlags : Holds(line, w) => Holds(args, w) \/ w \in cli_password
  BY DEF CliInv, TakeArguments, EchoRestored
<1>2. /\ flag' = r.flag /\ value' = r.value
      /\ args' = IF r.fails THEN args ELSE r.operands
      /\ \/ at' = "end" /\ status' \in {"1", "2"}
         \/ ~ r.fails /\ at' = "password" /\ UNCHANGED status
  BY DEF TakeArguments, Exit
<1>3. ~ r.fails => /\ r.operands \in Seq(Spelling) /\ Cardinality(r.value) \in Nat
                   /\ Len(args) = Len(r.operands) + 2 * Cardinality(r.value)
                                  + (IF r.flag THEN 1 ELSE 0)
  BY <1>1, EveryWordRead
<1>4. \A w \in FlagOf(command) : Holds(args, w) => r.flag
  BY DEF Read, Holds
<1>5. FlagOf(command) \subseteq KeptFlags
  BY <1>1, FlagAndOption DEF KeptFlags
<1> HIDE DEF r
<1>6. args' \in Seq(Spelling)
  BY <1>1, <1>2, <1>3
<1>7. CASE at' = "end" /\ status' \in {"1", "2"}
  BY <1>1, <1>6, <1>7 DEF CliInv, Reading, ReadAll, EchoRestored
<1>8. CASE ~ r.fails /\ at' = "password" /\ UNCHANGED status
  <2>1. Accounted'
    <3>1. /\ args' = r.operands /\ value' = r.value /\ cli_password' = cli_password
          /\ line' = line /\ flag' = r.flag
      BY <1>1, <1>2, <1>8
    <3>2. Len(r.operands) \in Nat
      BY <1>3, <1>8, LenProperties
    <3>3. Len(line) = 1 + Len(r.operands) + 2 * Cardinality(cli_password)
                      + 2 * Cardinality(r.value) + (IF r.flag THEN 1 ELSE 0)
      <4>1. /\ Len(line) = 1 + Len(args) + 2 * Cardinality(cli_password)
            /\ Cardinality(cli_password) \in Nat
        BY <1>1
      <4>2. /\ Cardinality(r.value) \in Nat
            /\ Len(args) = Len(r.operands) + 2 * Cardinality(r.value) + (IF r.flag THEN 1 ELSE 0)
        BY <1>3, <1>8
      <4>3. PICK n \in {0, 1} : n = IF r.flag THEN 1 ELSE 0
        OBVIOUS
      <4>4. Len(args) = Len(r.operands) + 2 * Cardinality(r.value) + n
        BY <4>2, <4>3
      <4>5. PICK u \in Nat, v \in Nat, p \in Nat :
              u = Len(r.operands) /\ v = Cardinality(r.value) /\ p = Cardinality(cli_password)
        BY <3>2, <4>1, <4>2
      <4>6. Len(line) = 1 + (u + 2 * v + n) + 2 * p
        BY <4>1, <4>4, <4>5
      <4>7. Len(line) = 1 + u + 2 * p + 2 * v + n
        BY <4>6
      <4> QED
        BY <4>3, <4>5, <4>7
    <3> QED
      BY <3>1, <3>3 DEF Accounted
  <2>2. \A w \in FlagOf(command) : Holds(line, w) => flag' \/ w \in cli_password
    BY <1>1, <1>2, <1>4, <1>5
  <2> QED
    BY <1>1, <1>6, <1>8, <2>1, <2>2 DEF CliInv, Reading, ReadAll, EchoRestored, Holds
<1> QED
  BY <1>2, <1>7, <1>8

\* Every step of main keeps the invariant.
LEMMA CliInvStep == CliInv /\ [CliNext]_cliVars => CliInv'
<1> SUFFICES ASSUME CliInv, [CliNext]_cliVars PROVE CliInv'
  OBVIOUS
<1>1. ASSUME UNCHANGED <<line, args, command, cli_password, value, flag>>,
             at \in ReadAll, at' \in ReadAll \cup {"end", "returned"},
             at' \notin {"end", "returned"} => status' = "running",
             status' # "undefined", EchoRestored'
      PROVE  CliInv'
  BY <1>1 DEF CliInv, Reading, ReadAll, Accounted, Holds
<1>2. CASE TakePassword
  BY <1>2, TakePasswordInv
<1>3. CASE TakeCommand
  BY <1>3, TakeCommandInv
<1>4. CASE TakeArguments
  BY <1>4, TakeArgumentsInv
<1>5. CASE ObtainPassword
  BY <1>1, <1>5 DEF ObtainPassword, CliInv, ReadAll, EchoRestored
<1>6. CASE PromptPlainly
  BY <1>1, <1>6 DEF PromptPlainly, CliInv, ReadAll, EchoRestored
<1>7. CASE PromptHidden
  BY <1>1, <1>7 DEF PromptHidden, CliInv, ReadAll, EchoRestored
<1>8. CASE Typed
  BY <1>1, <1>8 DEF Typed, EchoAsBefore, CliInv, ReadAll, EchoRestored
<1>9. CASE Interrupt
  BY <1>1, <1>9 DEF Interrupt, CliInv, ReadAll, EchoRestored
<1>10. CASE CallVault
  BY <1>1, <1>10 DEF CallVault, CliInv, ReadAll, EchoRestored
<1>11. CASE ReturnOrThrow
  BY <1>1, <1>11 DEF ReturnOrThrow, CliInv, ReadAll, EchoRestored
<1>12. CASE UNCHANGED cliVars
  BY <1>12 DEF cliVars, CliInv, Accounted, Holds, EchoRestored
<1> QED
  BY <1>2, <1>3, <1>4, <1>5, <1>6, <1>7, <1>8, <1>9, <1>10, <1>11, <1>12 DEF CliNext

\* No word of any line is read twice or ignored: when Vault is called, the
\* command, the operands, the options with their values and the flag are all of
\* it.  main reads past the end of the line for one line only.
THEOREM NoWordIgnored == CliSpec => []EveryWordUsed
<1>1. CliInv => EveryWordUsed
  BY DEF CliInv, EveryWordUsed, Accounted, ReadAll
<1> QED
  BY <1>1, CliInvInit, CliInvStep, PTL DEF CliSpec

\* A flag that asks to keep a file is obeyed wherever it stands in the line.
THEOREM FlagsObeyed == CliSpec => []KeptIfAsked
<1>1. CliInv => KeptIfAsked
  BY DEF CliInv, KeptIfAsked, Holds, ReadAll
<1> QED
  BY <1>1, CliInvInit, CliInvStep, PTL DEF CliSpec

\* The prompt leaves the terminal as it found it, on every path but a signal's.
THEOREM TerminalRestored == CliSpec => []EchoRestored
<1>1. CliInv => EchoRestored
  BY DEF CliInv
<1> QED
  BY <1>1, CliInvInit, CliInvStep, PTL DEF CliSpec

-----------------------------------------------------------------------------
(***************************************************************************)
(* What main makes of a line that the usage text allows.  The words that   *)
(* are left after each take_option and take_flag are the line at some of   *)
(* its places, in their order; Words is the line at the bare ones.         *)
(***************************************************************************)

\* The places of P in order.
Listed(m, K, P) ==
  /\ m \in [1 .. K -> P]
  /\ \A h \in 1 .. K, j \in 1 .. K : h < j => m[h] < m[j]
  /\ \A p \in P : \E k \in 1 .. K : m[k] = p

Before(P, q) == {j \in P : j < q}

\* How many of the places come before the n-th.
LEMMA Rank ==
  ASSUME NEW P, P \subseteq Nat, NEW K \in Nat, NEW m, Listed(m, K, P), NEW n \in 1 .. K
  PROVE  Cardinality(Before(P, m[n])) = n - 1
<1> DEFINE B == Before(P, m[n])
           f == [k \in 1 .. n - 1 |-> m[k]]
<1>1. \A k \in 1 .. K : m[k] \in P /\ m[k] \in Nat
  BY DEF Listed
<1>2. \A k \in 1 .. n - 1 : f[k] = m[k] /\ k \in 1 .. K /\ k < n /\ m[k] < m[n]
  BY DEF Listed
<1>3. f \in [1 .. n - 1 -> B]
  BY <1>1, <1>2 DEF Before
<1> HIDE DEF f
<1>4. ASSUME NEW h \in 1 .. n - 1, NEW j \in 1 .. n - 1, f[h] = f[j]
      PROVE  h = j
  <2>1. m[h] = m[j] /\ h \in 1 .. K /\ j \in 1 .. K /\ m[h] \in Nat
    BY <1>1, <1>2, <1>4
  <2>2. ~ (h < j) /\ ~ (j < h)
    BY <2>1 DEF Listed
  <2> QED
    BY <2>2
<1>5. ASSUME NEW p \in B
      PROVE  \E k \in 1 .. n - 1 : f[k] = p
  <2>1. PICK k \in 1 .. K : m[k] = p
    BY DEF Listed, Before
  <2>2. p < m[n] /\ p \in Nat /\ m[n] \in Nat
    BY <1>1 DEF Before
  <2>3. k # n /\ ~ (n < k)
    BY <2>1, <2>2 DEF Listed
  <2>4. k \in 1 .. n - 1
    BY <2>3
  <2> QED
    BY <1>2, <2>1, <2>4
<1> HIDE DEF B
<1>6. f \in Bijection(1 .. n - 1, B)
  BY <1>3, <1>4, <1>5 DEF Bijection, Injection, Surjection, IsInjective
<1>7. Cardinality(B) = n - 1
  <2>1. ExistsBijection(1 .. n - 1, B)
    BY <1>6 DEF ExistsBijection
  <2>2. n - 1 \in Nat
    OBVIOUS
  <2> QED
    BY <2>1, <2>2, FS_CountingElements
<1> QED
  BY <1>7 DEF B

LEMMA Counted ==
  ASSUME NEW P, P \subseteq Nat, NEW K \in Nat, NEW m, Listed(m, K, P)
  PROVE  Cardinality(P) = K
<1>1. \A k \in 1 .. K : m[k] \in P /\ m[k] \in Nat
  BY DEF Listed
<1>2. ASSUME NEW h \in 1 .. K, NEW j \in 1 .. K, m[h] = m[j]
      PROVE  h = j
  <2>1. ~ (h < j) /\ ~ (j < h)
    BY <1>1, <1>2 DEF Listed
  <2> QED
    BY <2>1
<1>3. m \in Bijection(1 .. K, P)
  BY <1>2 DEF Listed, Bijection, Injection, Surjection, IsInjective
<1>4. ExistsBijection(1 .. K, P)
  BY <1>3 DEF ExistsBijection
<1> QED
  BY <1>4, FS_CountingElements

\* The n-th place, as Words picks it.
Nth(P, n) == CHOOSE q \in P : Cardinality({j \in P : j < q}) = n - 1

LEMMA Picked ==
  ASSUME NEW P, P \subseteq Nat, NEW K \in Nat, NEW m, Listed(m, K, P), NEW n \in 1 .. K
  PROVE  Nth(P, n) = m[n]
<1> DEFINE At(q) == Cardinality(Before(P, q))
<1>0. ASSUME NEW k \in 1 .. K
      PROVE  At(m[k]) = k - 1
  BY Rank
<1>1. m[n] \in P /\ At(m[n]) = n - 1
  <2>1. m[n] \in P
    BY DEF Listed
  <2> HIDE DEF At
  <2> QED
    BY <1>0, <2>1
<1>2. ASSUME NEW q \in P, At(q) = n - 1
      PROVE  q = m[n]
  <2>1. PICK k \in 1 .. K : m[k] = q
    BY DEF Listed
  <2>2. At(m[k]) = k - 1
    BY <1>0
  <2>3. k = n
    BY <1>2, <2>1, <2>2
  <2> QED
    BY <2>1, <2>3
<1> HIDE DEF At
<1>3. (CHOOSE q \in P : At(q) = n - 1) = m[n]
  BY <1>1, <1>2
<1> QED
  BY <1>3 DEF At, Before, Nth
-----------------------------------------------------------------------------
\* s is what stands at the places P of ws, in their order.
Shown(m, s, ws, P) == Listed(m, Len(s), P) /\ \A k \in 1 .. Len(s) : s[k] = ws[m[k]]
Sub(s, ws, P) == \E m : Shown(m, s, ws, P)

\* A line is what stands at all its places.
LEMMA SubWhole ==
  ASSUME NEW s \in Seq(Spelling)
  PROVE  Sub(s, s, DOMAIN s)
<1> DEFINE m == [k \in 1 .. Len(s) |-> k]
<1>1. Len(s) \in Nat /\ DOMAIN s = 1 .. Len(s)
  BY LenProperties
<1>2. \A k \in 1 .. Len(s) : m[k] = k
  OBVIOUS
<1>3. m \in [1 .. Len(s) -> 1 .. Len(s)]
  OBVIOUS
<1> HIDE DEF m
<1>4. Listed(m, Len(s), 1 .. Len(s))
  BY <1>2, <1>3 DEF Listed
<1> QED
  BY <1>1, <1>2, <1>4 DEF Sub, Shown

\* The places of n words from the k-th.
Span(m, k, n) == {m[j] : j \in k .. k + n - 1}

\* Without n of its words: the places of the others.
LEMMA SubDropped ==
  ASSUME NEW ws, NEW P, P \subseteq Nat, NEW s \in Seq(Spelling), NEW m, Shown(m, s, ws, P),
         NEW k \in 1 .. Len(s), NEW n \in Nat, k + n - 1 <= Len(s)
  PROVE  Sub(Removed(s, k, n), ws, P \ Span(m, k, n))
<1> DEFINE r == Removed(s, k, n)
           G == Span(m, k, n)
           d == [j \in 1 .. Len(s) - n |-> IF j < k THEN m[j] ELSE m[j + n]]
<1>0. Listed(m, Len(s), P) /\ \A j \in 1 .. Len(s) : s[j] = ws[m[j]]
  BY DEF Shown
<1>1. Len(s) \in Nat /\ \A j \in 1 .. Len(s) : m[j] \in P /\ m[j] \in Nat
  BY <1>0, LenProperties DEF Listed
<1>2. /\ Len(r) = Len(s) - n
      /\ \A j \in 1 .. Len(s) - n : r[j] = IF j < k THEN s[j] ELSE s[j + n]
  BY RemovedAt
<1>3. \A j \in 1 .. Len(s) - n : d[j] = IF j < k THEN m[j] ELSE m[j + n]
  OBVIOUS
<1>4. ASSUME NEW h \in 1 .. Len(s), NEW j \in 1 .. Len(s), m[h] = m[j]
      PROVE  h = j
  <2>1. ~ (h < j) /\ ~ (j < h)
    BY <1>0, <1>1, <1>4 DEF Listed
  <2> QED
    BY <1>1, <2>1
<1> HIDE DEF r
<1>5. ASSUME NEW j \in 1 .. Len(s) - n
      PROVE  /\ d[j] \in P \ G
             /\ \E h \in 1 .. Len(s) : h = (IF j < k THEN j ELSE j + n) /\ d[j] = m[h] /\ r[j] = s[h]
  <2>1. PICK h \in 1 .. Len(s) : h = IF j < k THEN j ELSE j + n
    BY <1>1
  <2>2. d[j] = m[h] /\ r[j] = s[h]
    BY <1>2, <1>3, <2>1
  <2>3. h \notin k .. k + n - 1
    BY <1>1, <2>1
  <2>4. k .. k + n - 1 \subseteq 1 .. Len(s)
    BY <1>1
  <2>5. m[h] \notin G
    BY <1>4, <2>3, <2>4 DEF Span
  <2> HIDE DEF G, d
  <2> QED
    BY <1>1, <2>1, <2>2, <2>5
<1>6. d \in [1 .. Len(s) - n -> P \ G]
  <2> HIDE DEF G
  <2> QED
    BY <1>5
<1>7. ASSUME NEW h \in 1 .. Len(s) - n, NEW j \in 1 .. Len(s) - n, h < j
      PROVE  d[h] < d[j]
  <2> HIDE DEF d, G
  <2>1. PICK a \in 1 .. Len(s) : a = (IF h < k THEN h ELSE h + n) /\ d[h] = m[a]
    BY <1>5
  <2>2. PICK b \in 1 .. Len(s) : b = (IF j < k THEN j ELSE j + n) /\ d[j] = m[b]
    BY <1>5
  <2>3. a < b
    BY <1>1, <1>7, <2>1, <2>2
  <2> QED
    BY <1>0, <2>1, <2>2, <2>3 DEF Listed
<1>8. ASSUME NEW p \in P \ G
      PROVE  \E j \in 1 .. Len(s) - n : d[j] = p
  <2>1. PICK h \in 1 .. Len(s) : m[h] = p
    BY <1>0 DEF Listed
  <2>2. h \notin k .. k + n - 1
    BY <2>1 DEF Span
  <2>3. CASE h < k
    <3>1. h \in 1 .. Len(s) - n
      BY <1>1, <2>3
    <3> QED
      BY <1>3, <2>1, <2>3, <3>1
  <2>4. CASE ~ (h < k)
    <3>1. h - n \in 1 .. Len(s) - n /\ ~ (h - n < k) /\ (h - n) + n = h
      BY <1>1, <2>2, <2>4
    <3> QED
      BY <1>3, <2>1, <3>1
  <2> QED
    BY <2>3, <2>4
<1> HIDE DEF d
<1>9. ASSUME NEW j \in 1 .. Len(s) - n PROVE r[j] = ws[d[j]]
  <2> HIDE DEF G
  <2>1. PICK h \in 1 .. Len(s) : d[j] = m[h] /\ r[j] = s[h]
    BY <1>5
  <2> QED
    BY <1>0, <2>1
<1> HIDE DEF G
<1>10. Listed(d, Len(r), P \ G)
  BY <1>2, <1>6, <1>7, <1>8 DEF Listed
<1>11. Sub(r, ws, P \ G)
  BY <1>2, <1>9, <1>10 DEF Sub, Shown
<1> QED
  BY <1>11 DEF r, G

\* Without the first of its words.
LEMMA SubTail ==
  ASSUME NEW ws, NEW P, P \subseteq Nat, NEW s \in Seq(Spelling), Sub(s, ws, P), s # <<>>
  PROVE  \E q \in P : /\ \A p \in P : q <= p
                      /\ Head(s) = ws[q] /\ Sub(Tail(s), ws, P \ {q})
<1>1. /\ Len(s) \in Nat /\ Len(s) # 0 /\ Head(s) = s[1] /\ Tail(s) \in Seq(Spelling)
      /\ Len(Tail(s)) = Len(s) - 1 /\ \A j \in 1 .. Len(Tail(s)) : Tail(s)[j] = s[j + 1]
  BY LenProperties, EmptySeq, HeadTailProperties
<1>2. PICK m : Shown(m, s, ws, P)
  BY DEF Sub
<1>3. 1 \in 1 .. Len(s) /\ 1 + 1 - 1 <= Len(s)
  BY <1>1
<1>4. PICK q \in P : q = m[1]
  BY <1>2, <1>3 DEF Shown, Listed
<1>5. ASSUME NEW p \in P PROVE q <= p
  <2>1. PICK j \in 1 .. Len(s) : m[j] = p
    BY <1>2 DEF Shown, Listed
  <2>2. j = 1 \/ 1 < j
    OBVIOUS
  <2>3. q = p \/ q < p
    BY <1>2, <1>3, <1>4, <2>1, <2>2 DEF Shown, Listed
  <2> QED
    BY <2>3
<1>6. Removed(s, 1, 1) = Tail(s)
  <2> DEFINE r == Removed(s, 1, 1)
  <2>1. /\ r \in Seq(Spelling) /\ Len(r) = Len(s) - 1
        /\ \A j \in 1 .. Len(s) - 1 : r[j] = IF j < 1 THEN s[j] ELSE s[j + 1]
    BY <1>3, RemovedAt
  <2> HIDE DEF r
  <2>2. \A j \in 1 .. Len(s) - 1 : r[j] = Tail(s)[j]
    BY <1>1, <2>1
  <2>3. r = Tail(s)
    BY <1>1, <2>1, <2>2, SeqEqual
  <2> QED
    BY <2>3 DEF r
<1>7. Sub(Removed(s, 1, 1), ws, P \ Span(m, 1, 1))
  BY <1>2, <1>3, SubDropped
<1>8. Span(m, 1, 1) = {q}
  BY <1>4 DEF Span
<1>9. Sub(Tail(s), ws, P \ {q})
  BY <1>6, <1>7, <1>8
<1>10. Head(s) = ws[q]
  BY <1>1, <1>2, <1>3, <1>4 DEF Shown
<1> QED
  BY <1>5, <1>9, <1>10

\* With its first word again.
LEMMA SubPrefixed ==
  ASSUME NEW ws, NEW P, P \subseteq Nat, NEW s \in Seq(Spelling), NEW q \in P,
         \A p \in P : q <= p, Sub(s, ws, P \ {q}), ws[q] \in Spelling
  PROVE  <<ws[q]>> \o s \in Seq(Spelling) /\ Sub(<<ws[q]>> \o s, ws, P)
<1>1. PICK m : Shown(m, s, ws, P \ {q})
  BY DEF Sub
<1>2. Len(s) \in Nat /\ q \in Nat
  BY LenProperties
<1>3. PICK u \in Seq(Spelling) : u = <<ws[q]>> /\ Len(u) = 1 /\ u[1] = ws[q]
  <2>1. PICK v \in Spelling : v = ws[q]
    OBVIOUS
  <2>2. <<v>> \in Seq(Spelling) /\ Len(<<v>>) = 1 /\ <<v>>[1] = v
    OBVIOUS
  <2> QED
    BY <2>1, <2>2
<1>4. PICK r \in Seq(Spelling) : r = u \o s
  BY ConcatProperties
<1>5. /\ Len(r) = 1 + Len(s)
      /\ \A j \in 1 .. 1 + Len(s) : r[j] = IF j <= 1 THEN u[j] ELSE s[j - 1]
  BY <1>3, <1>4, ConcatProperties
<1> DEFINE d == [j \in 1 .. 1 + Len(s) |-> IF j = 1 THEN q ELSE m[j - 1]]
<1>6. /\ d[1] = q /\ \A j \in 1 .. Len(s) : d[j + 1] = m[j]
      /\ \A j \in 1 .. 1 + Len(s) : d[j] = IF j = 1 THEN q ELSE m[j - 1]
  BY <1>2
<1>7. \A j \in 1 .. Len(s) : m[j] \in P \ {q} /\ m[j] \in Nat /\ q < m[j]
  <2>1. \A j \in 1 .. Len(s) : m[j] \in P \ {q}
    BY <1>1 DEF Shown, Listed
  <2>2. \A p \in P \ {q} : p \in Nat /\ q < p
    BY <1>2
  <2> QED
    BY <2>1, <2>2
<1>8. d \in [1 .. 1 + Len(s) -> P]
  BY <1>2, <1>7
<1> HIDE DEF d
<1>9. ASSUME NEW h \in 1 .. 1 + Len(s), NEW j \in 1 .. 1 + Len(s), h < j
      PROVE  d[h] < d[j]
  <2>1. j - 1 \in 1 .. Len(s) /\ d[j] = m[j - 1]
    BY <1>2, <1>6, <1>9
  <2>2. CASE h = 1
    BY <1>6, <1>7, <2>1, <2>2
  <2>3. CASE h # 1
    <3>1. h - 1 \in 1 .. Len(s) /\ d[h] = m[h - 1] /\ h - 1 < j - 1
      BY <1>2, <1>6, <1>9, <2>3
    <3> QED
      BY <1>1, <2>1, <3>1 DEF Shown, Listed
  <2> QED
    BY <2>2, <2>3
<1>10. ASSUME NEW p \in P PROVE \E j \in 1 .. 1 + Len(s) : d[j] = p
  <2>1. CASE p = q
    <3>1. 1 \in 1 .. 1 + Len(s)
      BY <1>2
    <3> QED
      BY <1>6, <2>1, <3>1
  <2>2. CASE p # q
    <3>1. PICK j \in 1 .. Len(s) : m[j] = p
      BY <1>1, <2>2 DEF Shown, Listed
    <3>2. j + 1 \in 1 .. 1 + Len(s) /\ d[j + 1] = p
      BY <1>2, <1>6, <3>1
    <3> QED
      BY <3>2
  <2> QED
    BY <2>1, <2>2
<1>11. Listed(d, Len(r), P)
  BY <1>5, <1>8, <1>9, <1>10 DEF Listed
<1>12. ASSUME NEW j \in 1 .. Len(r) PROVE r[j] = ws[d[j]]
  <2>1. CASE j = 1
    BY <1>2, <1>3, <1>5, <1>6, <2>1
  <2>2. CASE j # 1
    <3>1. j - 1 \in 1 .. Len(s) /\ r[j] = s[j - 1] /\ d[j] = m[j - 1]
      BY <1>2, <1>5, <1>6, <2>2
    <3> QED
      BY <1>1, <3>1 DEF Shown
  <2> QED
    BY <2>1, <2>2
<1>13. Sub(r, ws, P)
  BY <1>11, <1>12 DEF Sub, Shown
<1> QED
  BY <1>3, <1>4, <1>13

\* The places that take_flag and take_option leave, and the option's value.
WithoutFlag(ws, P, w)   == {p \in P : ws[p] # w}
WithoutOption(ws, P, w) == {p \in P : ws[p] # w /\ ~ (p - 1 \in P /\ ws[p - 1] = w)}
ValueAt(ws, P, w)       == {ws[p + 1] : p \in {q \in P : ws[q] = w}}

Once(ws, P, w) == \A p \in P, q \in P : ws[p] = w /\ ws[q] = w => p = q

\* Where the first w of s stands.
First(m, s, ws, P, w) ==
  /\ FirstPlace(s, w) \in 1 .. Len(s)
  /\ m[FirstPlace(s, w)] \in P /\ ws[m[FirstPlace(s, w)]] = w

LEMMA FirstAt ==
  ASSUME NEW ws, NEW P, P \subseteq Nat, NEW s \in Seq(Spelling), NEW w, Once(ws, P, w),
         NEW m, Shown(m, s, ws, P)
  PROVE  /\ Holds(s, w) <=> \E p \in P : ws[p] = w
         /\ Holds(s, w) => First(m, s, ws, P, w)
<1>1. DOMAIN s = 1 .. Len(s)
  BY LenProperties
<1>2. ASSUME Holds(s, w)
      PROVE  First(m, s, ws, P, w)
  <2>1. FirstPlace(s, w) \in 1 .. Len(s) /\ s[FirstPlace(s, w)] = w
    BY <1>2, FirstPlaceOf DEF Holds
  <2> QED
    BY <2>1 DEF Shown, Listed, First
<1>3. ASSUME NEW p \in P, ws[p] = w PROVE Holds(s, w)
  <2>1. PICK j \in 1 .. Len(s) : m[j] = p
    BY DEF Shown, Listed
  <2>2. s[j] = w
    BY <1>3, <2>1 DEF Shown
  <2> QED
    BY <1>1, <2>2 DEF Holds, Places
<1> QED
  BY <1>2, <1>3 DEF First

LEMMA FlagDropped ==
  ASSUME NEW ws, NEW P, P \subseteq Nat, NEW s \in Seq(Spelling), NEW w,
         Sub(s, ws, P), Once(ws, P, w)
  PROVE  /\ Holds(s, w) <=> \E p \in P : ws[p] = w
         /\ Sub(AfterFlag(s, w), ws, WithoutFlag(ws, P, w))
<1>1. PICK m : Shown(m, s, ws, P)
  BY DEF Sub
<1>2. /\ Holds(s, w) <=> \E p \in P : ws[p] = w
      /\ Holds(s, w) => First(m, s, ws, P, w)
  BY <1>1, FirstAt
<1>3. CASE ~ Holds(s, w)
  <2>1. WithoutFlag(ws, P, w) = P
    BY <1>2, <1>3 DEF WithoutFlag
  <2>2. AfterFlag(s, w) = s
    BY <1>3 DEF AfterFlag, Holds
  <2> QED
    BY <1>2, <2>1, <2>2
<1>4. CASE Holds(s, w)
  <2>1. PICK k \in 1 .. Len(s) : k = FirstPlace(s, w) /\ m[k] \in P /\ ws[m[k]] = w
    <3>1. First(m, s, ws, P, w)
      BY <1>2, <1>4
    <3> QED
      BY <3>1 DEF First
  <2>2. AfterFlag(s, w) = Removed(s, k, 1)
    BY <1>4, <2>1 DEF AfterFlag, Holds
  <2>3. 1 \in Nat /\ k + 1 - 1 <= Len(s) /\ k .. k + 1 - 1 = {k}
    BY LenProperties
  <2>4. Sub(Removed(s, k, 1), ws, P \ Span(m, k, 1))
    BY <1>1, <2>3, SubDropped
  <2>5. P \ Span(m, k, 1) = WithoutFlag(ws, P, w)
    <3>1. Span(m, k, 1) = {m[k]}
      BY <2>3 DEF Span
    <3>2. \A p \in P : ws[p] = w <=> p = m[k]
      BY <2>1 DEF Once
    <3> QED
      BY <3>1, <3>2 DEF WithoutFlag
  <2> QED
    BY <1>2, <2>2, <2>4, <2>5
<1> QED
  BY <1>3, <1>4

LEMMA OptionDropped ==
  ASSUME NEW ws, NEW P, P \subseteq Nat, NEW s \in Seq(Spelling), NEW w,
         Sub(s, ws, P), Once(ws, P, w), \A p \in P : ws[p] = w => p + 1 \in P
  PROVE  /\ ~ NoValue(s, w) /\ Option(s, w) = ValueAt(ws, P, w)
         /\ Sub(AfterOption(s, w), ws, WithoutOption(ws, P, w))
<1>1. PICK m : Shown(m, s, ws, P)
  BY DEF Sub
<1>2. /\ Holds(s, w) <=> \E p \in P : ws[p] = w
      /\ Holds(s, w) => First(m, s, ws, P, w)
  BY <1>1, FirstAt
<1>3. CASE ~ Holds(s, w)
  <2>1. WithoutOption(ws, P, w) = P /\ ValueAt(ws, P, w) = {}
    BY <1>2, <1>3 DEF WithoutOption, ValueAt
  <2>2. AfterOption(s, w) = s /\ Option(s, w) = {} /\ ~ NoValue(s, w)
    BY <1>3 DEF AfterOption, Option, NoValue, Holds
  <2> QED
    BY <2>1, <2>2
<1>4. CASE Holds(s, w)
  <2>1. PICK k \in 1 .. Len(s) : k = FirstPlace(s, w) /\ m[k] \in P /\ ws[m[k]] = w
    <3>1. First(m, s, ws, P, w)
      BY <1>2, <1>4
    <3> QED
      BY <3>1 DEF First
  <2>2. Len(s) \in Nat /\ \A j \in 1 .. Len(s) : m[j] \in P /\ m[j] \in Nat
    BY <1>1, LenProperties DEF Shown, Listed
  <2>3. PICK h \in 1 .. Len(s) : m[h] = m[k] + 1
    BY <1>1, <2>1 DEF Shown, Listed
  <2>4. k < h
    <3>1. h < k => m[h] < m[k]
      BY <1>1 DEF Shown, Listed
    <3> QED
      BY <2>2, <2>3, <3>1
  <2>5. k + 1 \in 1 .. Len(s)
    BY <2>2, <2>4
  <2>6. h = k + 1
    <3>1. m[k] < m[k + 1]
      BY <1>1, <2>2, <2>5 DEF Shown, Listed
    <3>2. k + 1 < h => m[k + 1] < m[h]
      BY <1>1, <2>5 DEF Shown, Listed
    <3>3. m[k + 1] \in Nat
      BY <2>2, <2>5
    <3>4. ~ (k + 1 < h)
      BY <2>2, <2>3, <3>1, <3>2, <3>3
    <3> QED
      BY <2>4, <3>4
  <2>7. ~ NoValue(s, w)
    BY <2>1, <2>2, <2>5 DEF NoValue
  <2>8. AfterOption(s, w) = Removed(s, k, 2) /\ Option(s, w) = {s[k + 1]}
    BY <1>4, <2>1 DEF AfterOption, Option, Holds
  <2>9. \A p \in P : ws[p] = w <=> p = m[k]
    BY <2>1 DEF Once
  <2>10. Option(s, w) = ValueAt(ws, P, w)
    <3>1. s[k + 1] = ws[m[k] + 1]
      BY <1>1, <2>3, <2>5, <2>6 DEF Shown
    <3>2. {p \in P : ws[p] = w} = {m[k]}
      BY <2>1, <2>9
    <3>3. ValueAt(ws, P, w) = {ws[m[k] + 1]}
      BY <3>2 DEF ValueAt
    <3> QED
      BY <2>8, <3>1, <3>3
  <2>11. 2 \in Nat /\ k + 2 - 1 <= Len(s) /\ k .. k + 2 - 1 = {k, k + 1}
    BY <2>2, <2>5
  <2>12. Sub(Removed(s, k, 2), ws, P \ Span(m, k, 2))
    BY <1>1, <2>11, SubDropped
  <2>13. P \ Span(m, k, 2) = WithoutOption(ws, P, w)
    <3>1. Span(m, k, 2) = {m[k], m[k] + 1}
      BY <2>3, <2>6, <2>11 DEF Span
    <3>2. ASSUME NEW p \in P
          PROVE  p - 1 \in P /\ ws[p - 1] = w <=> p = m[k] + 1
      <4>1. p \in Nat /\ m[k] \in Nat
        BY <2>1
      <4>2. p = m[k] + 1 <=> p - 1 = m[k]
        BY <4>1
      <4> QED
        BY <2>1, <2>9, <4>2
    <3> QED
      BY <2>9, <3>1, <3>2 DEF WithoutOption
  <2> QED
    BY <2>7, <2>8, <2>10, <2>12, <2>13
<1> QED
  BY <1>3, <1>4

-----------------------------------------------------------------------------
\* The places of the words that are no options, values or flags.
Bare(ws) == {p \in DOMAIN ws : ws[p] \notin Options \cup Flags /\ ~ IsValue(ws, p)}

\* Words lists them.
LEMMA WordsOf ==
  ASSUME NEW ws \in Seq(Spelling), NEW s \in Seq(Spelling), Sub(s, ws, Bare(ws))
  PROVE  s = Words(ws)
<1> DEFINE P == Bare(ws)
<1>1. P \subseteq Nat /\ Len(s) \in Nat
  BY LenProperties DEF Bare
<1>2. PICK m : Shown(m, s, ws, P)
  BY DEF Sub
<1>3. Words(ws) = [n \in 1 .. Cardinality(P) |->
                     ws[Nth(P, n)]]
  BY DEF Words, Bare, Nth
<1> HIDE DEF P
<1>4. Cardinality(P) = Len(s)
  BY <1>1, <1>2, Counted DEF Shown
<1>5. ASSUME NEW n \in 1 .. Len(s)
      PROVE  Nth(P, n) = m[n]
  <2>1. Listed(m, Len(s), P)
    BY <1>2 DEF Shown
  <2> QED
    BY <1>1, <2>1, Picked
<1>6. Words(ws) = [n \in 1 .. Len(s) |-> s[n]]
  BY <1>2, <1>3, <1>4, <1>5 DEF Shown
<1>7. s = [n \in 1 .. Len(s) |-> s[n]]
  BY LenProperties
<1> QED
  BY <1>6, <1>7

\* The first place.
LEMMA FirstOf ==
  ASSUME NEW P, P \subseteq Nat, NEW q \in P, \A p \in P : q <= p
  PROVE  Nth(P, 1) = q
<1> DEFINE At(p) == Cardinality(Before(P, p))
<1>1. At(q) = 0
  <2>1. Before(P, q) = {}
    <3>1. \A p \in P : ~ (p < q)
      OBVIOUS
    <3> QED
      BY <3>1 DEF Before
  <2> QED
    BY <2>1, FS_EmptySet, Zenon
<1>2. ASSUME NEW p \in P, At(p) = 0
      PROVE  p = q
  <2>1. IsFiniteSet(Before(P, p))
    <3>0. p \in Nat /\ \A j \in P : j < p => j \in 0 .. p
      OBVIOUS
    <3>1. p \in Nat /\ Before(P, p) \subseteq 0 .. p
      BY <3>0 DEF Before
    <3>2. IsFiniteSet(0 .. p)
      BY <3>1, FS_Interval
    <3> QED
      BY <3>1, <3>2, FS_Subset
  <2>2. Before(P, p) = {}
    BY <1>2, <2>1, FS_EmptySet
  <2>3. ~ (q < p)
    BY <2>2 DEF Before
  <2> QED
    BY <2>3
<1> HIDE DEF At
<1>3. (CHOOSE p \in P : At(p) = 1 - 1) = q
  BY <1>1, <1>2
<1> QED
  BY <1>3 DEF At, Before, Nth

\* The options, flags and commands.
LEMMA Vocabulary ==
  ASSUME NEW c \in Commands
  PROVE  /\ OptionOf(c) \subseteq Options \ {"--password"} /\ FlagOf(c) \subseteq Flags
         /\ "--password" \in Options /\ Options \cap Flags = {}
         /\ c \notin Options \cup Flags /\ c \notin Help /\ Commands \cap Help = {}
         /\ Options \cup Flags \subseteq Spelling
<1>1. OptionOf(c) \subseteq {"--iterations", "--name"}
  BY DEF OptionOf
<1>2. FlagOf(c) \subseteq {"--keep-source", "--keep-in-vault"}
  BY DEF FlagOf
<1>3. c \in {"init", "list", "add", "extract", "remove", "delete"}
  BY DEF Commands
<1>4. /\ "--password" \in Options /\ Options \cap Flags = {} /\ Commands \cap Help = {}
      /\ Options \cup Flags \subseteq Spelling
  <2>1. "--password" \in Options /\ Options \cup Flags \subseteq Spelling
    BY DEF Options, Flags, Spelling
  <2>2. Options \cap Flags = {}
    BY DEF Options, Flags
  <2>3. Commands \cap Help = {}
    BY DEF Commands, Help
  <2> QED
    BY <2>1, <2>2, <2>3
<1>5. c \notin Options \cup Flags /\ c \notin Help
  BY <1>3 DEF Options, Flags, Help
<1>7. {"--iterations", "--name"} \subseteq Options \ {"--password"}
  BY DEF Options
<1>8. {"--keep-source", "--keep-in-vault"} \subseteq Flags
  BY DEF Flags
<1> QED
  BY <1>1, <1>2, <1>4, <1>5, <1>7, <1>8

\* A line whose command is c, at place q: it is the first bare word, and only
\* --password may be in front of it.
CommandAt(ws, c, q) ==
  /\ c \in Commands /\ c = Words(ws)[1]
  /\ q \in Bare(ws) /\ ws[q] = c /\ \A p \in Bare(ws) : q <= p
  /\ q = 1 \/ (q = 3 /\ ws[1] = "--password")

\* Its options and flags.
Orderly(ws, c) ==
  /\ \A w \in Options \cup Flags : Once(ws, DOMAIN ws, w)
  /\ \A p \in DOMAIN ws :
       ws[p] \in Options \cup Flags => ws[p] \in {"--password"} \cup OptionOf(c) \cup FlagOf(c)
  /\ \A p \in DOMAIN ws :
       ws[p] \in Options => p + 1 \in DOMAIN ws /\ ws[p + 1] \notin Options \cup Flags

LEMMA AllowedBegins ==
  ASSUME NEW ws \in Seq(Spelling), Allowed(ws)
  PROVE  \E q : CommandAt(ws, Words(ws)[1], q)
<1> DEFINE P == Bare(ws)
           c == Words(ws)[1]
<1>1. /\ Words(ws) # <<>> /\ c \in Commands
      /\ ws[1] = c \/ (ws[1] = "--password" /\ ws[3] = c)
      /\ ws[1] \in Options /\ 1 \in DOMAIN ws => ws[2] \notin Options \cup Flags
  <2>1. \A p \in DOMAIN ws : ws[p] \in Options => ws[p + 1] \notin Options \cup Flags
    BY DEF Allowed
  <2>2. ws[1] \in Options /\ 1 \in DOMAIN ws => ws[2] \notin Options \cup Flags
    BY <2>1
  <2> QED
    BY <2>2 DEF Allowed
<1>2. Len(ws) \in Nat /\ DOMAIN ws = 1 .. Len(ws) /\ P \subseteq 1 .. Len(ws)
  BY LenProperties DEF Bare
<1>3. Words(ws) = [n \in 1 .. Cardinality(P) |-> ws[Nth(P, n)]]
  BY DEF Words, Bare, Nth
<1> HIDE DEF c
<1>4. P # {}
  <2>1. ASSUME P = {} PROVE FALSE
    <3>1. Cardinality(P) = 0
      BY <2>1, FS_EmptySet
    <3>2. 1 .. Cardinality(P) = {}
      BY <3>1
    <3>3. Words(ws) = [n \in {} |-> ws[Nth(P, n)]]
      BY <1>3, <3>2
    <3>4. Words(ws) = <<>>
      BY <3>3
    <3> QED
      BY <1>1, <3>4
  <2> QED
    BY <2>1
<1>5. Cardinality(P) \in Nat \ {0}
  <2>1. IsFiniteSet(P)
    <3>1. IsFiniteSet(1 .. Len(ws))
      BY <1>2, FS_Interval
    <3> HIDE DEF P
    <3> QED
      BY <1>2, <3>1, FS_Subset
  <2> HIDE DEF P
  <2> QED
    BY <1>4, <2>1, FS_EmptySet, FS_CardinalityType
<1>6. PICK q \in P : \A p \in P : q <= p
  <2>1. P \subseteq Nat
    BY <1>2
  <2> HIDE DEF P
  <2> QED
    BY <1>4, <2>1, LeastExists
<1>7. c = ws[q]
  <2> HIDE DEF P
  <2>1. Nth(P, 1) = q
    <3>1. P \subseteq Nat
      BY <1>2
    <3> QED
      BY <1>6, <3>1, FirstOf
  <2>2. 1 \in 1 .. Cardinality(P)
    BY <1>5
  <2> QED
    BY <1>3, <2>1, <2>2 DEF c
<1>8. q \in 1 .. Len(ws) /\ 1 \in DOMAIN ws
  BY <1>2, <1>6
<1>9. c \notin Options \cup Flags /\ "--password" \in Options
  BY <1>1, Vocabulary
<1>10. CASE ws[1] = c
  <2>1. 1 \in P
    BY <1>8, <1>9, <1>10 DEF Bare, IsValue
  <2>2. q = 1
    BY <1>6, <1>8, <2>1
  <2> QED
    BY <1>1, <1>6, <1>7, <2>2 DEF CommandAt, c
<1>11. CASE ws[1] = "--password" /\ ws[3] = c
  <2>1. 1 \notin P
    BY <1>9, <1>11 DEF Bare
  <2>2. 2 \notin P
    <3>1. IsValue(ws, 2)
      BY <1>9, <1>11 DEF IsValue
    <3> QED
      BY <3>1 DEF Bare
  <2>3. 3 <= q
    <3>1. q # 1 /\ q # 2
      BY <1>6, <2>1, <2>2
    <3> QED
      BY <1>8, <3>1
  <2>4. 3 \in P
    <3>1. 3 \in DOMAIN ws
      BY <1>2, <1>8, <2>3
    <3>2. ~ IsValue(ws, 3)
      BY <1>1, <1>8, <1>9, <1>11 DEF IsValue
    <3> QED
      BY <1>9, <1>11, <3>1, <3>2 DEF Bare
  <2>5. q = 3
    BY <1>6, <1>8, <2>3, <2>4
  <2> QED
    BY <1>1, <1>6, <1>7, <1>11, <2>5 DEF CommandAt, c
<1> QED
  BY <1>1, <1>10, <1>11

LEMMA AllowedOrderly ==
  ASSUME NEW ws \in Seq(Spelling), Allowed(ws)
  PROVE  Orderly(ws, Words(ws)[1])
<1>1. Len(ws) \in Nat /\ DOMAIN ws = 1 .. Len(ws)
  BY LenProperties
<1>2. ASSUME NEW w \in Options \cup Flags
      PROVE  Once(ws, DOMAIN ws, w)
  <2>1. ASSUME NEW p \in DOMAIN ws, NEW q \in DOMAIN ws, ws[p] = w, ws[q] = w, p # q
        PROVE  FALSE
    <3>1. {p, q} \subseteq Places(ws, w) /\ Places(ws, w) \subseteq 1 .. Len(ws)
      BY <1>1, <2>1 DEF Places
    <3>2. IsFiniteSet(Places(ws, w))
      <4>1. IsFiniteSet(1 .. Len(ws))
        BY <1>1, FS_Interval
      <4> QED
        BY <3>1, <4>1, FS_Subset
    <3>3. Cardinality({p, q}) = 2
      <4>1. IsFiniteSet({p}) /\ Cardinality({p}) = 1
        BY FS_Singleton
      <4>2. {p} \cup {q} = {p, q} /\ q \notin {p}
        BY <2>1
      <4>3. Cardinality({p} \cup {q}) = 1 + 1
        BY <4>1, <4>2, FS_AddElement
      <4>4. Cardinality({p, q}) = 1 + 1
        BY <4>2, <4>3, Zenon
      <4> QED
        BY <4>4
    <3>4. Cardinality({p, q}) <= Cardinality(Places(ws, w))
      BY <3>1, <3>2, FS_Subset
    <3>5. Cardinality(Places(ws, w)) <= 1 /\ Cardinality(Places(ws, w)) \in Nat
      BY <3>2, FS_CardinalityType DEF Allowed
    <3> QED
      BY <3>3, <3>4, <3>5
  <2> QED
    BY <2>1 DEF Once
<1>3. ASSUME NEW p \in DOMAIN ws, ws[p] \in Options \cup Flags
      PROVE  ws[p] \in {"--password"} \cup OptionOf(Words(ws)[1]) \cup FlagOf(Words(ws)[1])
  <2>1. Places(ws, ws[p]) # {}
    BY DEF Places
  <2> QED
    BY <1>3, <2>1 DEF Allowed
<1>4. ASSUME NEW p \in DOMAIN ws, ws[p] \in Options
      PROVE  p + 1 \in DOMAIN ws /\ ws[p + 1] \notin Options \cup Flags
  <2>1. p < Len(ws) /\ ws[p + 1] \notin Options \cup Flags
    BY <1>4 DEF Allowed
  <2> QED
    BY <1>1, <2>1
<1> QED
  BY <1>2, <1>3, <1>4 DEF Orderly

\* The places that are left: when the command's name is taken, its flag, and
\* its option.
BehindCommand(ws, q) == WithoutOption(ws, DOMAIN ws, "--password") \ {q}
Unflagged(ws, c, q) == {p \in BehindCommand(ws, q) : ws[p] \notin FlagOf(c)}
Unread(ws, c, q) == {p \in Unflagged(ws, c, q) :
                       /\ ws[p] \notin OptionOf(c)
                       /\ ~ (p - 1 \in Unflagged(ws, c, q) /\ ws[p - 1] \in OptionOf(c))}

\* What stands in front of a place is no option if an option or flag is there.
LEMMA NoOptionBefore ==
  ASSUME NEW ws, NEW c, Orderly(ws, c), NEW p \in DOMAIN ws, p - 1 \in DOMAIN ws, p \in Nat,
         ws[p - 1] \in Options
  PROVE  ws[p] \notin Options \cup Flags
<1>1. (p - 1) + 1 = p
  OBVIOUS
<1> QED
  BY <1>1 DEF Orderly

\* No other option takes the command's flag and option, or the option's value.
LEMMA StillThere ==
  ASSUME NEW ws \in Seq(Spelling), NEW c, NEW q, CommandAt(ws, c, q), Orderly(ws, c),
         NEW p \in DOMAIN ws
  PROVE  /\ ws[p] \in FlagOf(c) \cup OptionOf(c) => p \in BehindCommand(ws, q)
         /\ ws[p] \in OptionOf(c) =>
              /\ p \in Unflagged(ws, c, q)
              /\ p + 1 \in DOMAIN ws /\ p + 1 \in Unflagged(ws, c, q)
<1>1. /\ OptionOf(c) \subseteq Options \ {"--password"} /\ FlagOf(c) \subseteq Flags
      /\ "--password" \in Options /\ Options \cap Flags = {}
      /\ c \notin Options \cup Flags
  BY Vocabulary DEF CommandAt
<1>2. DOMAIN ws \subseteq Nat
  BY LenProperties
<1>3. ASSUME ws[p] \in FlagOf(c) \cup OptionOf(c)
      PROVE  p \in BehindCommand(ws, q)
  <2>1. ws[p] \in Options \cup Flags /\ ws[p] # "--password"
    BY <1>1, <1>3
  <2>2. ~ (p - 1 \in DOMAIN ws /\ ws[p - 1] = "--password")
    BY <1>1, <1>2, <2>1, NoOptionBefore
  <2>3. p # q
    BY <1>1, <2>1 DEF CommandAt
  <2> QED
    BY <2>1, <2>2, <2>3 DEF BehindCommand, WithoutOption
<1>4. ASSUME ws[p] \in OptionOf(c)
      PROVE  /\ p \in Unflagged(ws, c, q)
             /\ p + 1 \in DOMAIN ws /\ p + 1 \in Unflagged(ws, c, q)
  <2>1. ws[p] \in Options /\ ws[p] # "--password" /\ ws[p] \notin FlagOf(c)
    BY <1>1, <1>4
  <2>2. p \in Unflagged(ws, c, q)
    BY <1>3, <1>4, <2>1 DEF Unflagged
  <2>3. p + 1 \in DOMAIN ws /\ ws[p + 1] \notin Options \cup Flags
    BY <2>1 DEF Orderly
  <2>4. ws[p + 1] # "--password" /\ ws[p + 1] \notin FlagOf(c)
    BY <1>1, <2>3
  <2>5. (p + 1) - 1 = p
    BY <1>2
  <2>6. p + 1 # q
    <3>1. ASSUME p + 1 = q PROVE FALSE
      <4>1. q = 3 /\ ws[1] = "--password" /\ p = 2
        BY <1>2, <3>1 DEF CommandAt
      <4>2. 1 \in DOMAIN ws /\ p - 1 = 1
        BY <4>1, LenProperties
      <4>3. ws[p] \notin Options \cup Flags
        BY <1>1, <1>2, <4>1, <4>2, NoOptionBefore
      <4> QED
        BY <2>1, <4>3
    <3> QED
      BY <3>1
  <2>7. p + 1 \in BehindCommand(ws, q)
    BY <2>1, <2>3, <2>4, <2>5, <2>6 DEF BehindCommand, WithoutOption
  <2> QED
    BY <2>2, <2>3, <2>4, <2>7 DEF Unflagged
<1> QED
  BY <1>3, <1>4

\* What is left is bare.
LEMMA UnreadIsBare ==
  ASSUME NEW ws \in Seq(Spelling), NEW c, NEW q, CommandAt(ws, c, q), Orderly(ws, c)
  PROVE  Unread(ws, c, q) = Bare(ws) \ {q}
<1>1. /\ OptionOf(c) \subseteq Options \ {"--password"} /\ FlagOf(c) \subseteq Flags
      /\ "--password" \in Options /\ Options \cap Flags = {}
  BY Vocabulary DEF CommandAt
<1>2. DOMAIN ws = 1 .. Len(ws) /\ Len(ws) \in Nat
  BY LenProperties
<1>3. ASSUME NEW p \in Bare(ws) \ {q} PROVE p \in Unread(ws, c, q)
  <2>1. p \in DOMAIN ws /\ ws[p] \notin Options \cup Flags /\ ~ IsValue(ws, p)
    BY DEF Bare
  <2>2. p - 1 \in DOMAIN ws => ws[p - 1] \notin Options
    BY <1>2, <2>1 DEF IsValue
  <2>3. p \in BehindCommand(ws, q)
    BY <1>1, <2>1, <2>2 DEF BehindCommand, WithoutOption
  <2>4. p \in Unflagged(ws, c, q)
    BY <1>1, <2>1, <2>3 DEF Unflagged
  <2>5. Unflagged(ws, c, q) \subseteq DOMAIN ws
    BY DEF Unflagged, BehindCommand, WithoutOption
  <2> QED
    BY <1>1, <2>1, <2>2, <2>4, <2>5 DEF Unread
<1>4. ASSUME NEW p \in Unread(ws, c, q) PROVE p \in Bare(ws) \ {q}
  <2>1. /\ p \in Unflagged(ws, c, q) /\ ws[p] \notin OptionOf(c)
        /\ ~ (p - 1 \in Unflagged(ws, c, q) /\ ws[p - 1] \in OptionOf(c))
    BY DEF Unread
  <2>2. /\ p \in DOMAIN ws /\ p # q /\ ws[p] \notin FlagOf(c) /\ ws[p] # "--password"
        /\ ~ (p - 1 \in DOMAIN ws /\ ws[p - 1] = "--password")
    BY <2>1 DEF Unflagged, BehindCommand, WithoutOption
  <2>3. ws[p] \notin Options \cup Flags
    BY <2>1, <2>2 DEF Orderly
  <2>4. ASSUME p - 1 \in DOMAIN ws, ws[p - 1] \in Options PROVE FALSE
    <3>1. ws[p - 1] \in {"--password"} \cup OptionOf(c) \cup FlagOf(c)
      BY <2>4 DEF Orderly
    <3>2. ws[p - 1] \in OptionOf(c)
      BY <1>1, <2>2, <2>4, <3>1
    <3>3. p - 1 \in Unflagged(ws, c, q)
      BY <2>4, <3>2, StillThere
    <3> QED
      BY <2>1, <3>2, <3>3
  <2>5. ~ IsValue(ws, p)
    BY <1>2, <2>2, <2>4 DEF IsValue
  <2> QED
    BY <2>2, <2>3, <2>5 DEF Bare
<1> QED
  BY <1>3, <1>4

\* The value of an option of the line, where it still stands.
LEMMA ValueThere ==
  ASSUME NEW ws \in Seq(Spelling), NEW P, P \subseteq DOMAIN ws, NEW w,
         \A p \in DOMAIN ws : ws[p] = w => p \in P /\ p + 1 \in DOMAIN ws
  PROVE  ValueAt(ws, P, w) = ValueOf(ws, w)
<1>1. DOMAIN ws = 1 .. Len(ws) /\ Len(ws) \in Nat
  BY LenProperties
<1>2. ASSUME NEW p \in P, ws[p] = w
      PROVE  ws[p + 1] \in ValueOf(ws, w)
  <2>1. p \in DOMAIN ws /\ p + 1 \in DOMAIN ws /\ p + 1 > 1 /\ (p + 1) - 1 = p
    BY <1>1, <1>2
  <2>2. p + 1 \in {j \in DOMAIN ws : j > 1 /\ ws[j - 1] = w}
    BY <1>2, <2>1
  <2> QED
    BY <2>2 DEF ValueOf
<1>3. ASSUME NEW j \in DOMAIN ws, j > 1, ws[j - 1] = w
      PROVE  ws[j] \in ValueAt(ws, P, w)
  <2>1. j - 1 \in DOMAIN ws /\ (j - 1) + 1 = j
    BY <1>1, <1>3
  <2>2. j - 1 \in {p \in P : ws[p] = w}
    BY <1>3, <2>1
  <2> QED
    BY <2>1, <2>2 DEF ValueAt
<1>4. ValueAt(ws, P, w) \subseteq ValueOf(ws, w)
  BY <1>2 DEF ValueAt
<1>5. ValueOf(ws, w) \subseteq ValueAt(ws, P, w)
  BY <1>3 DEF ValueOf
<1> QED
  BY <1>4, <1>5

\* What take_flag and take_option read of the line behind the command.
Meant(ws, c, r) ==
  /\ ~ r.fails
  /\ r.flag <=> \E w \in FlagOf(c) : Holds(ws, w)
  /\ r.value = UNION {ValueOf(ws, w) : w \in OptionOf(c)}
  /\ r.operands \in Seq(Spelling) /\ <<c>> \o r.operands = Words(ws)

LEMMA ReadIsMeant ==
  ASSUME NEW ws \in Seq(Spelling), NEW c, NEW q, CommandAt(ws, c, q), Orderly(ws, c),
         NEW s \in Seq(Spelling), Sub(s, ws, BehindCommand(ws, q))
  PROVE  Meant(ws, c, Read(c, s))
<1> DEFINE u == Each(FlagOf(c), s, AfterFlag)
           R == BehindCommand(ws, q)
           V == Unflagged(ws, c, q)
<1>1. /\ c \in Commands /\ OptionOf(c) \subseteq Options /\ FlagOf(c) \subseteq Flags
      /\ DOMAIN ws \subseteq Nat /\ R \subseteq DOMAIN ws /\ V \subseteq R
  BY Vocabulary, LenProperties DEF CommandAt, BehindCommand, WithoutOption, Unflagged
<1>2. ASSUME NEW w \in Options \cup Flags, NEW P, P \subseteq DOMAIN ws
      PROVE  Once(ws, P, w)
  BY <1>2 DEF Orderly, Once
<1>3. /\ u \in Seq(Spelling) /\ Sub(u, ws, V)
      /\ Read(c, s).flag <=> \E w \in FlagOf(c) : Holds(ws, w)
  <2>1. CASE FlagOf(c) = {}
    <3>1. u = s /\ V = R /\ ~ Read(c, s).flag
      BY <2>1 DEF Each, Unflagged, Read
    <3> QED
      BY <2>1, <3>1
  <2>2. ASSUME NEW w \in Flags, FlagOf(c) = {w}
        PROVE  /\ u \in Seq(Spelling) /\ Sub(u, ws, V)
               /\ Read(c, s).flag <=> Holds(ws, w)
    <3>1. u = AfterFlag(s, w)
      BY <2>2 DEF Each
    <3>2. V = WithoutFlag(ws, R, w)
      BY <2>2 DEF Unflagged, WithoutFlag
    <3>3. Read(c, s).flag <=> Holds(s, w)
      BY <2>2 DEF Read, Holds
    <3>4. w \in Spelling
      BY <1>1, Vocabulary
    <3>5. Once(ws, R, w) /\ R \subseteq Nat
      BY <1>1, <1>2
    <3> HIDE DEF R, u
    <3>6. /\ Holds(s, w) <=> \E p \in R : ws[p] = w
          /\ Sub(AfterFlag(s, w), ws, WithoutFlag(ws, R, w))
      BY <3>5, FlagDropped DEF R
    <3>7. (\E p \in R : ws[p] = w) <=> Holds(ws, w)
      <4>1. \A p \in DOMAIN ws : ws[p] = w => p \in R
        BY <2>2, StillThere DEF R
      <4> QED
        BY <1>1, <4>1 DEF Holds, Places
    <3> QED
      BY <3>1, <3>2, <3>3, <3>4, <3>6, <3>7, TakeFlag
  <2>3. FlagOf(c) = {} \/ \E w \in Flags : FlagOf(c) = {w}
    BY <1>1, FlagAndOption
  <2> QED
    BY <2>1, <2>2, <2>3
<1>4. /\ Read(c, s).fails <=> \E w \in OptionOf(c) : NoValue(u, w)
      /\ Read(c, s).operands = Each(OptionOf(c), u, AfterOption)
      /\ Read(c, s).value = UNION {Option(u, w) : w \in {o \in OptionOf(c) : ~ NoValue(u, o)}}
  BY DEF Read
<1> HIDE DEF u
<1>5. /\ ~ Read(c, s).fails
      /\ Read(c, s).value = UNION {ValueOf(ws, w) : w \in OptionOf(c)}
      /\ Sub(Read(c, s).operands, ws, Unread(ws, c, q))
  <2>1. CASE OptionOf(c) = {}
    <3>1. Read(c, s).operands = u /\ Unread(ws, c, q) = V
      BY <1>4, <2>1 DEF Each, Unread
    <3> QED
      BY <1>3, <1>4, <2>1, <3>1
  <2>2. ASSUME NEW w \in Options, OptionOf(c) = {w}
        PROVE  /\ ~ NoValue(u, w) /\ Read(c, s).value = ValueOf(ws, w)
               /\ Sub(Read(c, s).operands, ws, Unread(ws, c, q))
    <3>1. Unread(ws, c, q) = WithoutOption(ws, V, w)
      BY <2>2 DEF Unread, WithoutOption
    <3>2. Once(ws, V, w) /\ V \subseteq Nat /\ V \subseteq DOMAIN ws
      BY <1>1, <1>2
    <3>3. \A p \in DOMAIN ws : ws[p] = w => p \in V /\ p + 1 \in DOMAIN ws /\ p + 1 \in V
      BY <2>2, StillThere
    <3> HIDE DEF V
    <3>4. /\ ~ NoValue(u, w) /\ Option(u, w) = ValueAt(ws, V, w)
          /\ Sub(AfterOption(u, w), ws, WithoutOption(ws, V, w))
      BY <1>3, <3>2, <3>3, OptionDropped
    <3>5. ValueAt(ws, V, w) = ValueOf(ws, w)
      BY <3>2, <3>3, ValueThere
    <3>6. Read(c, s).value = Option(u, w) /\ Read(c, s).operands = AfterOption(u, w)
      BY <1>4, <2>2, <3>4 DEF Each
    <3> QED
      BY <3>1, <3>4, <3>5, <3>6
  <2>3. OptionOf(c) = {} \/ \E w \in Options : OptionOf(c) = {w}
    BY <1>1, FlagAndOption
  <2>4. CASE \E w \in Options : OptionOf(c) = {w}
    <3>1. PICK w \in Options : OptionOf(c) = {w}
      BY <2>4
    <3>2. UNION {ValueOf(ws, v) : v \in OptionOf(c)} = ValueOf(ws, w)
      BY <3>1
    <3>3. /\ ~ NoValue(u, w) /\ Read(c, s).value = ValueOf(ws, w)
          /\ Sub(Read(c, s).operands, ws, Unread(ws, c, q))
      BY <2>2, <3>1
    <3> QED
      BY <1>4, <3>1, <3>2, <3>3
  <2> QED
    BY <2>1, <2>3, <2>4
<1>6. Read(c, s).operands \in Seq(Spelling)
  BY <1>1, <1>5, EveryWordRead
<1>7. <<c>> \o Read(c, s).operands = Words(ws)
  <2>1. PICK r \in Seq(Spelling) : r = Read(c, s).operands /\ Sub(r, ws, Bare(ws) \ {q})
    BY <1>5, <1>6, UnreadIsBare
  <2>2. /\ q \in Bare(ws) /\ \A p \in Bare(ws) : q <= p
        /\ ws[q] = c /\ Bare(ws) \subseteq Nat /\ ws[q] \in Spelling
    BY <1>1, ElementOfSeq, LenProperties DEF CommandAt, Bare
  <2>3. <<ws[q]>> \o r \in Seq(Spelling) /\ Sub(<<ws[q]>> \o r, ws, Bare(ws))
    BY <2>1, <2>2, SubPrefixed
  <2>4. <<ws[q]>> \o r = Words(ws)
    BY <2>3, WordsOf
  <2> QED
    BY <2>1, <2>2, <2>4
<1> QED
  BY <1>3, <1>5, <1>6, <1>7 DEF Meant

-----------------------------------------------------------------------------
\* The words of r are words of s.
Within(r, s) == \A k \in DOMAIN r : \E j \in DOMAIN s : r[k] = s[j]

LEMMA RemovedWithin ==
  ASSUME NEW s \in Seq(Spelling), NEW k \in Nat \ {0}, NEW n \in Nat, k + n - 1 <= Len(s)
  PROVE  Within(Removed(s, k, n), s)
<1> DEFINE r == Removed(s, k, n)
<1>1. /\ r \in Seq(Spelling) /\ Len(r) = Len(s) - n
      /\ \A j \in 1 .. Len(s) - n : r[j] = IF j < k THEN s[j] ELSE s[j + n]
  BY RemovedAt
<1> HIDE DEF r
<1>2. DOMAIN s = 1 .. Len(s) /\ Len(s) \in Nat /\ DOMAIN r = 1 .. Len(s) - n
  BY <1>1, LenProperties
<1>3. ASSUME NEW j \in 1 .. Len(s) - n
      PROVE  \E h \in 1 .. Len(s) : r[j] = s[h]
  <2>1. j \in 1 .. Len(s) /\ j + n \in 1 .. Len(s)
    BY <1>2
  <2> QED
    BY <1>1, <2>1
<1>4. Within(r, s)
  BY <1>2, <1>3 DEF Within
<1> QED
  BY <1>4 DEF r

LEMMA OptionWithin ==
  ASSUME NEW s \in Seq(Spelling), NEW w, ~ NoValue(s, w)
  PROVE  /\ Within(AfterOption(s, w), s)
         /\ Option(s, w) = {} \/ \E k \in DOMAIN s : Option(s, w) = {s[k]}
<1>1. CASE ~ Holds(s, w)
  BY <1>1 DEF Holds, AfterOption, Option, Within
<1>2. CASE Holds(s, w)
  <2>1. PICK k \in 1 .. Len(s) : k = FirstPlace(s, w) /\ k # Len(s)
    BY <1>2, FirstPlaceOf DEF Holds, NoValue
  <2>2. /\ k \in Nat \ {0} /\ 2 \in Nat /\ k + 2 - 1 <= Len(s)
        /\ k + 1 \in DOMAIN s
    BY <2>1, LenProperties
  <2>3. AfterOption(s, w) = Removed(s, k, 2) /\ Option(s, w) = {s[k + 1]}
    BY <1>2, <2>1 DEF AfterOption, Option, Holds
  <2> QED
    BY <2>2, <2>3, RemovedWithin
<1> QED
  BY <1>1, <1>2

LEMMA FlagWithin ==
  ASSUME NEW s \in Seq(Spelling), NEW w
  PROVE  Within(AfterFlag(s, w), s)
<1>1. CASE ~ Holds(s, w)
  BY <1>1 DEF Holds, AfterFlag, Within
<1>2. CASE Holds(s, w)
  <2>1. PICK k \in 1 .. Len(s) : k = FirstPlace(s, w)
    BY <1>2, FirstPlaceOf DEF Holds
  <2>2. k \in Nat \ {0} /\ 1 \in Nat /\ k + 1 - 1 <= Len(s)
    BY <2>1, LenProperties
  <2>3. AfterFlag(s, w) = Removed(s, k, 1)
    BY <1>2, <2>1 DEF AfterFlag, Holds
  <2> QED
    BY <2>2, <2>3, RemovedWithin
<1> QED
  BY <1>1, <1>2

\* An option of a command has one value, a word of what was read.
LEMMA OneValue ==
  ASSUME NEW c \in Commands, NEW s \in Seq(Spelling), ~ Read(c, s).fails
  PROVE  Read(c, s).value = {} \/ \E k \in DOMAIN s : Read(c, s).value = {s[k]}
<1> DEFINE u == Each(FlagOf(c), s, AfterFlag)
<1>1. u \in Seq(Spelling) /\ Within(u, s)
  <2>1. CASE FlagOf(c) = {}
    BY <2>1 DEF Each, Within
  <2>2. ASSUME NEW w \in Spelling, FlagOf(c) = {w}
        PROVE  u \in Seq(Spelling) /\ Within(u, s)
    <3>1. u = AfterFlag(s, w)
      BY <2>2 DEF Each
    <3> QED
      BY <3>1, TakeFlag, FlagWithin
  <2>3. FlagOf(c) = {} \/ \E w \in Spelling : FlagOf(c) = {w}
    <3>1. {"--keep-source", "--keep-in-vault"} \subseteq Spelling
      BY DEF Spelling
    <3> QED
      BY <3>1, FlagAndOption
  <2> QED
    BY <2>1, <2>2, <2>3
<1>2. /\ Read(c, s).fails <=> \E w \in OptionOf(c) : NoValue(u, w)
      /\ Read(c, s).value = UNION {Option(u, w) : w \in {o \in OptionOf(c) : ~ NoValue(u, o)}}
  BY DEF Read
<1> HIDE DEF u
<1>3. CASE OptionOf(c) = {}
  BY <1>2, <1>3
<1>4. ASSUME NEW w \in Spelling, OptionOf(c) = {w}
      PROVE  Read(c, s).value = {} \/ \E k \in DOMAIN s : Read(c, s).value = {s[k]}
  <2>1. ~ NoValue(u, w) /\ Read(c, s).value = Option(u, w)
    BY <1>2, <1>4
  <2>2. Option(u, w) = {} \/ \E k \in DOMAIN u : Option(u, w) = {u[k]}
    BY <1>1, <2>1, OptionWithin
  <2> QED
    BY <1>1, <2>1, <2>2 DEF Within
<1> QED
  BY <1>3, <1>4, FlagAndOption

\* Without the option's places, the first bare place is still first.
LEMMA CommandFirst ==
  ASSUME NEW ws \in Seq(Spelling), NEW c, NEW q, CommandAt(ws, c, q), Orderly(ws, c)
  PROVE  /\ q \in WithoutOption(ws, DOMAIN ws, "--password")
         /\ \A p \in WithoutOption(ws, DOMAIN ws, "--password") : q <= p
<1> DEFINE P == WithoutOption(ws, DOMAIN ws, "--password")
<1>1. DOMAIN ws = 1 .. Len(ws) /\ Len(ws) \in Nat
  BY LenProperties
<1>2. "--password" \in Options /\ c \notin Options
  BY Vocabulary DEF CommandAt
<1>3. q \in DOMAIN ws /\ ws[q] = c /\ ~ IsValue(ws, q)
  BY DEF CommandAt, Bare
<1>4. q - 1 \in DOMAIN ws => ws[q - 1] \notin Options
  BY <1>1, <1>3 DEF IsValue
<1>5. q \in P
  BY <1>2, <1>3, <1>4 DEF WithoutOption
<1>6. ASSUME NEW p \in P PROVE q <= p
  <2>1. /\ p \in 1 .. Len(ws) /\ ws[p] # "--password"
        /\ ~ (p - 1 \in DOMAIN ws /\ ws[p - 1] = "--password")
    BY <1>1 DEF WithoutOption
  <2>2. CASE q = 1
    BY <2>1, <2>2
  <2>3. CASE q = 3 /\ ws[1] = "--password"
    <3>1. p # 1
      BY <2>1, <2>3
    <3>2. p # 2
      BY <1>1, <1>3, <2>1, <2>3
    <3> QED
      BY <2>1, <2>3, <3>1, <3>2
  <2> QED
    BY <2>2, <2>3 DEF CommandAt
<1> QED
  BY <1>5, <1>6
-----------------------------------------------------------------------------
\* What main has read of a line that is allowed, when it has read all of it.
AsMeant ==
  /\ <<command>> \o args = Words(line)
  /\ cli_password = ValueOf(line, "--password")
  /\ value = UNION {ValueOf(line, w) : w \in OptionOf(command)}
  /\ flag <=> \E w \in FlagOf(command) : Holds(line, w)

\* And on the way there.
OnTheWay ==
  /\ at = "command" =>
       /\ cli_password = ValueOf(line, "--password")
       /\ Sub(args, line, WithoutOption(line, DOMAIN line, "--password"))
  /\ at = "arguments" =>
       /\ cli_password = ValueOf(line, "--password")
       /\ \E q : CommandAt(line, command, q) /\ Sub(args, line, BehindCommand(line, q))
  /\ at \in ReadAll => AsMeant
  /\ at = "end" => status = "signal"

\* Whatever the line, the words come from it and init has its number.
Numbered ==
  /\ line \in Line
  /\ at \in Reading => Within(args, line)
  /\ at \in ReadAll /\ command = "init" => \A w \in value : Iterations = Stoul(w)

UnderstandingInv == Numbered /\ (Allowed(line) => OnTheWay)

LEMMA UnderstandingInit == CliInit => UnderstandingInv
BY DEF CliInit, UnderstandingInv, Numbered, OnTheWay, Reading, ReadAll, Within

LEMMA TakePasswordMeant == CliInv /\ UnderstandingInv /\ TakePassword => UnderstandingInv'
<1> SUFFICES ASSUME CliInv, UnderstandingInv, TakePassword PROVE UnderstandingInv'
  OBVIOUS
<1>1. /\ at = "start" /\ args = line /\ line \in Seq(Spelling) /\ line \in Line /\ line' = line
  BY DEF CliInv, TakePassword, UnderstandingInv, Numbered
<1>2. CASE at' = "end" /\ (NoArguments \/ NoValue(args, "--password"))
  <2>1. Numbered'
    BY <1>1, <1>2 DEF Numbered, Reading, ReadAll
  <2>2. ASSUME Allowed(line) PROVE FALSE
    <3>1. PICK q : CommandAt(line, Words(line)[1], q)
      BY <1>1, <2>2, AllowedBegins
    <3>2. q \in DOMAIN line
      BY <3>1 DEF CommandAt, Bare
    <3>3. ~ NoArguments
      BY <3>2 DEF NoArguments
    <3>4. Orderly(line, Words(line)[1])
      BY <1>1, <2>2, AllowedOrderly
    <3>5. "--password" \in Options
      BY <3>1, Vocabulary DEF CommandAt
    <3>6. /\ Once(line, DOMAIN line, "--password") /\ DOMAIN line \subseteq Nat
          /\ \A p \in DOMAIN line : line[p] = "--password" => p + 1 \in DOMAIN line
      BY <1>1, <3>4, <3>5, LenProperties DEF Orderly
    <3>7. Sub(line, line, DOMAIN line)
      BY <1>1, SubWhole
    <3>8. ~ NoValue(line, "--password")
      BY <1>1, <3>6, <3>7, OptionDropped
    <3> QED
      BY <1>1, <1>2, <3>3, <3>8
  <2>3. Allowed(line) => OnTheWay'
    BY <1>2, <2>2 DEF OnTheWay, ReadAll
  <2> QED
    BY <1>1, <2>1, <2>3 DEF UnderstandingInv
<1>3. CASE /\ ~ NoValue(line, "--password") /\ at' = "command"
           /\ cli_password' = Option(line, "--password")
           /\ args' = AfterOption(line, "--password")
  <2>1. Within(args', line)
    BY <1>1, <1>3, OptionWithin
  <2>2. Numbered'
    BY <1>1, <1>3, <2>1 DEF Numbered, ReadAll
  <2>3. ASSUME Allowed(line)
        PROVE  /\ cli_password' = ValueOf(line, "--password")
               /\ Sub(args', line, WithoutOption(line, DOMAIN line, "--password"))
    <3>1. PICK q : CommandAt(line, Words(line)[1], q)
      BY <1>1, <2>3, AllowedBegins
    <3>2. Orderly(line, Words(line)[1])
      BY <1>1, <2>3, AllowedOrderly
    <3>3. "--password" \in Options
      BY <3>1, Vocabulary DEF CommandAt
    <3>4. /\ Once(line, DOMAIN line, "--password") /\ DOMAIN line \subseteq Nat
          /\ \A p \in DOMAIN line : line[p] = "--password" => p + 1 \in DOMAIN line
      BY <1>1, <3>2, <3>3, LenProperties DEF Orderly
    <3>5. Sub(line, line, DOMAIN line)
      BY <1>1, SubWhole
    <3>6. /\ Option(line, "--password") = ValueAt(line, DOMAIN line, "--password")
          /\ Sub(AfterOption(line, "--password"), line, WithoutOption(line, DOMAIN line, "--password"))
      BY <1>1, <3>4, <3>5, OptionDropped
    <3>7. ValueAt(line, DOMAIN line, "--password") = ValueOf(line, "--password")
      BY <1>1, <3>4, ValueThere
    <3> QED
      BY <1>3, <3>6, <3>7
  <2>4. Allowed(line) => OnTheWay'
    BY <1>1, <1>3, <2>3 DEF OnTheWay, ReadAll
  <2> QED
    BY <1>1, <2>2, <2>4 DEF UnderstandingInv
<1> QED
  BY <1>1, <1>2, <1>3 DEF TakePassword, Exit

LEMMA TakeCommandMeant == CliInv /\ UnderstandingInv /\ TakeCommand => UnderstandingInv'
<1> SUFFICES ASSUME CliInv, UnderstandingInv, TakeCommand PROVE UnderstandingInv'
  OBVIOUS
<1>1. /\ at = "command" /\ line \in Seq(Spelling) /\ args \in Seq(Spelling) /\ line \in Line
      /\ line' = line /\ cli_password' = cli_password /\ Within(args, line)
      /\ Allowed(line) =>
           /\ cli_password = ValueOf(line, "--password")
           /\ Sub(args, line, WithoutOption(line, DOMAIN line, "--password"))
  BY DEF CliInv, TakeCommand, UnderstandingInv, Numbered, OnTheWay, Reading
<1>2. ASSUME Allowed(line)
      PROVE  /\ args # <<>>
             /\ \E q : CommandAt(line, Head(args), q) /\ Sub(Tail(args), line, BehindCommand(line, q))
  <2> DEFINE P == WithoutOption(line, DOMAIN line, "--password")
  <2>1. PICK q : CommandAt(line, Words(line)[1], q)
    BY <1>1, <1>2, AllowedBegins
  <2>2. Orderly(line, Words(line)[1])
    BY <1>1, <1>2, AllowedOrderly
  <2>3. q \in P /\ \A p \in P : q <= p
    BY <1>1, <2>1, <2>2, CommandFirst
  <2>4. P \subseteq Nat
    BY <1>1, LenProperties DEF WithoutOption
  <2>5. Sub(args, line, P)
    BY <1>1, <1>2
  <2>6. BehindCommand(line, q) = P \ {q}
    BY DEF BehindCommand
  <2> HIDE DEF P
  <2>7. args # <<>>
    <3>1. PICK m : Listed(m, Len(args), P)
      BY <2>5 DEF Sub, Shown
    <3>2. PICK k \in 1 .. Len(args) : m[k] = q
      BY <2>3, <3>1 DEF Listed
    <3>3. Len(args) # 0
      BY <1>1, <3>2, LenProperties
    <3> QED
      BY <1>1, <3>3, EmptySeq
  <2>8. PICK p \in P : /\ \A j \in P : p <= j
                      /\ Head(args) = line[p] /\ Sub(Tail(args), line, P \ {p})
    BY <1>1, <2>4, <2>5, <2>7, SubTail
  <2>9. p = q
    BY <2>3, <2>4, <2>8
  <2>10. Head(args) = Words(line)[1]
    BY <2>1, <2>8, <2>9 DEF CommandAt
  <2> QED
    BY <2>1, <2>6, <2>7, <2>8, <2>9, <2>10
<1>3. CASE at' = "end"
  <2>1. Numbered'
    BY <1>1, <1>3 DEF Numbered, Reading, ReadAll
  <2>2. ASSUME Allowed(line) PROVE FALSE
    <3>1. Head(args) \in Commands /\ args # <<>>
      BY <1>2, <2>2 DEF CommandAt
    <3>2. Commands \cap Help = {}
      BY DEF Commands, Help
    <3> QED
      BY <1>1, <1>3, <3>1, <3>2 DEF TakeCommand, Exit
  <2>3. Allowed(line) => OnTheWay'
    BY <1>3, <2>2 DEF OnTheWay, ReadAll
  <2> QED
    BY <1>1, <2>1, <2>3 DEF UnderstandingInv
<1>4. CASE args # <<>> /\ command' = Head(args) /\ args' = Tail(args) /\ at' = "arguments"
  <2>1. Within(args', line)
    <3>1. /\ args' \in Seq(Spelling) /\ Len(args') = Len(args) - 1
          /\ \A j \in 1 .. Len(args') : args'[j] = args[j + 1]
      BY <1>1, <1>4, HeadTailProperties
    <3>2. DOMAIN args' = 1 .. Len(args') /\ DOMAIN args = 1 .. Len(args) /\ Len(args) \in Nat
      BY <1>1, <3>1, LenProperties
    <3>3. \A j \in 1 .. Len(args') : j + 1 \in 1 .. Len(args)
      BY <3>1, <3>2
    <3> QED
      BY <1>1, <3>1, <3>2, <3>3 DEF Within
  <2>2. Numbered'
    BY <1>1, <1>4, <2>1 DEF Numbered, Reading, ReadAll
  <2>3. Allowed(line) => OnTheWay'
    BY <1>1, <1>2, <1>4 DEF OnTheWay, ReadAll
  <2> QED
    BY <1>1, <2>2, <2>3 DEF UnderstandingInv
<1> QED
  BY <1>3, <1>4 DEF TakeCommand, Exit

LEMMA TakeArgumentsMeant == CliInv /\ UnderstandingInv /\ TakeArguments => UnderstandingInv'
<1> SUFFICES ASSUME CliInv, UnderstandingInv, TakeArguments PROVE UnderstandingInv'
  OBVIOUS
<1> DEFINE r == Read(command, args)
<1>1. /\ at = "arguments" /\ line \in Seq(Spelling) /\ args \in Seq(Spelling) /\ line \in Line
      /\ line' = line /\ cli_password' = cli_password /\ command' = command
      /\ command \in Commands /\ Within(args, line)
      /\ Allowed(line) =>
           /\ cli_password = ValueOf(line, "--password")
           /\ \E q : CommandAt(line, command, q) /\ Sub(args, line, BehindCommand(line, q))
  BY DEF CliInv, TakeArguments, UnderstandingInv, Numbered, OnTheWay, Reading
<1>2. ASSUME Allowed(line)
      PROVE  /\ ~ r.fails
             /\ r.flag <=> \E w \in FlagOf(command) : Holds(line, w)
             /\ r.value = UNION {ValueOf(line, w) : w \in OptionOf(command)}
             /\ <<command>> \o r.operands = Words(line)
             /\ Len(r.operands) \in Arity(command)
  <2>1. PICK q : CommandAt(line, command, q) /\ Sub(args, line, BehindCommand(line, q))
    BY <1>1, <1>2
  <2>2. command = Words(line)[1]
    BY <2>1 DEF CommandAt
  <2>3. Orderly(line, command)
    BY <1>1, <1>2, <2>2, AllowedOrderly
  <2>4. Meant(line, command, r)
    BY <1>1, <2>1, <2>3, ReadIsMeant
  <2> HIDE DEF r
  <2>5. r.operands \in Seq(Spelling) /\ <<command>> \o r.operands = Words(line)
    BY <2>4 DEF Meant
  <2>6. Len(Words(line)) = 1 + Len(r.operands)
    <3>1. <<command>> \in Seq(Spelling \cup {command}) /\ Len(<<command>>) = 1
      OBVIOUS
    <3>2. r.operands \in Seq(Spelling \cup {command})
      BY <2>5, SeqMonotonic
    <3>3. Len(<<command>> \o r.operands) = Len(<<command>>) + Len(r.operands)
      BY <3>1, <3>2, ConcatProperties
    <3> QED
      BY <2>5, <3>1, <3>3
  <2>7. Len(Words(line)) - 1 \in Arity(command)
    BY <1>2, <2>2 DEF Allowed
  <2>8. Len(r.operands) \in Arity(command)
    BY <2>5, <2>6, <2>7, LenProperties
  <2> QED
    BY <2>4, <2>8 DEF Meant
<1>3. /\ flag' = r.flag /\ value' = r.value
      /\ args' = IF r.fails THEN args ELSE r.operands
      /\ \/ /\ at' = "end"
            /\ \/ r.fails \/ Len(r.operands) \notin Arity(command)
               \/ command = "init" /\ \E w \in r.value : NotANumber(w)
         \/ /\ ~ r.fails /\ at' = "password"
            /\ command = "init" => \A w \in r.value : ~ NotANumber(w)
  BY DEF TakeArguments, Exit
<1>4. ~ r.fails => r.value = {} \/ \E k \in DOMAIN args : r.value = {args[k]}
  BY <1>1, OneValue
<1> HIDE DEF r
<1>5. CASE at' = "end"
  <2>1. Numbered'
    BY <1>1, <1>5 DEF Numbered, Reading, ReadAll
  <2>2. ASSUME Allowed(line) PROVE FALSE
    <3>1. /\ ~ r.fails /\ Len(r.operands) \in Arity(command)
          /\ r.value = UNION {ValueOf(line, w) : w \in OptionOf(command)}
      BY <1>2, <2>2
    <3>2. PICK w \in r.value : command = "init" /\ NotANumber(w)
      BY <1>3, <1>5, <3>1
    <3>3. OptionOf(command) = {"--iterations"}
      BY <3>2 DEF OptionOf
    <3>4. w \in ValueOf(line, "--iterations")
      BY <3>1, <3>2, <3>3
    <3>5. Stoul(w) \in 0 .. UInt32Max
      BY <2>2, <3>4 DEF Allowed
    <3> QED
      BY <3>2, <3>5, CliAssumption DEF NotANumber
  <2>3. Allowed(line) => OnTheWay'
    BY <1>5, <2>2 DEF OnTheWay, ReadAll
  <2> QED
    BY <1>1, <2>1, <2>3 DEF UnderstandingInv
<1>6. CASE ~ r.fails /\ at' = "password"
  <2>1. ASSUME command = "init", NEW w \in value'
        PROVE  Iterations' = Stoul(w)
    <3>1. PICK p \in DOMAIN line : value' = {line[p]}
      BY <1>1, <1>3, <1>4, <1>6, <2>1 DEF Within
    <3>2. w = line[p] /\ (CHOOSE v \in value' : TRUE) = w
      BY <2>1, <3>1
    <3>3. Stoul(w) \in Nat \cup {-1} /\ UInt32Max \in Nat
      BY <1>1, <3>2, CliAssumption
    <3>4. Stoul(w) \in 0 .. UInt32Max
      BY <1>3, <1>6, <2>1, <3>3 DEF NotANumber
    <3>5. Stoul(w) % (UInt32Max + 1) = Stoul(w)
      BY <3>3, <3>4
    <3>6. value' # {}
      BY <2>1
    <3>7. Iterations' = Stoul(w) % (UInt32Max + 1)
      BY <3>2, <3>6 DEF Iterations
    <3> QED
      BY <3>5, <3>7
  <2>2. Numbered'
    BY <1>1, <1>6, <2>1 DEF Numbered, Reading
  <2>3. Allowed(line) => AsMeant'
    BY <1>1, <1>2, <1>3, <1>6 DEF AsMeant
  <2>4. Allowed(line) => OnTheWay'
    BY <1>6, <2>3 DEF OnTheWay
  <2> QED
    BY <1>1, <2>2, <2>4 DEF UnderstandingInv
<1> QED
  BY <1>3, <1>5, <1>6

\* What has been read stays as it is until Vault is called.
LEMMA UnderstandingStep == CliInv /\ UnderstandingInv /\ [CliNext]_cliVars => UnderstandingInv'
<1> SUFFICES ASSUME CliInv, UnderstandingInv, [CliNext]_cliVars PROVE UnderstandingInv'
  OBVIOUS
<1>1. ASSUME UNCHANGED <<line, args, command, cli_password, value, flag>>,
             at \in ReadAll, at' \in ReadAll \cup {"returned"} \/ (at' = "end" /\ status' = "signal")
      PROVE  UnderstandingInv'
  <2>1. Iterations' = Iterations
    BY <1>1 DEF Iterations
  <2>2. AsMeant' <=> AsMeant
    BY <1>1 DEF AsMeant
  <2>3. Numbered'
    BY <1>1, <2>1 DEF UnderstandingInv, Numbered, Reading, ReadAll
  <2>4. Allowed(line) => OnTheWay'
    BY <1>1, <2>2 DEF UnderstandingInv, OnTheWay, ReadAll
  <2> QED
    BY <1>1, <2>3, <2>4 DEF UnderstandingInv
<1>2. CASE TakePassword
  BY <1>2, TakePasswordMeant
<1>3. CASE TakeCommand
  BY <1>3, TakeCommandMeant
<1>4. CASE TakeArguments
  BY <1>4, TakeArgumentsMeant
<1>5. CASE ObtainPassword
  BY <1>1, <1>5 DEF ObtainPassword, ReadAll
<1>6. CASE PromptPlainly
  BY <1>1, <1>6 DEF PromptPlainly, ReadAll
<1>7. CASE PromptHidden
  BY <1>1, <1>7 DEF PromptHidden, ReadAll
<1>8. CASE Typed
  BY <1>1, <1>8 DEF Typed, ReadAll
<1>9. CASE Interrupt
  BY <1>1, <1>9 DEF Interrupt, ReadAll
<1>10. CASE CallVault
  BY <1>1, <1>10 DEF CallVault, ReadAll
<1>11. CASE ReturnOrThrow
  BY <1>1, <1>11 DEF ReturnOrThrow, ReadAll
<1>12. CASE UNCHANGED cliVars
  <2>1. UNCHANGED <<line, args, command, cli_password, value, flag, at, status>>
    BY <1>12 DEF cliVars
  <2>2. Iterations' = Iterations
    BY <2>1 DEF Iterations
  <2>3. AsMeant' <=> AsMeant
    BY <2>1 DEF AsMeant
  <2> QED
    BY <2>1, <2>2, <2>3 DEF UnderstandingInv, Numbered, OnTheWay
<1> QED
  BY <1>2, <1>3, <1>4, <1>5, <1>6, <1>7, <1>8, <1>9, <1>10, <1>11, <1>12 DEF CliNext

\* A line that the usage text allows is understood as it says, wherever the
\* options stand, and init gets the number that was asked for on any line.
THEOREM LinesUnderstood == CliSpec => []Understood
<1>1. CliInv /\ UnderstandingInv => Understood
  <2> SUFFICES ASSUME CliInv, UnderstandingInv PROVE Understood
    OBVIOUS
  <2>1. at = "called" => at \in ReadAll
    BY DEF ReadAll
  <2>2. at = "called" /\ command = "init" => \A w \in value : Iterations = Stoul(w)
    BY <2>1 DEF UnderstandingInv, Numbered
  <2>3. ASSUME Allowed(line)
        PROVE  /\ at = "end" => status = "signal"
               /\ at = "called" => AsMeant
    BY <2>1, <2>3 DEF UnderstandingInv, OnTheWay
  <2> QED
    BY <2>2, <2>3 DEF Understood, AsMeant, Holds
<1>2. CliInit => CliInv /\ UnderstandingInv
  BY CliInvInit, UnderstandingInit
<1>3. CliInv /\ UnderstandingInv /\ [CliNext]_cliVars => (CliInv /\ UnderstandingInv)'
  BY CliInvStep, UnderstandingStep
<1> QED
  BY <1>1, <1>2, <1>3, PTL DEF CliSpec
=============================================================================
