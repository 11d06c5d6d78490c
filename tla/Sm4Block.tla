-------------------------------- MODULE Sm4Block --------------------------------
(***************************************************************************)
(* The SM4 block cipher (src/src/sm4.cpp): the key schedule of the         *)
(* constructor, and the rounds of crypt_block_compact, first encrypting a  *)
(* block and then decrypting what came out.  A word is a set of bits, so   *)
(* that XOR is the symmetric difference; the substitutions are any         *)
(* functions of a word.                                                    *)
(***************************************************************************)
EXTENDS Integers, Sequences

CONSTANTS
  Bit,                  \* the bits of a word
  Rounds,               \* 32
  Transform(_),         \* transform
  TransformKey(_),      \* transform_key
  Fk, Ck,               \* kFk and kCk
  CipherKey, Plain      \* the keys and blocks given, as four words

Word4 == SUBSET Bit
Block4 == [0 .. 3 -> Word4]

ASSUME Sm4Assumption ==
  /\ Rounds \in Nat
  /\ \A w \in Word4 : Transform(w) \in Word4 /\ TransformKey(w) \in Word4
  /\ Fk \in Block4 /\ Ck \in [0 .. Rounds - 1 -> Word4]
  /\ CipherKey \subseteq Block4 /\ Plain \subseteq Block4

VARIABLES
  stage,        \* "idle", "schedule", "encrypt", "decrypt" or "decrypted"
  round,        \* i
  x,            \* x0 to x3, in the key schedule the last four of k
  round_keys,
  words,        \* not in the code: the words of the encryption, from the block on
  block         \* not in the code: the block that is encrypted

sm4Vars == <<stage, round, x, round_keys, words, block>>

WordXor(v, w) == (v \ w) \cup (w \ v)

Shifted(y, w) == [j \in 0 .. 3 |-> IF j < 3 THEN y[j + 1] ELSE w]

\* The word that a round shifts in, under a round key or a constant of the schedule.
Mixed(y, F(_), k) == WordXor(y[0], F(WordXor(WordXor(WordXor(y[1], y[2]), y[3]), k)))

\* x3 is written first.
Reversed(y) == [j \in 0 .. 3 |-> y[3 - j]]

Sm4Init ==
  /\ \E key \in CipherKey : x = [j \in 0 .. 3 |-> WordXor(key[j], Fk[j])]
  /\ stage = "schedule" /\ round = 0
  /\ round_keys = [i \in 0 .. Rounds - 1 |-> {}]
  /\ words = [i \in 0 .. Rounds + 3 |-> {}]
  /\ block \in Plain

Schedule ==
  /\ stage = "schedule" /\ round < Rounds
  /\ LET k == Mixed(x, TransformKey, Ck[round])
     IN  x' = Shifted(x, k) /\ round_keys' = [round_keys EXCEPT ![round] = k]
  /\ round' = round + 1
  /\ UNCHANGED <<stage, words, block>>

BeginEncrypt ==
  /\ stage = "schedule" /\ round = Rounds
  /\ stage' = "encrypt" /\ round' = 0 /\ x' = block
  /\ words' = [i \in 0 .. Rounds + 3 |-> IF i <= 3 THEN block[i] ELSE {}]
  /\ UNCHANGED <<round_keys, block>>

Encrypt ==
  /\ stage = "encrypt" /\ round < Rounds
  /\ LET w == Mixed(x, Transform, round_keys[round])
     IN  x' = Shifted(x, w) /\ words' = [words EXCEPT ![round + 4] = w]
  /\ round' = round + 1
  /\ UNCHANGED <<stage, round_keys, block>>

\* encrypt_block returns, and decrypt_block is given what it returned.
BeginDecrypt ==
  /\ stage = "encrypt" /\ round = Rounds
  /\ stage' = "decrypt" /\ round' = 0 /\ x' = Reversed(x)
  /\ UNCHANGED <<round_keys, words, block>>

RoundKeyForward(i) == round_keys[i]
RoundKeyBackward(i) == round_keys[Rounds - 1 - i]

Decrypt ==
  /\ stage = "decrypt" /\ round < Rounds
  /\ x' = Shifted(x, Mixed(x, Transform, RoundKeyBackward(round)))
  /\ round' = round + 1
  /\ UNCHANGED <<stage, round_keys, words, block>>

ReturnBlock ==
  /\ stage = "decrypt" /\ round = Rounds
  /\ stage' = "decrypted" /\ x' = Reversed(x)
  /\ UNCHANGED <<round, round_keys, words, block>>

Sm4Next == Schedule \/ BeginEncrypt \/ Encrypt \/ BeginDecrypt \/ Decrypt \/ ReturnBlock

Sm4Spec == Sm4Init /\ [][Sm4Next]_sm4Vars

-----------------------------------------------------------------------------
\* decrypt_block undoes encrypt_block, whatever the substitutions, the key
\* schedule and the number of rounds.
RoundTrip == stage = "decrypted" => x = block
=============================================================================
