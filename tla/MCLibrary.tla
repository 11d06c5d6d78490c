------------------------------- MODULE MCLibrary -------------------------------
(***************************************************************************)
(* The classes and functions under the vault, the command line above it,   *)
(* and the keys of its commands, which share no state: each behaviour uses *)
(* one of them, and the others are as if never called.  Blocks of SM3 are  *)
(* four bytes that end in a length field of two.                           *)
(***************************************************************************)
EXTENDS Hmac, SecureBuffer, Sm4Block, Kdf, RandomBytes, MCCli

VARIABLE use

hashVars == <<vars, hmacVars>>

\* A step of one part leaves the others alone.
Only(u) ==
  /\ use = u /\ UNCHANGED use
  /\ u # "hash"   => UNCHANGED hashVars
  /\ u # "buffer" => UNCHANGED bufferVars
  /\ u # "sm4"    => UNCHANGED sm4Vars
  /\ u # "kdf"    => UNCHANGED kdfVars
  /\ u # "random" => UNCHANGED randomVars
  /\ u # "line"   => UNCHANGED cliVars
  /\ u # "keys"   => UNCHANGED secretsVars

libraryVars ==
  <<hashVars, bufferVars, sm4Vars, kdfVars, randomVars, cliVars, secretsVars, use>>

-----------------------------------------------------------------------------
MCIpad(b) == (b + 1) % Base
MCOpad(b) == (b + 2) % Base

\* Two bytes that depend on every byte of the message.
MCDigest(m) ==
  <<Len(m) % Base, (Len(m) + Cardinality({j \in DOMAIN m : m[j] = 1})) % Base>>

\* Keys below, at and above a block.
MCKey == {[j \in 1 .. n |-> (j + n) % 2] : n \in {1, 4, 5}}

\* Pieces shorter than a block, of a block, and of more than one, up to what
\* fills a begun buffer and leaves whole blocks and a rest behind it; and what
\* an HMAC object begins with, InnerPad of each of the keys.
MCPiece == {[j \in 1 .. n |-> j % 3] : n \in {0, 1, 2, 6, 9}}
           \cup {<<1, 1, 1, 1>>, <<2, 1, 2, 1>>, <<0, 1, 1, 1>>}

\* MCWords of two bits and two functions of them that are no permutations.
MCTransform(w)    == IF w = {} THEN {1} ELSE IF 1 \in w THEN {0, 1} ELSE {}
MCTransformKey(w) == IF 0 \in w THEN {1} ELSE {0}
MCWords == <<{0}, {0, 1}, {}, {1}>>
MCFk == [j \in 0 .. 3 |-> MCWords[j + 1]]
MCCk == [j \in 0 .. Rounds - 1 |-> MCWords[((j * j + j) % 4) + 1]]
MCCipherKey == {[j \in 0 .. 3 |-> MCWords[((j + n) % 4) + 1]] : n \in 0 .. 3}
MCPlain == [0 .. 3 -> {{}, {0, 1}, {1}}]

-----------------------------------------------------------------------------
HashIdle   == Init /\ HmacInit
BufferIdle == BufferInit /\ class = "bytes"
Sm4Idle ==
  /\ stage = "idle" /\ round = 0 /\ x = MCFk /\ block = MCFk
  /\ round_keys = [j \in {} |-> {}] /\ words = [j \in {} |-> {}]
KdfIdle ==
  /\ call = "hkdf" /\ iterations = 0 /\ output_size = 0 /\ output = <<>>
  /\ written = 0 /\ counter = 1 /\ i = 1 /\ last = <<>> /\ t = {} /\ step = "returned"
RandomIdle == size = 0 /\ bytes = <<>> /\ filled = 0 /\ source = "returned"

Used(u, Begun, Idle) == IF use = u THEN Begun ELSE Idle

LibraryInit ==
  /\ use \in {"hash", "buffer", "sm4", "kdf", "random", "line", "keys"}
  /\ HashIdle
  /\ Used("buffer", BufferInit, BufferIdle)
  /\ Used("sm4", Sm4Init, Sm4Idle)
  /\ Used("kdf", KdfInit, KdfIdle)
  /\ Used("random", RandomInit, RandomIdle)
  /\ Used("line", CliInit, LineIdle)
  /\ Used("keys", SecretsInit, KeysIdle)

LibraryNext ==
  \/ Only("hash") /\ HashNext
  \/ Only("buffer") /\ BufferNext
  \/ Only("sm4") /\ Sm4Next
  \/ Only("kdf") /\ KdfNext
  \/ Only("random") /\ RandomNext
  \/ Only("line") /\ CliNext
  \/ Only("keys") /\ SecretsNext

LibrarySpec ==
  /\ LibraryInit /\ [][LibraryNext]_libraryVars
  /\ WF_kdfVars(Only("kdf") /\ KdfNext)
  /\ WF_randomVars(Only("random") /\ (Getrandom \/ Finish \/ Urandom \/ UrandomFails))
=============================================================================
