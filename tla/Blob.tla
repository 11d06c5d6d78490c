---------------------------------- MODULE Blob ----------------------------------
(***************************************************************************)
(* encrypt_blob and decrypt_blob (src/src/crypto.cpp): SM4 in CTR mode,    *)
(* then HMAC over the result.  CTR mode is its own inverse, as CtrStream   *)
(* promises; its keystream is any function of key, nonce and position.     *)
(* HMAC is ideal: a tag is the place of its key and input among those that *)
(* tags have been computed of.                                             *)
(***************************************************************************)
EXTENDS Integers, Sequences

CONSTANTS
  Cells,            \* values of a cell of plaintext and ciphertext
  Stream(_, _, _),  \* keystream of a key and a nonce at a position
  TagBase           \* a number: cells above it are tags

ASSUME BlobAssumption == Cells \in Nat \ {0} /\ TagBase \in Nat

VARIABLE macs       \* the keys and inputs that tags have been computed of

\* ctr_crypt is used in both directions: XOR undoes itself, and so does this.
Crypt(key, nonce, s) == [i \in 1 .. Len(s) |-> (Stream(key, nonce, i) + Cells - s[i]) % Cells]

\* kMacDomain is a constant; both variable fields follow their lengths, which
\* be64 does not cut.
Domain == <<0>>
TagInputBare(aad, nonce, ciphertext) == Domain \o aad \o ciphertext
TagInput(aad, nonce, ciphertext) ==
  Domain \o <<Len(aad)>> \o aad \o <<nonce>> \o <<Len(ciphertext)>> \o ciphertext

\* The tag of a key and an input: their place in ms, where they are once they
\* have been used; those that never were have a tag that is in no file.
Listed(ms, x) == IF \E i \in DOMAIN ms : ms[i] = x THEN ms ELSE Append(ms, x)
Tag(ms, key, input) ==
  IF \E i \in DOMAIN ms : ms[i] = <<key, input>>
  THEN TagBase + (CHOOSE i \in DOMAIN ms : ms[i] = <<key, input>>)
  ELSE -1

\* The first 16 bytes of a derived key and the others: any function of the key.
EncryptBlob(ms, keys, nonce, plaintext, aad) ==
  LET ciphertext == Crypt(keys.enc, nonce, plaintext)
      input == TagInput(aad, nonce, ciphertext)
      listed == Listed(ms, <<keys.mac, input>>)
  IN  [blob |-> [nonce |-> nonce, ciphertext |-> ciphertext,
                 tag |-> Tag(listed, keys.mac, input)],
       macs |-> listed]

\* No plaintext, or the one, once the tag has been found equal.
DecryptUnchecked(keys, blob, aad) == {Crypt(keys.enc, blob.nonce, blob.ciphertext)}
DecryptBlob(keys, blob, aad) ==
  IF Tag(macs, keys.mac, TagInput(aad, blob.nonce, blob.ciphertext)) = blob.tag
  THEN {Crypt(keys.enc, blob.nonce, blob.ciphertext)}
  ELSE {}
=============================================================================
