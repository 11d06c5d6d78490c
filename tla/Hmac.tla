---------------------------------- MODULE Hmac ----------------------------------
(***************************************************************************)
(* class HmacSm3 (src/src/hmac_sm3.cpp) around its inner_ Sm3 object, from *)
(* its construction with a key to its destruction.  The outer hash is over *)
(* a block and a digest; it stays the pair of them.  XOR with a pad byte   *)
(* is any fixed permutation of the bytes.                                  *)
(***************************************************************************)
EXTENDS Sm3

CONSTANTS
  Key,            \* keys of the callers: passwords, salts and derived keys
  Digest(_),      \* sm3 of a padded message, as bytes: any function
  Ipad(_), Opad(_)   \* XOR with 0x36 and with 0x5c

ASSUME HmacAssumption ==
  /\ Key \subseteq Seq(Byte)
  /\ \A k \in Key : Digest(Hash!Padded(k)) \in Seq(Byte)
  /\ \A b \in Byte : Ipad(b) \in Byte

VARIABLES
  phase,       \* "none", "keyed", "done" or "destroyed"
  outer_pad,   \* outer_pad_
  mac,         \* what final returned
  key          \* not in the code: what the object was constructed with

hmacVars == <<phase, outer_pad, mac, key>>

\* normalized: zeros behind the key, or behind the digest of a key that is
\* longer than a block.
ZeroFilled(s) == [i \in Place |-> IF i <= Len(s) THEN s[i] ELSE Zero]
NormalizedWide(k) == ZeroFilled(IF Len(k) >= Block THEN Digest(Hash!Padded(k)) ELSE k)
Normalized(k)     == ZeroFilled(IF Len(k) > Block THEN Digest(Hash!Padded(k)) ELSE k)

InnerPad(k) == [i \in Place |-> Ipad(Normalized(k)[i])]
OuterPad(k) == [i \in Place |-> Opad(Normalized(k)[i])]

HmacInit == phase = "none" /\ outer_pad = Clear /\ mac = <<>> /\ key = <<>>

Construct ==
  /\ phase = "none" /\ message = <<>>
  /\ \E k \in Key : /\ key' = k
                    /\ Update(InnerPad(k))
                    /\ outer_pad' = OuterPad(k)
  /\ phase' = "keyed"
  /\ UNCHANGED mac

HmacUpdate ==
  /\ phase = "keyed"
  /\ \E data \in Piece : Update(data)
  /\ UNCHANGED hmacVars

HmacFinal ==
  /\ phase = "keyed"
  /\ Final
  /\ mac' = <<outer_pad, out'>>
  /\ phase' = "done"
  /\ UNCHANGED <<outer_pad, key>>

\* The destructor, of an object that was finished or given up by an exception.
Destroy ==
  /\ phase \in {"keyed", "done"}
  /\ Reset
  /\ outer_pad' = Clear
  /\ phase' = "destroyed"
  /\ UNCHANGED <<mac, key>>

HmacNext == Construct \/ HmacUpdate \/ HmacFinal \/ Destroy

\* A hash object is used by itself, or by an HMAC object from the start.
HashNext == (phase = "none" /\ Next /\ UNCHANGED hmacVars) \/ HmacNext

HmacSpec == Init /\ HmacInit /\ [][HashNext]_<<vars, hmacVars>>

-----------------------------------------------------------------------------
\* RFC 2104, where a key of just a block is used as it is.
Expanded(k) ==
  [i \in Place |-> LET s == IF Len(k) <= Block THEN k ELSE Digest(Hash!Padded(k))
                   IN  IF i \in DOMAIN s THEN s[i] ELSE Zero]

\* Each MAC is HMAC of the key and of all that was given to update, however it
\* was cut, for keys below, at and above the size of a block.
IsHmac ==
  [][HmacFinal =>
       mac' = <<[i \in Place |-> Opad(Expanded(key)[i])],
                Hash!Padded([i \in Place |-> Ipad(Expanded(key)[i])]
                            \o Rest(message, Block))>>]_<<vars, hmacVars>>
=============================================================================
