-------------------------------- MODULE Format --------------------------------
(***************************************************************************)
(* The file formats of a vault (src/src/vault.cpp): what is written for a  *)
(* value and what the parser makes of it.  A file is a sequence of cells,  *)
(* one per fixed-width field and one per byte of a string or ciphertext.   *)
(* A parser returns the set of its results: at most one, none if it        *)
(* throws.                                                                 *)
(***************************************************************************)
EXTENDS Integers, Sequences, FiniteSets, SequencesExt

CONSTANTS
  Byte,             \* values of a byte
  Word,             \* values of a std::uint32_t, which holds every length
  MaxEntries,       \* kMaxEntries
  MinIterations,    \* kMinIterations
  MinSalt, MaxSalt, \* the salt sizes parse_meta_file admits
  MaxFileBytes,     \* kMaxFileBytes
  Kind,             \* which values a run writes
  MaxString,        \* bound: the longest id and name
  MaxList,          \* bound: the longest list
  MaxContent        \* bound: the longest ciphertext

ASSUME ConstantsAssumption ==
  /\ Byte \subseteq 0 .. Word - 1
  /\ {Word, MaxEntries, MinIterations, MinSalt, MaxSalt, MaxFileBytes} \subseteq Nat
  /\ {MaxString, MaxList, MaxContent} \subseteq Nat
  /\ Kind \subseteq {"list", "manifest", "object", "meta"}

\* No number and no length is cut to its field: what the proofs assume.
LengthsFit ==
  /\ 2 < Word /\ MaxString < Word /\ MaxContent < Word /\ MinSalt < Word
  /\ MaxList < Word /\ MaxList <= MaxEntries
  /\ MinIterations + 1 < Word /\ MinSalt <= MaxSalt

\* Distinct constants of the code, kMetaMagic and so on, and the labels of the
\* authenticated data.
Magic == [list |-> <<100>>, manifest |-> <<101>>, object |-> <<102>>, meta |-> <<103>>]
Label == [manifest |-> <<0>>, wrap |-> <<1>>, object |-> <<0, 0>>, meta |-> <<0, 1>>]

Strings(lo, hi) == BoundedSeq(Byte, hi) \ BoundedSeq(Byte, lo - 1)
Number == {0, 1}   \* sizes, and times of adding
Entry == [id : Strings(1, MaxString), name : Strings(1, MaxString), size : Number,
          added_unix_seconds : Number]
Blob  == [nonce : Byte, ciphertext : Strings(0, MaxContent), tag : Byte]
Key   == [nonce : Byte, ciphertext : {<<b>> : b \in Byte}, tag : {0}]

\* No two entries of a list share an id or a name.
Distinct(es) ==
  \A i, j \in DOMAIN es : i # j => es[i].id # es[j].id /\ es[i].name # es[j].name

\* What a vault writes: nothing is sealed under fewer iterations than
\* Vault::init admits, and its salt has a fixed length.
Value ==
  [kind : {"list"}, entries : {es \in BoundedSeq(Entry, MaxList) : Distinct(es)}]
  \cup [kind : {"manifest"}, blob : Blob]
  \cup [kind : {"object"}, wrapped : Key, content : Blob]
  \cup [kind : {"meta"}, iterations : MinIterations .. MinIterations + 1,
        salt : Strings(MinSalt, MinSalt), master : Key]

-----------------------------------------------------------------------------
(***************************************************************************)
(* Writing.                                                                *)
(***************************************************************************)
AppendU32(n) == <<n % Word>>
AppendU64(n) == <<n>>
AppendStringBare(s) == s
AppendString(s) == AppendU32(Len(s)) \o s
AppendBlob(b) == <<b.nonce>> \o AppendU32(Len(b.ciphertext)) \o b.ciphertext \o <<b.tag>>

EntryFields(e) == AppendString(e.id) \o AppendString(e.name) \o AppendU64(e.size)
                  \o AppendU64(e.added_unix_seconds)

Serialized(v) ==
  Magic[v.kind] \o
  CASE v.kind = "list"     -> AppendU32(Len(v.entries))
                              \o FlattenSeq([i \in 1 .. Len(v.entries) |-> EntryFields(v.entries[i])])
    [] v.kind = "manifest" -> AppendBlob(v.blob)
    [] v.kind = "object"   -> AppendBlob(v.wrapped) \o AppendBlob(v.content)
    [] v.kind = "meta"     -> AppendU32(v.iterations) \o AppendString(v.salt) \o AppendBlob(v.master)

\* The authenticated data of a blob, by what it seals.
Aad(x) ==
  AppendString(Label[x.seals]) \o
  CASE x.seals = "manifest" -> <<>>
    [] x.seals = "wrap"     -> AppendString(x.id)
    [] x.seals = "object"   -> EntryFields(x.entry)
    [] x.seals = "meta"     -> AppendU32(x.iterations) \o AppendString(x.salt)

Sealable ==
  [seals : {"manifest"}]
  \cup [seals : {"wrap"}, id : Strings(1, MaxString)]
  \cup [seals : {"object"}, entry : Entry]
  \cup [seals : {"meta"}, iterations : MinIterations .. MinIterations + 1,
        salt : Strings(MinSalt, MinSalt)]

-----------------------------------------------------------------------------
(***************************************************************************)
(* Reading: the value and the cells behind it.                             *)
(***************************************************************************)
Got(value, rest) == {[value |-> value, rest |-> rest]}
Then(results, Parse(_, _)) == UNION {Parse(r.value, r.rest) : r \in results}

ReadSpan(bytes, n) ==
  IF Len(bytes) < n THEN {}
  ELSE Got(SubSeq(bytes, 1, n), SubSeq(bytes, n + 1, Len(bytes)))

ReadCell(bytes)   == Then(ReadSpan(bytes, 1), LAMBDA s, rest : Got(s[1], rest))
ReadString(bytes) == Then(ReadCell(bytes), LAMBDA n, rest : ReadSpan(rest, n))

ReadBlob(bytes) ==
  Then(ReadCell(bytes), LAMBDA n, r1 :
    Then(ReadString(r1), LAMBDA c, r2 :
      Then(ReadCell(r2), LAMBDA t, r3 :
        Got([nonce |-> n, ciphertext |-> c, tag |-> t], r3))))

ReadEntry(bytes) ==
  Then(ReadString(bytes), LAMBDA id, r1 :
    Then(ReadString(r1), LAMBDA name, r2 :
      Then(ReadCell(r2), LAMBDA size, r3 :
        Then(ReadCell(r3), LAMBDA added, r4 :
          IF id = <<>> \/ name = <<>> THEN {}
          ELSE Got([id |-> id, name |-> name, size |-> size, added_unix_seconds |-> added], r4)))))

\* One more entry behind those read so far.
ReadNext(results) ==
  Then(results, LAMBDA es, rest : Then(ReadEntry(rest), LAMBDA e, r : Got(Append(es, e), r)))

ReadEntries(bytes, n) ==
  LET after[i \in 0 .. n] == IF i = 0 THEN Got(<<>>, bytes) ELSE ReadNext(after[i - 1])
  IN  after[n]

AtLimit(n) == n >= MaxEntries
TooMany(n) == n > MaxEntries

ReadList(bytes) ==
  Then(ReadCell(bytes), LAMBDA n, r :
    IF TooMany(n) THEN {}
    ELSE Then(ReadEntries(r, n), LAMBDA es, rest : Got([kind |-> "list", entries |-> es], rest)))

ReadManifest(bytes) ==
  Then(ReadBlob(bytes), LAMBDA b, rest : Got([kind |-> "manifest", blob |-> b], rest))

ReadObject(bytes) ==
  Then(ReadBlob(bytes), LAMBDA w, r :
    Then(ReadBlob(r), LAMBDA c, rest :
      Got([kind |-> "object", wrapped |-> w, content |-> c], rest)))

ReadMeta(bytes) ==
  Then(ReadCell(bytes), LAMBDA n, r1 :
    Then(ReadString(r1), LAMBDA s, r2 :
      Then(ReadBlob(r2), LAMBDA m, rest :
        IF n < MinIterations \/ Len(s) \notin MinSalt .. MaxSalt THEN {}
        ELSE Got([kind |-> "meta", iterations |-> n, salt |-> s, master |-> m], rest))))

ReadBody(kind, bytes) ==
  CASE kind = "list"     -> ReadList(bytes)
    [] kind = "manifest" -> ReadManifest(bytes)
    [] kind = "object"   -> ReadObject(bytes)
    [] kind = "meta"     -> ReadMeta(bytes)

\* The magic, the body, and nothing behind it.
TrailingIgnored(results) == {r.value : r \in results}
Whole(results) == {r.value : r \in {x \in results : x.rest = <<>>}}
Parsed(kind, bytes) ==
  Whole(Then(ReadSpan(bytes, 1), LAMBDA magic, rest :
               IF magic = Magic[kind] THEN ReadBody(kind, rest) ELSE {}))

-----------------------------------------------------------------------------
VARIABLES
  value,     \* what the program saves
  file,      \* the cells on disk
  damage,    \* "none", "torn" or "longer": what has happened to the file
  read,      \* what parsing gives
  pc

vars == <<value, file, damage, read, pc>>

Init ==
  /\ value \in {v \in Value : v.kind \in Kind}
  /\ file = <<>> /\ damage = "none" /\ read = {} /\ pc = "save"

Save ==
  /\ pc = "save"
  /\ file' = Serialized(value)
  /\ pc' = "saved"
  /\ UNCHANGED <<value, damage, read>>

\* A writer fails in the middle of a file, or two of them overlay it and the
\* longer one's end remains.  A list is not a file but the plaintext of one.
Damage ==
  /\ pc = "saved" /\ damage = "none" /\ value.kind # "list"
  /\ \/ /\ \E n \in 0 .. Len(file) - 1 : file' = SubSeq(file, 1, n)
        /\ damage' = "torn"
     \/ /\ \E end \in Strings(1, 2) : file' = file \o end
        /\ damage' = "longer"
  /\ UNCHANGED <<value, read, pc>>

\* read_file and the parser.
Load ==
  /\ pc = "saved"
  /\ read' = IF Len(file) > MaxFileBytes THEN {} ELSE Parsed(value.kind, file)
  /\ pc' = "read"
  /\ UNCHANGED <<value, file, damage>>

Next == Save \/ Damage \/ Load

Spec == Init /\ [][Next]_vars

-----------------------------------------------------------------------------
\* What the program has saved it can load, and it gets the same value back.
LoadsWhatWasSaved == (pc = "read" /\ damage = "none") => read = {value}

\* A file that lost its end, or kept the end of another, is refused by the
\* parser, before any key is used on it.
DamageIsRefused == (pc = "read" /\ damage \in {"torn", "longer"}) => read = {}

\* The blobs that the program seals for what it saves: those of an entry are
\* in its object.
Seals(v) ==
  CASE v.kind = "list"     -> {[seals |-> "object", entry |-> v.entries[i]] : i \in DOMAIN v.entries}
                              \cup {[seals |-> "wrap", id |-> v.entries[i].id] : i \in DOMAIN v.entries}
    [] v.kind = "manifest" -> {[seals |-> "manifest"]}
    [] v.kind = "object"   -> {}
    [] v.kind = "meta"     -> {[seals |-> "meta", iterations |-> v.iterations, salt |-> v.salt]}

\* Blobs of different purposes, and of entries that differ in any field, are
\* sealed under different data: none can be opened in another's place.  The
\* fields are framed by their lengths, so that none runs into the next.
AadIsInjective ==
  pc = "save" => \A x \in Seals(value), y \in Sealable : Aad(x) = Aad(y) => x = y
=============================================================================
