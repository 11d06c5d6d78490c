-------------------------------- MODULE Sealing --------------------------------
(***************************************************************************)
(* The files of a vault from the values they stand for to the values that  *)
(* opening them gives: the key hierarchy of src/src/vault.cpp over Blob,   *)
(* and Format's files around the blobs.  Besides the damage of Format, a   *)
(* file can be altered in any cell, or put together from blobs that belong *)
(* to another object of the vault.                                         *)
(***************************************************************************)
EXTENDS Format, Blob

CONSTANT Password

VARIABLES
  goal,      \* what is sealed, and how it is opened; NoGoal for blobs of no origin
  other,     \* another object of the same vault
  opened     \* what opening the file gives: at most one result

sealingVars == <<value, file, damage, read, pc, macs, goal, other, opened>>

\* The keys drawn by random_bytes(32): the master key and those of two files.
MasterKey == <<40>>
FileKey   == <<41>>
OtherKey  == <<42>>

Derived(key, info) == Append(key, info)

\* The info strings of derive_key32, two for each purpose, all different.
Info == [manifest |-> <<1, 2>>, wrap |-> <<3, 4>>, content |-> <<5, 6>>, meta |-> <<7, 8>>]
Keys(key, purpose) ==
  [enc |-> Derived(key, Info[purpose][1]), mac |-> Derived(key, Info[purpose][2])]

\* derive_password_key: a key of its own for every password, count and salt.
PasswordKey(password, salt, iterations) ==
  <<password, iterations, Len(salt)>> \o salt

-----------------------------------------------------------------------------
\* An entry whose recorded size is not its content's length has a source that
\* changed while it was added.
GoalEntry == [id : Strings(1, 1), name : Strings(1, 1), size : Number, added_unix_seconds : Number]
Goal ==
  [kind : {"manifest"}, entries : {es \in BoundedSeq(GoalEntry, MaxList) : Distinct(es)}]
  \cup [kind : {"object"}, entry : GoalEntry, content : Strings(0, 1)]
  \cup [kind : {"meta"}, password : Password, attempt : Password,
        iterations : MinIterations .. MinIterations + 1, salt : Strings(MinSalt, MinSalt)]
NoGoal == [kind |-> "none"]

\* What the proofs assume besides: every number that is encrypted is a cell of
\* a plaintext, no list is too long for the length of a ciphertext, and no file
\* is longer than read_file admits.
Plaintexts == {Serialized([kind |-> "list", entries |-> g.entries]) : g \in {x \in Goal : x.kind = "manifest"}}
CellsFit == 42 < Cells /\ Word <= Cells /\ Plaintexts \subseteq Seq(0 .. Cells - 1)
ListsFit == \A p \in Plaintexts : Len(p) < Word
FilesFit ==
  /\ \A v \in Value : v.kind = "list" => Len(Serialized(v)) <= MaxFileBytes
  /\ \A p \in Plaintexts : Len(p) + 4 <= MaxFileBytes
  /\ 9 <= MaxFileBytes /\ MaxContent + 8 <= MaxFileBytes /\ MinSalt + 7 <= MaxFileBytes

SealingInit ==
  /\ \/ Init /\ goal = NoGoal
     \/ /\ goal \in {g \in Goal : g.kind \in Kind} /\ value = goal
        /\ file = <<>> /\ damage = "none" /\ read = {} /\ pc = "seal"
  /\ macs = <<>> /\ other = <<>> /\ opened = {}

\* save_manifest
SealManifest ==
  /\ pc = "seal" /\ goal.kind = "manifest"
  /\ \E nonce \in Byte :
       LET plain  == Serialized([kind |-> "list", entries |-> goal.entries])
           sealed == EncryptBlob(macs, Keys(MasterKey, "manifest"), nonce, plain,
                                 Aad([seals |-> "manifest"]))
       IN  value' = [kind |-> "manifest", blob |-> sealed.blob] /\ macs' = sealed.macs
  /\ pc' = "save"
  /\ UNCHANGED <<file, damage, read, goal, other, opened>>

\* The two blobs of an object, the content's first.
ObjectBlobs(ms, key, nonce, wrapNonce, entry, content) ==
  LET inner == EncryptBlob(ms, Keys(key, "content"), nonce, content,
                           Aad([seals |-> "object", entry |-> entry]))
      outer == EncryptBlob(inner.macs, Keys(MasterKey, "wrap"), wrapNonce, key,
                           Aad([seals |-> "wrap", id |-> entry.id]))
  IN  [object |-> [kind |-> "object", wrapped |-> outer.blob, content |-> inner.blob],
       macs |-> outer.macs]

\* add_file, which has also added another file under an id and a name of its own.
SealObject ==
  /\ pc = "seal" /\ goal.kind = "object"
  /\ \E nonce, wrapNonce \in Byte : \E e \in GoalEntry :
       /\ e.id # goal.entry.id /\ e.name # goal.entry.name /\ e.size = 1
       /\ LET mine   == ObjectBlobs(macs, FileKey, nonce, wrapNonce, goal.entry, goal.content)
              theirs == ObjectBlobs(mine.macs, OtherKey, nonce, wrapNonce, e, e.name)
          IN  value' = mine.object /\ other' = <<theirs.object>> /\ macs' = theirs.macs
  /\ pc' = "save"
  /\ UNCHANGED <<file, damage, read, goal, opened>>

\* Vault::init
SealMeta ==
  /\ pc = "seal" /\ goal.kind = "meta"
  /\ \E nonce \in Byte :
       LET key    == PasswordKey(goal.password, goal.salt, goal.iterations)
           sealed == EncryptBlob(macs, Keys(key, "meta"), nonce, MasterKey,
                                 Aad([seals |-> "meta", iterations |-> goal.iterations,
                                      salt |-> goal.salt]))
       IN  /\ value' = [kind |-> "meta", iterations |-> goal.iterations,
                        salt |-> goal.salt, master |-> sealed.blob]
           /\ macs' = sealed.macs
  /\ pc' = "save"
  /\ UNCHANGED <<file, damage, read, goal, other, opened>>

-----------------------------------------------------------------------------
\* A cell of the file is no longer what was written: it has changed a little,
\* or another tag that the vault has made is in its place.
Alter ==
  /\ pc = "saved" /\ damage = "none" /\ goal # NoGoal
  /\ \E i \in DOMAIN file :
     \E c \in {file[i] - 1, file[i] + 1} \cup {TagBase + j : j \in DOMAIN macs} :
       c >= 0 /\ c # file[i] /\ file' = [file EXCEPT ![i] = c]
  /\ damage' = "altered"
  /\ UNCHANGED <<value, read, pc, macs, goal, other, opened>>

\* The file is put together from the blobs of both objects, not both in place.
Splice ==
  /\ pc = "saved" /\ damage = "none" /\ other # <<>>
  /\ LET blobs == {value.wrapped, value.content, other[1].wrapped, other[1].content}
     IN  \E w, c \in blobs :
           /\ <<w, c>> # <<value.wrapped, value.content>>
           /\ file' = Serialized([kind |-> "object", wrapped |-> w, content |-> c])
  /\ damage' = "spliced"
  /\ UNCHANGED <<value, read, pc, macs, goal, other, opened>>

-----------------------------------------------------------------------------
\* load_manifest
OpenManifest(v) ==
  UNION {{[kind |-> "manifest", entries |-> l.entries] : l \in Parsed("list", plain)} :
           plain \in DecryptBlob(Keys(MasterKey, "manifest"), v.blob, Aad([seals |-> "manifest"]))}

\* extract_file, for the entry the manifest lists.
OpenObject(v) ==
  LET entry   == goal.entry
      fileKey == DecryptBlob(Keys(MasterKey, "wrap"), v.wrapped, Aad([seals |-> "wrap", id |-> entry.id]))
      plain   == UNION {DecryptBlob(Keys(k, "content"), v.content,
                                    Aad([seals |-> "object", entry |-> entry])) : k \in fileKey}
  IN  {[kind |-> "object", entry |-> entry, content |-> p] : p \in {q \in plain : Len(q) = entry.size}}

\* load, with a password of the caller's and the count and salt of the file.
OpenMeta(v) ==
  LET key    == PasswordKey(goal.attempt, v.salt, v.iterations)
      master == DecryptBlob(Keys(key, "meta"), v.master,
                            Aad([seals |-> "meta", iterations |-> v.iterations, salt |-> v.salt]))
  IN  {[master |-> m] : m \in {k \in master : Len(k) = Len(MasterKey)}}

Open ==
  /\ pc = "read" /\ goal # NoGoal
  /\ opened' = UNION {CASE v.kind = "manifest" -> OpenManifest(v)
                        [] v.kind = "object"   -> OpenObject(v)
                        [] v.kind = "meta"     -> OpenMeta(v) : v \in read}
  /\ pc' = "opened"
  /\ UNCHANGED <<value, file, damage, read, macs, goal, other>>

SealingNext ==
  \/ SealManifest \/ SealObject \/ SealMeta
  \/ (Save \/ Damage \/ Load) /\ UNCHANGED <<macs, goal, other, opened>>
  \/ Alter \/ Splice \/ Open

SealingSpec == SealingInit /\ [][SealingNext]_sealingVars

-----------------------------------------------------------------------------
\* What opening an untouched file must give: nothing for a wrong password or
\* for an entry whose recorded size is not its content's.
Due == CASE goal.kind = "manifest" -> {goal}
         [] goal.kind = "object"   -> IF Len(goal.content) = goal.entry.size THEN {goal} ELSE {}
         [] goal.kind = "meta"     -> IF goal.attempt = goal.password
                                      THEN {[master |-> MasterKey]} ELSE {}

\* A file that nobody touched opens to exactly what was sealed in it, through
\* every level of the key hierarchy, and a wrong password opens nothing.
OpensWhatWasSealed == (pc = "opened" /\ damage = "none") => opened = Due

\* A file with any cell altered, or with blobs of another object, opens to
\* nothing: decrypt_blob gives no plaintext of a blob that was not sealed with
\* these keys, for this purpose and for this entry.
AlteredIsRefused == (pc = "opened" /\ damage # "none") => opened = {}
=============================================================================
