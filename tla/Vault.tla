-------------------------------- MODULE Vault --------------------------------
(***************************************************************************)
(* The file operations of an ENCRY_LIB vault (src/src/vault.cpp) at the    *)
(* granularity of the system calls that other processes and a crash can    *)
(* see.  Several runs of the program may have the same vault open; each    *)
(* holds its own copy of the entry list, loaded once by the constructor.   *)
(* The vault directory has been initialised: every run derives the same    *)
(* keys, so decryption of an undamaged file succeeds exactly when the      *)
(* authenticated data (the entry's fields) matches.                        *)
(***************************************************************************)
EXTENDS Naturals

CONSTANTS
  Proc,      \* runs of the program that open the vault
  Writer,    \* those that may run add, remove and extract without --keep-in-vault
  Name,      \* base names of user files
  MaxTmp,    \* a user's file name carries at most this many ".tmp" suffixes
  Id,        \* object identifiers make_object_id can draw
  Content,   \* contents of user files
  Size,      \* the length of each content
  Careful,   \* TRUE: nobody touches a user file that a running command works on
  Faults     \* which calls can fail: "write", "unlink", "crash"

ASSUME ConstantsAssumption ==
  /\ Writer \subseteq Proc
  /\ MaxTmp \in Nat
  /\ Size \in [Content -> Nat]
  /\ Careful \in BOOLEAN
  /\ Faults \subseteq {"write", "unlink", "crash"}
  /\ Id \cap Name = {}
  /\ "manifest.bin" \notin Id \cup Name

-----------------------------------------------------------------------------
(***************************************************************************)
(* Files.  A file name is a base and the number of ".tmp" suffixes on it.  *)
(***************************************************************************)
UserPath == Name \X (0 .. MaxTmp)
File     == ({"manifest.bin"} \cup Id \cup Name) \X (0 .. MaxTmp + 1)

Manifest == <<"manifest.bin", 0>>
Obj(id)  == <<id, 0>>

\* The files that write_file_atomic is asked for.
Target == {Manifest} \cup {Obj(id) : id \in Id} \cup UserPath

\* write_file_atomic writes path + ".tmp" and renames it to path.
TmpInPlace(f) == f
Tmp(f) == <<f[1], f[2] + 1>>

\* added_unix_seconds is in Format: the object's AAD binds it and list prints it,
\* and no step here depends on it.
Entry == [id : Id, name : UserPath, size : {Size[c] : c \in Content}]

Absent         == [kind |-> "absent"]
Empty          == [kind |-> "empty"]   \* opened with std::ios::trunc, nothing written
Torn           == [kind |-> "torn"]    \* a prefix, or the overlay of two writers
Plain(c)       == [kind |-> "plain", content |-> c]
ObjectOf(e, c) == [kind |-> "object", entry |-> e, content |-> c]
ManifestOfIds(es) == [kind |-> "manifest", entries |-> {e.id : e \in es}]
ManifestOf(es) == [kind |-> "manifest", entries |-> es]

FileData == {Absent, Empty, Torn}
            \cup [kind : {"plain"}, content : Content]
            \cup [kind : {"object"}, entry : Entry, content : Content]
            \cup [kind : {"manifest"}, entries : SUBSET Entry]

VARIABLES
  fs,        \* what each file name denotes
  fd,        \* per run, the file its std::ofstream writes to
  pc,        \* per run, the next system call
  op,        \* per run, the locals of the running command
  entries    \* per run, Vault::entries_

vars == <<fs, fd, pc, op, entries>>

Steps == {"addRead", "open", "write", "rename", "unwind",
          "addPush", "addSaved", "extDone", "delSaved"}

Op == [cmd : {"add", "extract", "remove"}, entry : Entry, user : UserPath,
       move : BOOLEAN,       \* !keep_source, remove_after_extract
       file : Target,        \* the file write_file_atomic is asked for
       data : FileData,      \* and its bytes
       next : {"addPush", "addSaved", "extDone", "delSaved"}]
NoOp == [cmd |-> "none"]

Running(p) == pc[p] \in Steps
Idle(p)    == pc[p] = "ready"

TypeOK ==
  /\ fs \in [File -> FileData]
  /\ fd \in [Proc -> SUBSET File]
  /\ pc \in [Proc -> {"closed", "ready"} \cup Steps]
  /\ op \in [Proc -> Op \cup {NoOp}]
  /\ \A p \in Proc : op[p] \in Op <=> Running(p)
  /\ entries \in [Proc -> SUBSET Entry]

-----------------------------------------------------------------------------
\* A vault without entries (load_manifest also accepts a missing manifest) and
\* any files of the user.
Init ==
  /\ \E m \in {Absent, ManifestOf({})} :
     \E user \in [UserPath -> {Absent} \cup {Plain(c) : c \in Content}] :
        fs = [f \in File |-> IF f = Manifest THEN m
                             ELSE IF f \in UserPath THEN user[f] ELSE Absent]
  /\ fd = [p \in Proc |-> {}]
  /\ pc = [p \in Proc |-> "closed"]
  /\ op = [p \in Proc |-> NoOp]
  /\ entries = [p \in Proc |-> {}]

-----------------------------------------------------------------------------
(***************************************************************************)
(* What is on disk.                                                        *)
(***************************************************************************)
Listed == IF fs[Manifest].kind = "manifest" THEN fs[Manifest].entries ELSE {}

\* decrypt_blob authenticates the object under wrap_aad and object_aad of the
\* entry, and extract_file then compares the plaintext's length.
Opens(e, c)    == fs[Obj(e.id)] = ObjectOf(e, c) /\ Size[c] = e.size
Recoverable(e) == \E c \in Content : Opens(e, c)

\* find_entry
Named(es, n) == {e \in es : e.name = n}

(***************************************************************************)
(* User files that a running command reads or replaces.                    *)
(***************************************************************************)
InUse   == {op[p].user : p \in {r \in Proc : op[r].cmd \in {"add", "extract"}}}
Free(q) == Careful => q \notin InUse

\* make_object_id draws 16 random bytes: two commands never draw the same id,
\* and add_file draws again while an object of that id exists.
Undrawn(id)   == \A p \in Proc : Running(p) => op[p].entry.id # id
FirstDraw(id) == Undrawn(id)
Fresh(id)     == Undrawn(id) /\ fs[Obj(id)] = Absent

\* A file name now denotes another file, or none: a stream opened under the
\* old name keeps writing to the file it opened.
Relink(from, to) ==
  fd' = [p \in Proc |-> {IF f = from THEN to ELSE f : f \in fd[p] \ {to}}]
Unlink(f) ==
  /\ fs' = [fs EXCEPT ![f] = Absent]
  /\ fd' = [p \in Proc |-> fd[p] \ {f}]

Finish(p, outcome) ==
  /\ pc' = [pc EXCEPT ![p] = outcome]
  /\ op' = [op EXCEPT ![p] = NoOp]

-----------------------------------------------------------------------------
(***************************************************************************)
(* The constructor and the destructor.  A command refused before it        *)
(* changes anything (no regular file, name taken, no such entry, object    *)
(* missing or not authentic) leaves the state as it is: its action below   *)
(* is not enabled.                                                         *)
(***************************************************************************)
OpenUnloaded(p) ==
  /\ pc[p] = "closed"
  /\ pc' = [pc EXCEPT ![p] = "ready"]
  /\ UNCHANGED <<fs, fd, op, entries>>

OpenVault(p) ==
  /\ pc[p] = "closed"
  /\ fs[Manifest].kind \in {"absent", "manifest"}   \* else the constructor throws
  /\ entries' = [entries EXCEPT ![p] = Listed]
  /\ pc' = [pc EXCEPT ![p] = "ready"]
  /\ UNCHANGED <<fs, fd, op>>

CloseVault(p) ==
  /\ Idle(p)
  /\ entries' = [entries EXCEPT ![p] = {}]
  /\ pc' = [pc EXCEPT ![p] = "closed"]
  /\ UNCHANGED <<fs, fd, op>>

(***************************************************************************)
(* add_file up to read_file(source): the entry, with the length that       *)
(* file_size reports now.                                                  *)
(***************************************************************************)
NameUnchecked(p, n) == TRUE
NameAvailable(p, n) == Named(entries[p], n) = {}

AddFile(p, src, n, move) ==
  /\ p \in Writer
  /\ Idle(p)
  /\ Free(src)
  /\ fs[src].kind = "plain"
  /\ NameAvailable(p, n)
  /\ \E id \in Id :
       /\ Fresh(id)
       /\ op' = [op EXCEPT ![p] =
                  [cmd |-> "add",
                   entry |-> [id |-> id, name |-> n, size |-> Size[fs[src].content]],
                   user |-> src, move |-> move,
                   file |-> Obj(id), data |-> Absent, next |-> "addPush"]]
  /\ pc' = [pc EXCEPT ![p] = "addRead"]
  /\ UNCHANGED <<fs, fd, entries>>

\* read_file(source), the encryption, and the object's bytes.
ReadSource(p) ==
  /\ pc[p] = "addRead"
  /\ LET source == fs[op[p].user] IN
     IF source.kind = "plain"
     THEN /\ op' = [op EXCEPT ![p].data = ObjectOf(op[p].entry, source.content)]
          /\ pc' = [pc EXCEPT ![p] = "open"]
     ELSE Finish(p, "ready")
  /\ UNCHANGED <<fs, fd, entries>>

(***************************************************************************)
(* write_file_atomic: open and truncate the temporary file, write and      *)
(* close it, rename it.  A write over what another run already wrote to    *)
(* the same file covers it or leaves its tail, whichever is longer.        *)
(***************************************************************************)
OpenTmp(p) ==
  /\ pc[p] = "open"
  /\ fs' = [fs EXCEPT ![Tmp(op[p].file)] = Empty]
  /\ fd' = [fd EXCEPT ![p] = {Tmp(op[p].file)}]
  /\ pc' = [pc EXCEPT ![p] = "write"]
  /\ UNCHANGED <<op, entries>>

WriteTmp(p) ==
  /\ pc[p] = "write"
  /\ \E bytes \in {op[p].data, Torn} :
       /\ (\A f \in fd[p] : fs[f] = Empty) => bytes = op[p].data
       /\ fs' = [f \in File |-> IF f \in fd[p] THEN bytes ELSE fs[f]]
  /\ fd' = [fd EXCEPT ![p] = {}]
  /\ pc' = [pc EXCEPT ![p] = "rename"]
  /\ UNCHANGED <<op, entries>>

RenameTmp(p) ==
  /\ pc[p] = "rename"
  /\ LET file == op[p].file
         tmp  == Tmp(op[p].file)
     IN  /\ fs[tmp] # Absent
         /\ fs' = [fs EXCEPT ![file] = fs[tmp], ![tmp] = Absent]
         /\ Relink(tmp, file)
  /\ pc' = [pc EXCEPT ![p] = op[p].next]
  /\ UNCHANGED <<op, entries>>

FailureUnnoticed(p) ==
  /\ pc[p] \in {"open", "write", "rename"} /\ "write" \in Faults
  /\ fd' = [fd EXCEPT ![p] = {}]
  /\ pc' = [pc EXCEPT ![p] = op[p].next]
  /\ UNCHANGED <<fs, op, entries>>

\* One of these calls fails and write_file_atomic throws; the temporary file
\* stays behind.
WriteFails(p) ==
  /\ \/ /\ pc[p] = "open" /\ "write" \in Faults
        /\ UNCHANGED <<fs, fd>>
     \/ /\ pc[p] = "write" /\ "write" \in Faults
        /\ fs' = [f \in File |-> IF f \in fd[p] THEN Torn ELSE fs[f]]
        /\ fd' = [fd EXCEPT ![p] = {}]
     \/ /\ pc[p] = "rename"
        /\ "write" \in Faults \/ fs[Tmp(op[p].file)] = Absent
        /\ UNCHANGED <<fs, fd>>
  /\ pc' = [pc EXCEPT ![p] = "unwind"]
  /\ UNCHANGED <<op, entries>>

\* The catch blocks around save_manifest in add_file and delete_file.
NoRollback(p) == entries[p]
RolledBack(p) ==
  (entries[p] \ (IF op[p].next = "addSaved" THEN {op[p].entry} ELSE {}))
    \cup (IF op[p].next = "delSaved" THEN {op[p].entry} ELSE {})

UnwindKeepsObject(p) ==
  /\ pc[p] = "unwind"
  /\ entries' = [entries EXCEPT ![p] = RolledBack(p)]
  /\ UNCHANGED <<fs, fd>>
  /\ Finish(p, "ready")

Unwind(p) ==
  /\ pc[p] = "unwind"
  /\ entries' = [entries EXCEPT ![p] = RolledBack(p)]
  /\ \/ op[p].next = "addSaved" /\ Unlink(Obj(op[p].entry.id))
     \/ op[p].next = "addSaved" /\ "unlink" \in Faults /\ UNCHANGED <<fs, fd>>
     \/ op[p].next # "addSaved" /\ UNCHANGED <<fs, fd>>
  /\ Finish(p, "ready")

-----------------------------------------------------------------------------
(***************************************************************************)
(* The rest of add_file: entries_.push_back, save_manifest, and the        *)
(* removal of the source.                                                  *)
(***************************************************************************)
SaveManifest(p, es, locals) ==
  /\ entries' = [entries EXCEPT ![p] = es]
  /\ op' = [op EXCEPT ![p] = [locals EXCEPT !.file = Manifest, !.data = ManifestOf(es)]]
  /\ pc' = [pc EXCEPT ![p] = "open"]
  /\ UNCHANGED <<fs, fd>>

PushEntry(p) ==
  /\ pc[p] = "addPush"
  /\ SaveManifest(p, entries[p] \cup {op[p].entry}, [op[p] EXCEPT !.next = "addSaved"])

KeepsSource(p) ==
  /\ pc[p] = "addSaved"
  /\ Finish(p, "ready")
  /\ UNCHANGED <<fs, fd, entries>>

RemoveSource(p) ==
  /\ pc[p] = "addSaved"
  /\ \/ op[p].move /\ Unlink(op[p].user)
     \/ /\ op[p].move => "unlink" \in Faults
        /\ UNCHANGED <<fs, fd>>
  /\ Finish(p, "ready")
  /\ UNCHANGED entries

(***************************************************************************)
(* delete_file, called by the remove command and by extract_file.          *)
(***************************************************************************)
DeleteObjectFirst(p, e, locals) ==
  /\ Unlink(Obj(e.id))
  /\ entries' = [entries EXCEPT ![p] = @ \ {e}]
  /\ op' = [op EXCEPT ![p] = [locals EXCEPT !.file = Manifest, !.next = "delSaved",
                                            !.data = ManifestOf(entries[p] \ {e})]]
  /\ pc' = [pc EXCEPT ![p] = "open"]

DeleteFile(p, e, locals) ==
  SaveManifest(p, entries[p] \ {e}, [locals EXCEPT !.next = "delSaved"])

RemoveFile(p, n) ==
  /\ p \in Writer
  /\ Idle(p)
  /\ \E e \in Named(entries[p], n) :
       DeleteFile(p, e, [cmd |-> "remove", entry |-> e, user |-> n, move |-> TRUE,
                         file |-> Manifest, data |-> Absent, next |-> "delSaved"])

RemoveObject(p) ==
  /\ pc[p] = "delSaved"
  /\ \/ Unlink(Obj(op[p].entry.id))
     \/ "unlink" \in Faults /\ UNCHANGED <<fs, fd>>
  /\ Finish(p, "ready")
  /\ UNCHANGED entries

(***************************************************************************)
(* extract_file: the object is read and decrypted into the output, which   *)
(* replaces any file of that name; then the entry is deleted.              *)
(***************************************************************************)
ExtractFile(p, n, output, move) ==
  /\ move => p \in Writer
  /\ Idle(p)
  /\ Free(output)
  /\ \E e \in Named(entries[p], n), c \in Content :
       /\ Opens(e, c)
       /\ op' = [op EXCEPT ![p] =
                  [cmd |-> "extract", entry |-> e, user |-> output, move |-> move,
                   file |-> output, data |-> Plain(c), next |-> "extDone"]]
  /\ pc' = [pc EXCEPT ![p] = "open"]
  /\ UNCHANGED <<fs, fd, entries>>

KeepsEntry(p) ==
  /\ pc[p] = "extDone"
  /\ Finish(p, "ready")
  /\ UNCHANGED <<fs, fd, entries>>

AfterExtract(p) ==
  /\ pc[p] = "extDone"
  /\ \/ op[p].move /\ DeleteFile(p, op[p].entry, op[p])
     \/ ~ op[p].move /\ Finish(p, "ready") /\ UNCHANGED <<fs, fd, entries>>

(***************************************************************************)
(* A run is killed (in the middle of a write: WriteFails, then Crash); a   *)
(* user creates, changes or deletes a file.                                *)
(***************************************************************************)
Crash(p) ==
  /\ "crash" \in Faults
  /\ Running(p)
  /\ Finish(p, "closed")
  /\ fd' = [fd EXCEPT ![p] = {}]
  /\ entries' = [entries EXCEPT ![p] = {}]
  /\ UNCHANGED fs

UserEdit(q) ==
  /\ Free(q)
  /\ \/ Unlink(q)
     \/ \E c \in Content : fs' = [fs EXCEPT ![q] = Plain(c)] /\ UNCHANGED fd
  /\ UNCHANGED <<pc, op, entries>>

-----------------------------------------------------------------------------
\* The steps a running command takes by itself.
Step(p) ==
  \/ ReadSource(p) \/ OpenTmp(p) \/ WriteTmp(p) \/ RenameTmp(p) \/ WriteFails(p)
  \/ Unwind(p) \/ PushEntry(p) \/ RemoveSource(p) \/ RemoveObject(p) \/ AfterExtract(p)

Command(p) ==
  \/ \E src, n \in UserPath, move \in BOOLEAN : AddFile(p, src, n, move)
  \/ \E n, output \in UserPath, move \in BOOLEAN : ExtractFile(p, n, output, move)
  \/ \E n \in UserPath : RemoveFile(p, n)

Next ==
  \/ \E p \in Proc : \/ OpenVault(p) \/ CloseVault(p)
                     \/ Command(p) \/ Step(p) \/ Crash(p)
  \/ \E q \in UserPath : UserEdit(q)

Spec == Init /\ [][Next]_vars

\* A command is straight-line code in a process of its own, which the system
\* schedules: it goes on while it has a step to take.
FairSpec == Spec /\ \A p \in Proc : WF_vars(Step(p))

-----------------------------------------------------------------------------
(***************************************************************************)
(* Properties.                                                             *)
(***************************************************************************)

\* A run that opens the vault always finds a manifest it can parse, at every
\* instant of another run's save_manifest and after a crash in it.
ManifestReadable == fs[Manifest].kind \in {"absent", "manifest"}

\* Every entry the manifest lists can be extracted: its object is there, it
\* authenticates under the entry, and its length is the recorded one.  The
\* object is written before and unlinked after the manifest that names it.
EveryEntryRecoverable == \A e \in Listed : Recoverable(e)

\* find_entry and object_path are functions of the name and of the id: no two
\* entries of the manifest share either.
NamesAndIdsUnique ==
  \A e1, e2 \in Listed : (e1.name = e2.name \/ e1.id = e2.id) => e1 = e2

\* Between two commands the writer's entries_ is the list on disk, also after
\* a command that threw: the catch blocks undo exactly what was not saved.
MemoryMatchesDisk == \A p \in Writer : Idle(p) => entries[p] = Listed

\* While no command runs, every object on disk is listed: a failed add has
\* removed the object it wrote.  (Not so when the removal fails or after a
\* crash: the run that checks this has neither.)
NoOrphanObject ==
  (\A p \in Proc : ~ Running(p)) =>
     \A id \in Id : fs[Obj(id)] # Absent => \E e \in Listed : e.id = id

\* An entry leaves the manifest only by the remove command or by an extraction
\* that names it: no save of the list forgets an entry that another command
\* put there.
EntriesLeaveOnlyOnRequest ==
  [][\A e \in Listed \ Listed' :
       \E p \in Writer :
          Running(p) /\ op[p].next = "delSaved" /\ op[p].entry = e]_vars

(***************************************************************************)
(* The vault as its user sees it, for the abstract specification.          *)
(***************************************************************************)
Inside == [n \in UserPath |->
             {c \in Content : \E e \in Listed : e.name = n /\ Opens(e, c)}]
Outside == [q \in UserPath |-> {c \in Content : fs[q] = Plain(c)}]
Held == [p \in Proc |-> {c \in Content : /\ op[p].cmd = "extract"
                                         /\ op[p].data = Plain(c)}]
Asked == {op[p].entry.name : p \in {r \in Proc : op[r].cmd = "remove"}}

Transfer == INSTANCE SafeTransfer
              WITH Path <- UserPath, inside <- Inside, outside <- Outside,
                   held <- Held, asked <- Asked, used <- InUse

\* The vault implements SafeTransfer: a file leaves the user's directory only
\* while the vault holds its content, and leaves the vault only when its
\* content is back outside or its removal was asked for.
TransferSpec == Transfer!Spec

\* If nothing fails, a file moved in ends up inside under its name and gone
\* outside, and a file moved out ends up outside and gone inside.
MoveInCompletes ==
  \A p \in Writer, q, n \in UserPath, c \in Content :
     (/\ pc[p] = "addRead" /\ op[p].move /\ fs[q] = Plain(c)
      /\ op[p].user = q /\ op[p].entry.name = n)
        ~> (Inside[n] = {c} /\ Outside[q] = {})

MoveOutCompletes ==
  \A p \in Writer, q, n \in UserPath, c \in Content :
     (/\ Running(p) /\ op[p].cmd = "extract" /\ op[p].move /\ op[p].data = Plain(c)
      /\ op[p].user = q /\ op[p].entry.name = n)
        ~> (Inside[n] = {} /\ Outside[q] = {c})

-----------------------------------------------------------------------------
(***************************************************************************)
(* The inductive invariant, for the proofs in VaultProofs.  WriterInv holds *)
(* with one writer, whatever happens to the user's files; ObjectInv also   *)
(* needs them left alone while a command works on them.                    *)
(***************************************************************************)
SingleWriter == \A p, q \in Writer : p = q
LeftAlone    == Careful /\ MaxTmp = 0

Saving(p) == pc[p] \in {"open", "write", "rename", "unwind"}

\* A stream writes to the temporary file of its command.  Another command can
\* have renamed a user file under it, never a file of the vault.
StreamInv ==
  \A p \in Proc : \A f \in fd[p] :
     /\ pc[p] = "write"
     /\ f[1] = op[p].file[1]
     /\ f[1] \notin Name => f = Tmp(op[p].file)

\* Where a command stands determines the file it saves and what follows.
PhaseInv ==
  \A p \in Proc : Running(p) =>
     /\ op[p].next = "addPush" => op[p].file = Obj(op[p].entry.id)
     /\ op[p].next = "extDone" => op[p].file = op[p].user
     /\ op[p].next \in {"addSaved", "delSaved"} => op[p].file = Manifest
     /\ op[p].next # "extDone" \/ op[p].move => p \in Writer
     /\ op[p].next \in {"addPush", "addSaved"} <=> op[p].cmd = "add"
     /\ op[p].next = "extDone" => op[p].cmd = "extract"
     /\ pc[p] = "addRead" => op[p].next = "addPush"
     /\ pc[p] \in {"addPush", "addSaved", "extDone", "delSaved"} => op[p].next = pc[p]

\* The writer's list is the one on disk but for the change being saved.
ListInv ==
  \A p \in Writer : pc[p] # "closed" =>
     entries[p] =
       IF Saving(p) /\ op[p].next = "addSaved" THEN Listed \cup {op[p].entry}
       ELSE IF Saving(p) /\ op[p].next = "delSaved" THEN Listed \ {op[p].entry}
       ELSE Listed

\* The entry being added is new until it is saved; the one being deleted is
\* listed until then.
EntryInv ==
  \A p \in Writer : Running(p) =>
     /\ op[p].cmd = "add" /\ pc[p] # "addSaved" =>
          \A e \in Listed : e.id # op[p].entry.id /\ e.name # op[p].entry.name
     /\ op[p].next = "extDone" \/ (Saving(p) /\ op[p].next = "delSaved") =>
          op[p].entry \in Listed
     /\ pc[p] = "delSaved" => \A e \in Listed : e.id # op[p].entry.id

\* A listed entry, and one about to be, has an object.
PresentInv ==
  /\ \A e \in Listed : fs[Obj(e.id)] # Absent
  /\ \A p \in Writer :
        pc[p] = "addPush" \/ (Saving(p) /\ op[p].next = "addSaved") =>
          fs[Obj(op[p].entry.id)] # Absent

\* The bytes on their way to a file of the vault.
SaveInv ==
  \A p \in Writer : (Saving(p) /\ op[p].next # "extDone") =>
     /\ op[p].next # "addPush" => op[p].data = ManifestOf(entries[p])
     /\ pc[p] = "write" => /\ fd[p] = {Tmp(op[p].file)}
                           /\ fs[Tmp(op[p].file)] = Empty
     /\ pc[p] = "rename" => fs[Tmp(op[p].file)] = op[p].data

WriterInv ==
  /\ TypeOK /\ ManifestReadable /\ NamesAndIdsUnique
  /\ StreamInv /\ PhaseInv /\ ListInv /\ EntryInv /\ PresentInv /\ SaveInv

\* No two commands work on the same user file, and no stream was renamed.
UseInv ==
  /\ \A p, q \in Proc :
        (/\ p # q /\ op[p].cmd \in {"add", "extract"} /\ op[q].cmd \in {"add", "extract"})
           => op[p].user # op[q].user
  /\ \A p \in Proc : \A f \in fd[p] : f = Tmp(op[p].file)

\* The source keeps its recorded length until it is read, and then the object
\* has it.
SourceInv ==
  \A p \in Writer :
     LET ofSize == {c \in Content : Size[c] = op[p].entry.size}
     IN  /\ pc[p] = "addRead" => fs[op[p].user] \in {Plain(c) : c \in ofSize}
         /\ Saving(p) /\ op[p].next = "addPush" =>
              op[p].data \in {ObjectOf(op[p].entry, c) : c \in ofSize}
         /\ pc[p] = "addPush" \/ (Saving(p) /\ op[p].next = "addSaved") =>
              Recoverable(op[p].entry)

ObjectInv == WriterInv /\ UseInv /\ SourceInv /\ EveryEntryRecoverable
=============================================================================
