----------------------------- MODULE VaultProofs -----------------------------
(***************************************************************************)
(* Proofs about Vault, for every set of runs, names, identifiers and       *)
(* contents and every combination of faults.                               *)
(***************************************************************************)
EXTENDS Vault, TLAPS

-----------------------------------------------------------------------------
(***************************************************************************)
(* Names of files.                                                         *)
(***************************************************************************)

\* The temporary file of anything the program saves is a file of the model, and
\* belongs to the vault exactly when the saved file does.
LEMMA TargetFiles ==
  /\ Target \subseteq File
  /\ \A f \in Target : Tmp(f) \in File /\ Tmp(f)[1] = f[1] /\ Tmp(f) # f
BY ConstantsAssumption DEF Target, File, UserPath, Manifest, Obj, Tmp

\* What the program writes to files.
LEMMA DataTypes ==
  /\ Absent \in FileData /\ Empty \in FileData /\ Torn \in FileData
  /\ \A c \in Content : Plain(c) \in FileData
  /\ \A e \in Entry, c \in Content : ObjectOf(e, c) \in FileData
  /\ \A es \in SUBSET Entry : ManifestOf(es) \in FileData
BY DEF FileData, Plain, ObjectOf, ManifestOf

\* A file's list of entries is a set of entries.
LEMMA ListedType == TypeOK => Listed \subseteq Entry
<1> SUFFICES ASSUME TypeOK PROVE Listed \subseteq Entry
    OBVIOUS
<1>1. Manifest \in File
      BY TargetFiles DEF Target
<1>2. fs[Manifest] \in FileData
      BY <1>1 DEF TypeOK
<1> QED
      BY <1>2 DEF FileData, Listed, Absent, Empty, Torn

-----------------------------------------------------------------------------
(***************************************************************************)
(* Type correctness.                                                       *)
(***************************************************************************)

\* The initial states are well typed.
LEMMA InitTyped == Init => TypeOK
<1> SUFFICES ASSUME Init PROVE TypeOK
    OBVIOUS
<1>1. fs \in [File -> FileData]
      BY DataTypes DEF Init
<1>2. \A p \in Proc : op[p] \notin Op /\ ~ Running(p)
      BY DEF Init, NoOp, Op, Running, Steps
<1> QED
      BY <1>1, <1>2 DEF Init, TypeOK

\* Renaming or removing a file keeps the streams on files.
LEMMA StreamsTyped ==
  ASSUME TypeOK, NEW from, NEW to \in File
  PROVE  /\ Relink(from, to) => fd' \in [Proc -> SUBSET File]
         /\ Unlink(to) => /\ fs' \in [File -> FileData]
                          /\ fd' \in [Proc -> SUBSET File]
BY DataTypes DEF TypeOK, Relink, Unlink

\* The locals of a running command.
LEMMA OpType ==
  ASSUME TypeOK, NEW p \in Proc, Running(p)
  PROVE  /\ op[p] \in Op
         /\ op[p].entry \in Entry /\ op[p].entry.id \in Id
         /\ op[p].user \in UserPath /\ op[p].user \in File
         /\ op[p].file \in Target /\ op[p].file \in File /\ Tmp(op[p].file) \in File
         /\ op[p].data \in FileData
         /\ Obj(op[p].entry.id) \in File
<1>1. op[p] \in Op
      BY DEF TypeOK
<1>2. /\ op[p].entry \in Entry /\ op[p].user \in UserPath
      /\ op[p].file \in Target /\ op[p].data \in FileData
      BY <1>1 DEF Op
<1>3. op[p].entry.id \in Id
      BY <1>2 DEF Entry
<1> QED
      BY <1>1, <1>2, <1>3, TargetFiles DEF Target

\* The control state, after a step that ends or continues a command.
ControlTyped ==
  /\ pc \in [Proc -> {"closed", "ready"} \cup Steps]
  /\ op \in [Proc -> Op \cup {NoOp}]
  /\ \A p \in Proc : op[p] \in Op <=> Running(p)

\* Ending a command, or moving it on, keeps its control state typed.
LEMMA ControlSteps ==
  ASSUME TypeOK, NEW p \in Proc
  PROVE  /\ \A outcome \in {"closed", "ready"} : Finish(p, outcome) => ControlTyped'
         /\ \A s \in Steps, o \in Op :
              (pc' = [pc EXCEPT ![p] = s] /\ op' = [op EXCEPT ![p] = o]) => ControlTyped'
         /\ \A s \in Steps :
              (Running(p) /\ pc' = [pc EXCEPT ![p] = s] /\ op' = op) => ControlTyped'
<1>1. NoOp \notin Op
      BY DEF NoOp, Op
<1>2. "closed" \notin Steps /\ "ready" \notin Steps
      BY DEF Steps
<1> QED
      BY <1>1, <1>2 DEF TypeOK, ControlTyped, Finish, Running

\* Both ways to save the manifest.
LEMMA SaveTyped ==
  ASSUME TypeOK, NEW p \in Proc, NEW o \in Op, NEW es \in SUBSET Entry,
         SaveManifest(p, es, o)
  PROVE  /\ fs' \in [File -> FileData] /\ fd' \in [Proc -> SUBSET File]
         /\ ControlTyped'
         /\ entries' \in [Proc -> SUBSET Entry]
<1>1. [o EXCEPT !.file = Manifest, !.data = ManifestOf(es)] \in Op
      BY DataTypes DEF Op, Target
<1>2. "open" \in Steps
      BY DEF Steps
<1> QED
      BY <1>1, <1>2, ControlSteps DEF SaveManifest, TypeOK

\* So does the start of delete_file.
LEMMA DeleteTyped ==
  ASSUME TypeOK, NEW p \in Proc, NEW o \in Op, NEW e, DeleteFile(p, e, o)
  PROVE  /\ fs' \in [File -> FileData] /\ fd' \in [Proc -> SUBSET File]
         /\ ControlTyped'
         /\ entries' \in [Proc -> SUBSET Entry]
<1>1. [o EXCEPT !.next = "delSaved"] \in Op
      BY DEF Op
<1>2. entries[p] \ {e} \in SUBSET Entry
      BY DEF TypeOK
<1> QED
      BY <1>1, <1>2, SaveTyped DEF DeleteFile

\* Every step keeps the types.
LEMMA StepTyped ==
  ASSUME TypeOK, [Next]_vars
  PROVE  TypeOK'
<1> USE DataTypes, TargetFiles
<1> DEFINE FilesTyped == fs' \in [File -> FileData] /\ fd' \in [Proc -> SUBSET File]
           ListTyped  == entries' \in [Proc -> SUBSET Entry]
<1> SUFFICES FilesTyped /\ ControlTyped' /\ ListTyped
    BY DEF TypeOK, ControlTyped
<1>1. ASSUME NEW p \in Proc, OpenVault(p) \/ CloseVault(p)
      PROVE  FilesTyped /\ ControlTyped' /\ ListTyped
  <2>1. FilesTyped /\ ListTyped
        BY <1>1, ListedType DEF OpenVault, CloseVault, TypeOK
  <2>2. ControlTyped'
        BY <1>1 DEF OpenVault, CloseVault, Idle, TypeOK, ControlTyped, Running, Steps
  <2> QED
      BY <2>1, <2>2
<1>2. ASSUME NEW p \in Proc, Command(p)
      PROVE  FilesTyped /\ ControlTyped' /\ ListTyped
  <2>1. ASSUME NEW src \in UserPath, NEW n \in UserPath, NEW move \in BOOLEAN,
               AddFile(p, src, n, move)
        PROVE  FilesTyped /\ ControlTyped' /\ ListTyped
    <3>1. /\ fs[src] \in FileData /\ fs[src].kind = "plain"
          /\ UNCHANGED <<fs, fd, entries>>
          /\ pc' = [pc EXCEPT ![p] = "addRead"]
          BY <2>1 DEF AddFile, TypeOK, Target
    <3>2. fs[src].content \in Content
          BY <3>1 DEF FileData, Absent, Empty, Torn
    <3>3. PICK id \in Id :
            op' = [op EXCEPT ![p] =
                    [cmd |-> "add",
                     entry |-> [id |-> id, name |-> n, size |-> Size[fs[src].content]],
                     user |-> src, move |-> move,
                     file |-> Obj(id), data |-> Absent, next |-> "addPush"]]
          BY <2>1 DEF AddFile
    <3>4. [id |-> id, name |-> n, size |-> Size[fs[src].content]] \in Entry
          BY <3>2 DEF Entry
    <3>5. ControlTyped'
      <4> DEFINE o == [cmd |-> "add",
                       entry |-> [id |-> id, name |-> n, size |-> Size[fs[src].content]],
                       user |-> src, move |-> move,
                       file |-> Obj(id), data |-> Absent, next |-> "addPush"]
      <4>1. o \in Op
            BY <3>4 DEF Op, Target
      <4>2. "addRead" \in Steps
            BY DEF Steps
      <4> QED
            BY <3>1, <3>3, <4>1, <4>2, ControlSteps
    <3> QED
          BY <3>1, <3>5 DEF TypeOK
  <2>2. ASSUME NEW n \in UserPath, NEW output \in UserPath, NEW move \in BOOLEAN,
               ExtractFile(p, n, output, move)
        PROVE  FilesTyped /\ ControlTyped' /\ ListTyped
    <3>1. PICK e \in Named(entries[p], n), c \in Content :
            op' = [op EXCEPT ![p] =
                    [cmd |-> "extract", entry |-> e, user |-> output, move |-> move,
                     file |-> output, data |-> Plain(c), next |-> "extDone"]]
          BY <2>2 DEF ExtractFile
    <3> DEFINE o == [cmd |-> "extract", entry |-> e, user |-> output, move |-> move,
                     file |-> output, data |-> Plain(c), next |-> "extDone"]
    <3>2. e \in Entry
          BY DEF Named, TypeOK
    <3>3. o \in Op
          BY <3>2 DEF Op, Target
    <3>4. "open" \in Steps
          BY DEF Steps
    <3>5. ControlTyped'
          BY <2>2, <3>1, <3>3, <3>4, ControlSteps DEF ExtractFile
    <3> QED
          BY <2>2, <3>5 DEF ExtractFile, TypeOK
  <2>3. ASSUME NEW n \in UserPath, RemoveFile(p, n)
        PROVE  FilesTyped /\ ControlTyped' /\ ListTyped
    <3>1. PICK e \in Named(entries[p], n) :
            DeleteFile(p, e, [cmd |-> "remove", entry |-> e, user |-> n, move |-> TRUE,
                              file |-> Manifest, data |-> Absent, next |-> "delSaved"])
          BY <2>3 DEF RemoveFile
    <3>2. e \in Entry
          BY DEF Named, TypeOK
    <3>3. [cmd |-> "remove", entry |-> e, user |-> n, move |-> TRUE,
           file |-> Manifest, data |-> Absent, next |-> "delSaved"] \in Op
          BY <3>2 DEF Op, Target
    <3> QED
          BY <3>1, <3>3, DeleteTyped
  <2> QED
      BY <1>2, <2>1, <2>2, <2>3 DEF Command
<1>3. ASSUME NEW p \in Proc, Step(p)
      PROVE  FilesTyped /\ ControlTyped' /\ ListTyped
  <2>0. /\ Running(p)
        /\ {"open", "write", "rename", "unwind"} \subseteq Steps
        BY <1>3 DEF Step, ReadSource, OpenTmp, WriteTmp, RenameTmp, WriteFails, Unwind,
                    PushEntry, RemoveSource, RemoveObject, AfterExtract, Running, Steps
  <2>a. /\ op[p] \in Op
        /\ op[p].entry \in Entry /\ Obj(op[p].entry.id) \in File
        /\ op[p].user \in File /\ op[p].file \in File /\ Tmp(op[p].file) \in File
        /\ op[p].data \in FileData
        BY <2>0, OpType
  <2>1. CASE ReadSource(p)
    <3>1. CASE fs[op[p].user].kind = "plain"
      <4>1. fs[op[p].user].content \in Content
            BY <2>a, <3>1 DEF TypeOK, FileData, Absent, Empty, Torn
      <4>2. [op[p] EXCEPT !.data = ObjectOf(op[p].entry, fs[op[p].user].content)] \in Op
            BY <2>a, <4>1 DEF Op
      <4> QED
            BY <2>0, <2>1, <3>1, <4>2, ControlSteps DEF ReadSource, TypeOK
    <3>2. CASE fs[op[p].user].kind # "plain"
          BY <2>1, <3>2, ControlSteps DEF ReadSource, TypeOK
    <3> QED
          BY <3>1, <3>2
  <2>2. CASE OpenTmp(p)
        BY <2>0, <2>a, <2>2, ControlSteps DEF OpenTmp, TypeOK
  <2>3. CASE WriteTmp(p)
    <3>1. PICK bytes \in {op[p].data, Torn} :
            fs' = [f \in File |-> IF f \in fd[p] THEN bytes ELSE fs[f]]
          BY <2>3 DEF WriteTmp
    <3>2. FilesTyped /\ ListTyped
          BY <2>a, <2>3, <3>1 DEF WriteTmp, TypeOK
    <3>3. ControlTyped'
          BY <2>0, <2>3, ControlSteps DEF WriteTmp
    <3> QED
          BY <3>2, <3>3
  <2>4. CASE RenameTmp(p)
    <3>1. FilesTyped /\ ListTyped
          BY <2>a, <2>4, StreamsTyped DEF RenameTmp, TypeOK
    <3>2. op[p].next \in Steps
          BY <2>a DEF Op, Steps
    <3> QED
          BY <2>0, <2>4, <3>1, <3>2, ControlSteps DEF RenameTmp
  <2>5. CASE WriteFails(p)
        BY <2>0, <2>5, ControlSteps DEF WriteFails, TypeOK
  <2>6. CASE Unwind(p)
    <3>1. FilesTyped
          BY <2>a, <2>6, StreamsTyped DEF Unwind, TypeOK
    <3>2. ListTyped
          BY <2>a, <2>6 DEF Unwind, RolledBack, TypeOK
    <3> QED
          BY <2>6, <3>1, <3>2, ControlSteps DEF Unwind
  <2>7. CASE PushEntry(p)
    <3>1. [op[p] EXCEPT !.next = "addSaved"] \in Op
          BY <2>a DEF Op
    <3>2. entries[p] \cup {op[p].entry} \in SUBSET Entry
          BY <2>a DEF TypeOK
    <3> QED
          BY <2>7, <3>1, <3>2, SaveTyped DEF PushEntry
  <2>8. CASE RemoveSource(p)
        BY <2>a, <2>8, StreamsTyped, ControlSteps DEF RemoveSource, TypeOK
  <2>9. CASE RemoveObject(p)
        BY <2>a, <2>9, StreamsTyped, ControlSteps DEF RemoveObject, TypeOK
  <2>10. CASE AfterExtract(p)
    <3>1. CASE op[p].move /\ DeleteFile(p, op[p].entry, op[p])
          BY <2>a, <3>1, DeleteTyped
    <3>2. CASE ~ op[p].move
          BY <2>10, <3>2, ControlSteps DEF AfterExtract, TypeOK
    <3> QED
          BY <2>10, <3>1, <3>2 DEF AfterExtract
  <2> QED
      BY <1>3, <2>1, <2>2, <2>3, <2>4, <2>5, <2>6, <2>7, <2>8, <2>9, <2>10 DEF Step
<1>4. ASSUME NEW p \in Proc, Crash(p)
      PROVE  FilesTyped /\ ControlTyped' /\ ListTyped
  BY <1>4, ControlSteps DEF Crash, TypeOK
<1>5. ASSUME NEW q \in UserPath, UserEdit(q)
      PROVE  FilesTyped /\ ControlTyped' /\ ListTyped
  <2>1. q \in File
        BY DEF Target
  <2>2. FilesTyped
        BY <1>5, <2>1, StreamsTyped DEF UserEdit, TypeOK
  <2> QED
      BY <1>5, <2>2 DEF UserEdit, TypeOK, ControlTyped, Running
<1>6. CASE UNCHANGED vars
  BY <1>6 DEF vars, TypeOK, ControlTyped, Running
<1> QED
    BY <1>1, <1>2, <1>3, <1>4, <1>5, <1>6 DEF Next

\* Every variable of the vault has its type in every reachable state, and a run
\* has locals exactly while a command runs.
THEOREM TypeCorrect == Spec => []TypeOK
BY InitTyped, StepTyped, PTL DEF Spec

-----------------------------------------------------------------------------
(***************************************************************************)
(* One writer.  Everything the vault keeps on disk is written by it alone: *)
(* the other runs and the user touch only files of the user.               *)
(***************************************************************************)

\* The manifest, the objects and their temporary files are different files.
LEMMA DistinctFiles ==
  /\ Manifest \in File /\ Manifest[1] \notin Name /\ Tmp(Manifest) # Manifest
  /\ \A id \in Id : /\ Obj(id)[1] \notin Name /\ Obj(id) # Manifest
                    /\ Obj(id) # Tmp(Manifest) /\ Tmp(Obj(id)) # Manifest
                    /\ Tmp(Obj(id)) # Tmp(Manifest)
  /\ \A id1, id2 \in Id : /\ Obj(id1) # Tmp(Obj(id2))
                          /\ Obj(id1) = Obj(id2) => id1 = id2
  /\ \A q \in UserPath : q[1] \in Name
BY ConstantsAssumption, TargetFiles DEF UserPath, Manifest, Obj, Tmp, Target

\* A temporary file is not one that the vault reads.
LEMMA TmpNotSaved ==
  \A f \in Target : Tmp(f) # Manifest /\ \A id \in Id : Obj(id) # Tmp(f)
BY ConstantsAssumption DEF Target, UserPath, Tmp, Manifest, Obj

\* What the steps of a command have in common.
LEMMA StepFacts ==
  ASSUME WriterInv, NEW p \in Proc, Step(p)
  PROVE  /\ Running(p)
         /\ op[p] \in Op
         /\ op[p].entry \in Entry /\ op[p].entry.id \in Id
         /\ op[p].user \in UserPath /\ op[p].user \in File
         /\ op[p].file \in Target /\ op[p].file \in File /\ Tmp(op[p].file) \in File
         /\ Obj(op[p].entry.id) \in File
         /\ \A q \in Proc \ {p} :
              pc'[q] = pc[q] /\ op'[q] = op[q] /\ entries'[q] = entries[q]
<1>1. Running(p)
      BY DEF Step, ReadSource, OpenTmp, WriteTmp, RenameTmp, WriteFails, Unwind,
             PushEntry, RemoveSource, RemoveObject, AfterExtract, Running, Steps
<1>2. ASSUME NEW q \in Proc \ {p}
      PROVE  pc'[q] = pc[q] /\ op'[q] = op[q] /\ entries'[q] = entries[q]
      BY DEF Step, ReadSource, OpenTmp, WriteTmp, RenameTmp, WriteFails, Unwind,
             PushEntry, RemoveSource, RemoveObject, AfterExtract,
             Finish, SaveManifest, DeleteFile, WriterInv, TypeOK
<1> QED
      BY <1>1, <1>2, OpType DEF WriterInv

\* A run that does not write, and a user, leave the vault's files alone.
LEMMA ReaderSteps ==
  ASSUME WriterInv, NEW p \in Proc, p \notin Writer, Step(p),
         NEW f \in File, f[1] \notin Name
  PROVE  fs'[f] = fs[f] /\ \A q \in Proc : f \in fd'[q] <=> f \in fd[q]
<1> USE StepFacts, DistinctFiles
<1>1. /\ op[p].next = "extDone" /\ ~ op[p].move
      /\ op[p].file = op[p].user
      /\ op[p].file[1] \in Name /\ Tmp(op[p].file)[1] \in Name
      /\ pc[p] \in {"open", "write", "rename", "unwind", "extDone"}
  <2>1. op[p].next = "extDone" /\ ~ op[p].move /\ op[p].file = op[p].user
        BY DEF WriterInv, PhaseInv, Op
  <2>2. pc[p] \in {"open", "write", "rename", "unwind", "extDone"}
        BY <2>1 DEF WriterInv, PhaseInv, Running, Steps
  <2> QED
        BY <2>1, <2>2, TargetFiles
<1>2. f \notin fd[p]
      BY <1>1 DEF WriterInv, StreamInv
<1>3. /\ fs \in [File -> FileData]
      /\ fd \in [Proc -> SUBSET File]
      BY DEF WriterInv, TypeOK
<1>4. f # op[p].file /\ f # Tmp(op[p].file)
      BY <1>1
<1>5. CASE OpenTmp(p)
      BY <1>2, <1>3, <1>4, <1>5 DEF OpenTmp
<1>6. CASE WriteTmp(p) \/ WriteFails(p)
      BY <1>2, <1>3, <1>6 DEF WriteTmp, WriteFails
<1>7. CASE RenameTmp(p)
      BY <1>2, <1>3, <1>4, <1>7 DEF RenameTmp, Relink
<1>8. CASE Unwind(p) \/ AfterExtract(p)
      BY <1>1, <1>8 DEF Unwind, AfterExtract
<1> QED
      BY <1>1, <1>5, <1>6, <1>7, <1>8
         DEF Step, ReadSource, PushEntry, RemoveSource, RemoveObject

\* The only stream of a command into the vault's directory is on its temporary file.
LEMMA VaultStreams ==
  ASSUME WriterInv, NEW p \in Proc, NEW f \in fd[p], f[1] \notin Name
  PROVE  f = Tmp(op[p].file)
BY DEF WriterInv, StreamInv

\* A step of the writer leaves a file of the vault alone but for its command's
\* file, the temporary one, and an object it unlinks.
LEMMA WriterSteps ==
  ASSUME WriterInv, NEW p \in Proc, Step(p),
         NEW f \in File, f[1] \notin Name, fs'[f] # fs[f]
  PROVE  \/ (OpenTmp(p) \/ WriteTmp(p) \/ WriteFails(p)) /\ f = Tmp(op[p].file)
         \/ RenameTmp(p) /\ f \in {op[p].file, Tmp(op[p].file)}
         \/ Unwind(p) /\ op[p].next = "addSaved" /\ f = Obj(op[p].entry.id)
         \/ RemoveObject(p) /\ f = Obj(op[p].entry.id)
<1> USE StepFacts, DistinctFiles
<1>1. /\ fs \in [File -> FileData]
      /\ fd \in [Proc -> SUBSET File]
      BY DEF WriterInv, TypeOK
<1>2. f \in fd[p] => f = Tmp(op[p].file)
      BY DEF WriterInv, StreamInv
<1>3. CASE OpenTmp(p) \/ WriteTmp(p) \/ WriteFails(p)
      BY <1>1, <1>2, <1>3 DEF OpenTmp, WriteTmp, WriteFails
<1>4. CASE RenameTmp(p)
      BY <1>1, <1>4 DEF RenameTmp
<1>5. CASE Unwind(p) \/ RemoveObject(p)
      BY <1>1, <1>5 DEF Unwind, RemoveObject, Unlink
<1>6. CASE RemoveSource(p)
      BY <1>1, <1>6 DEF RemoveSource, Unlink
<1> QED
      BY <1>3, <1>4, <1>5, <1>6
         DEF Step, ReadSource, PushEntry, AfterExtract, DeleteFile, SaveManifest

\* The manifest changes only when the writer has saved its list.
LEMMA ManifestSteps ==
  ASSUME WriterInv, NEW p \in Proc, Step(p)
  PROVE  \/ fs'[Manifest] = fs[Manifest]
         \/ /\ RenameTmp(p) /\ p \in Writer /\ op[p].next \in {"addSaved", "delSaved"}
            /\ fs'[Manifest] = ManifestOf(entries[p])
<1> SUFFICES ASSUME fs'[Manifest] # fs[Manifest]
             PROVE  /\ RenameTmp(p) /\ p \in Writer
                    /\ op[p].next \in {"addSaved", "delSaved"}
                    /\ fs'[Manifest] = ManifestOf(entries[p])
    OBVIOUS
<1> USE StepFacts, DistinctFiles
<1>1. RenameTmp(p) /\ op[p].file = Manifest
      BY TmpNotSaved, WriterSteps
<1>2. op[p].next \in {"addSaved", "delSaved"} /\ p \in Writer
  <2>1. op[p].next \in {"addPush", "extDone", "addSaved", "delSaved"}
        BY DEF Op
  <2>2. Obj(op[p].entry.id) # Manifest /\ op[p].user # Manifest
        OBVIOUS
  <2> QED
        BY <1>1, <2>1, <2>2 DEF WriterInv, PhaseInv
<1>3. fs[Tmp(Manifest)] = ManifestOf(entries[p])
      BY <1>1, <1>2 DEF WriterInv, SaveInv, Saving, RenameTmp
<1>4. fs'[Manifest] = fs[Tmp(Manifest)]
      BY <1>1 DEF RenameTmp, WriterInv, TypeOK
<1> QED
      BY <1>1, <1>2, <1>3, <1>4

\* The list on disk changes only when the writer renames a saved manifest.
LEMMA ListedSteps ==
  ASSUME WriterInv, NEW p \in Proc, Step(p)
  PROVE  \/ Listed' = Listed
         \/ /\ RenameTmp(p) /\ p \in Writer /\ op[p].next \in {"addSaved", "delSaved"}
            /\ Listed' = entries[p]
<1>1. CASE fs'[Manifest] = fs[Manifest]
      BY <1>1 DEF Listed
<1>2. CASE /\ RenameTmp(p) /\ p \in Writer /\ op[p].next \in {"addSaved", "delSaved"}
           /\ fs'[Manifest] = ManifestOf(entries[p])
      BY <1>2 DEF Listed, ManifestOf
<1> QED
      BY <1>1, <1>2, ManifestSteps

\* No step leaves an empty or torn manifest.
LEMMA ManifestStep ==
  ASSUME WriterInv, NEW p \in Proc, Step(p)
  PROVE  ManifestReadable'
<1>1. CASE fs'[Manifest] = fs[Manifest]
      BY <1>1 DEF WriterInv, ManifestReadable
<1>2. CASE fs'[Manifest] = ManifestOf(entries[p])
      BY <1>2 DEF ManifestReadable, ManifestOf
<1> QED
      BY <1>1, <1>2, ManifestSteps

\* Only the writer saves a file of the vault.
LEMMA VaultTarget ==
  ASSUME WriterInv, NEW p \in Proc, Running(p)
  PROVE  /\ op[p].next = "extDone" => op[p].file[1] \in Name
         /\ op[p].next # "extDone" => op[p].file[1] \notin Name /\ p \in Writer
<1>1. /\ op[p].next \in {"addPush", "addSaved", "extDone", "delSaved"}
      /\ op[p].user \in UserPath /\ op[p].entry.id \in Id
      BY OpType DEF WriterInv, Op
<1> QED
      BY <1>1, DistinctFiles DEF WriterInv, PhaseInv

\* Only a command that writes has a stream, and it is the one on its temporary file.
LEMMA StreamStep ==
  ASSUME SingleWriter, WriterInv, NEW p \in Proc, Step(p)
  PROVE  StreamInv'
<1> SUFFICES ASSUME NEW q \in Proc, NEW f \in fd'[q]
             PROVE  /\ pc'[q] = "write"
                    /\ f[1] = op'[q].file[1]
                    /\ f[1] \notin Name => f = Tmp(op'[q].file)
    BY DEF StreamInv, Tmp
<1> USE StepFacts
<1>1. \A r \in Proc : \A g \in fd[r] :
        /\ pc[r] = "write"
        /\ g[1] = op[r].file[1]
        /\ g[1] \notin Name => g = Tmp(op[r].file)
      BY DEF WriterInv, StreamInv
<1>2. /\ fd \in [Proc -> SUBSET File]
      /\ pc \in [Proc -> {"closed", "ready"} \cup Steps]
      BY DEF WriterInv, TypeOK
<1>3. CASE OpenTmp(p)
      BY <1>1, <1>2, <1>3, TargetFiles DEF OpenTmp
<1>4. CASE WriteTmp(p) \/ WriteFails(p)
      BY <1>1, <1>2, <1>4 DEF WriteTmp, WriteFails
<1>5. CASE RenameTmp(p)
  <2>1. q # p
        BY <1>1, <1>2, <1>5 DEF RenameTmp, Relink
  <2>2. PICK g \in fd[q] : f = IF g = Tmp(op[p].file) THEN op[p].file ELSE g
        BY <1>2, <1>5 DEF RenameTmp, Relink
  <2>3. CASE g = Tmp(op[p].file)
    <3>1. f[1] = g[1] /\ f = op[p].file
          BY <2>2, <2>3, TargetFiles
    <3>2. Running(q)
          BY <1>1 DEF Running, Steps
    <3>3. f[1] \in Name
          BY <1>1, <2>1, <3>1, <3>2, VaultTarget DEF SingleWriter
    <3> QED
          BY <1>1, <2>1, <3>1, <3>3
  <2> QED
        BY <1>1, <2>1, <2>2, <2>3
<1>6. CASE Unwind(p) \/ RemoveSource(p) \/ RemoveObject(p)
      BY <1>1, <1>2, <1>6 DEF Unwind, RemoveSource, RemoveObject, Unlink
<1>7. CASE ReadSource(p) \/ PushEntry(p) \/ AfterExtract(p)
      BY <1>1, <1>2, <1>7 DEF ReadSource, PushEntry, AfterExtract, DeleteFile, SaveManifest
<1> QED
      BY <1>3, <1>4, <1>5, <1>6, <1>7 DEF Step

\* The place a command has reached fits the file it is writing.
LEMMA PhaseStep ==
  ASSUME WriterInv, NEW p \in Proc, Step(p)
  PROVE  PhaseInv'
<1> DEFINE Phase(q) ==
      /\ op[q].next = "addPush" => op[q].file = Obj(op[q].entry.id)
      /\ op[q].next = "extDone" => op[q].file = op[q].user
      /\ op[q].next \in {"addSaved", "delSaved"} => op[q].file = Manifest
      /\ op[q].next # "extDone" \/ op[q].move => q \in Writer
      /\ op[q].next \in {"addPush", "addSaved"} <=> op[q].cmd = "add"
      /\ op[q].next = "extDone" => op[q].cmd = "extract"
      /\ pc[q] = "addRead" => op[q].next = "addPush"
      /\ pc[q] \in {"addPush", "addSaved", "extDone", "delSaved"} => op[q].next = pc[q]
<1> USE StepFacts
<1>1. \A q \in Proc : Running(q) => Phase(q)
      BY DEF WriterInv, PhaseInv
<1>2. \A q \in Proc \ {p} : Running(q)' => Phase(q)'
  <2> SUFFICES ASSUME NEW q \in Proc \ {p}, Running(q)'
               PROVE  Phase(q)'
      OBVIOUS
  <2>1. pc'[q] = pc[q] /\ op'[q] = op[q]
        OBVIOUS
  <2>2. Phase(q)
        BY <1>1, <2>1 DEF Running
  <2> QED
        BY <2>1, <2>2 DEF Obj, Manifest
<1>3. Running(p)' => Phase(p)'
  <2>1. /\ pc \in [Proc -> {"closed", "ready"} \cup Steps]
        /\ op \in [Proc -> Op \cup {NoOp}]
        BY DEF WriterInv, TypeOK
  <2>2. Phase(p)
        BY <1>1
  <2>3. CASE ReadSource(p)
    <3>1. CASE fs[op[p].user].kind = "plain"
      <4>1. /\ op'[p].cmd = op[p].cmd /\ op'[p].next = op[p].next
            /\ op'[p].entry = op[p].entry /\ op'[p].file = op[p].file
            /\ op'[p].user = op[p].user /\ op'[p].move = op[p].move
            /\ pc'[p] = "open"
            BY <2>1, <2>3, <3>1 DEF ReadSource, Op
      <4> QED
            BY <2>2, <2>3, <4>1 DEF ReadSource, Obj, Manifest
    <3>2. CASE fs[op[p].user].kind # "plain"
          BY <2>1, <2>3, <3>2 DEF ReadSource, Finish, Running, Steps
    <3> QED
          BY <3>1, <3>2
  <2>4. CASE OpenTmp(p) \/ WriteTmp(p) \/ WriteFails(p)
        BY <2>1, <2>2, <2>4 DEF OpenTmp, WriteTmp, WriteFails, Obj, Manifest
  <2>5. CASE RenameTmp(p)
    <3>1. op[p].next \in {"addPush", "addSaved", "extDone", "delSaved"}
          BY DEF Op
    <3> QED
          BY <2>1, <2>2, <2>5, <3>1 DEF RenameTmp, Obj, Manifest
  <2>6. CASE Unwind(p) \/ RemoveSource(p) \/ RemoveObject(p)
        BY <2>1, <2>6 DEF Unwind, RemoveSource, RemoveObject, Finish, Running, Steps
  <2>7. CASE PushEntry(p)
    <3>1. op[p].next = "addPush" /\ op[p].cmd = "add" /\ p \in Writer
          BY <2>2, <2>7 DEF PushEntry
    <3> QED
          BY <2>1, <2>7, <3>1 DEF PushEntry, SaveManifest, Manifest, Op
  <2>8. CASE AfterExtract(p)
    <3>1. CASE op[p].move /\ DeleteFile(p, op[p].entry, op[p])
      <4>1. p \in Writer /\ op[p].cmd = "extract"
            BY <2>2, <2>8, <3>1 DEF AfterExtract
      <4> QED
            BY <2>1, <3>1, <4>1 DEF DeleteFile, SaveManifest, Manifest, Op
    <3>2. CASE ~ op[p].move
          BY <2>1, <2>8, <3>2 DEF AfterExtract, Finish, Running, Steps
    <3> QED
          BY <2>8, <3>1, <3>2 DEF AfterExtract
  <2> QED
        BY <2>3, <2>4, <2>5, <2>6, <2>7, <2>8 DEF Step
<1> QED
      BY <1>2, <1>3 DEF PhaseInv

\* What the steps of another run and of the user leave as it is for the writer.
LEMMA VaultUntouched ==
  ASSUME WriterInv, StreamInv',
         \A w \in Writer : /\ pc'[w] = pc[w] /\ op'[w] = op[w] /\ entries'[w] = entries[w]
                           /\ \A f \in File : f[1] \notin Name => (f \in fd'[w] <=> f \in fd[w]),
         \A f \in File : f[1] \notin Name => fs'[f] = fs[f]
  PROVE  /\ ManifestReadable' /\ NamesAndIdsUnique'
         /\ ListInv' /\ EntryInv' /\ PresentInv' /\ SaveInv'
<1> USE DistinctFiles
<1>1. \A w \in Writer : w \in Proc
      BY ConstantsAssumption
<1>2. fs'[Manifest] = fs[Manifest]
      OBVIOUS
<1>3. Listed' = Listed
      BY <1>2 DEF Listed
<1>4. ManifestReadable' /\ NamesAndIdsUnique'
      BY <1>2, <1>3 DEF WriterInv, ManifestReadable, NamesAndIdsUnique
<1>5. ListInv'
  <2> DEFINE Cur(w) == entries[w] =
               IF Saving(w) /\ op[w].next = "addSaved" THEN Listed \cup {op[w].entry}
               ELSE IF Saving(w) /\ op[w].next = "delSaved" THEN Listed \ {op[w].entry}
               ELSE Listed
  <2>1. ASSUME NEW w \in Writer, pc'[w] # "closed"
        PROVE  Cur(w)'
    <3>1. Cur(w)
          BY <2>1 DEF WriterInv, ListInv
    <3>2. Saving(w)' <=> Saving(w)
          BY DEF Saving
    <3> QED
          BY <1>3, <3>1, <3>2
  <2> QED
        BY <2>1 DEF ListInv
<1>6. EntryInv'
      BY <1>3 DEF WriterInv, EntryInv, Saving, Running
<1>7. PresentInv'
  <2>1. \A id \in Id : Obj(id) \in File /\ fs'[Obj(id)] = fs[Obj(id)]
        BY TargetFiles DEF Target
  <2>2. \A e \in Listed : e.id \in Id
        BY ListedType DEF WriterInv, Entry
  <2>3. \A e \in Listed' : fs'[Obj(e.id)] # Absent
        BY <1>3, <2>1, <2>2 DEF WriterInv, PresentInv
  <2>4. ASSUME NEW w \in Writer, pc[w] = "addPush" \/ (Saving(w) /\ op[w].next = "addSaved")
        PROVE  fs'[Obj(op[w].entry.id)] # Absent
    <3>1. Running(w)
          BY <2>4 DEF Saving, Running, Steps
    <3>2. op[w].entry.id \in Id
          BY <1>1, <3>1, OpType DEF WriterInv
    <3> QED
          BY <2>1, <2>4, <3>2 DEF WriterInv, PresentInv
  <2> QED
        BY <2>3, <2>4 DEF PresentInv, Saving, Obj, Absent
<1>8. SaveInv'
  <2>0. \A w \in Writer : Saving(w)' <=> Saving(w)
        BY DEF Saving
  <2> SUFFICES ASSUME NEW w \in Writer, Saving(w), op[w].next # "extDone"
               PROVE  /\ op[w].next # "addPush" => op[w].data = ManifestOf(entries[w])
                      /\ pc[w] = "write" => /\ fd'[w] = {Tmp(op[w].file)}
                                           /\ fs'[Tmp(op[w].file)] = Empty
                      /\ pc[w] = "rename" => fs'[Tmp(op[w].file)] = op[w].data
      BY <2>0 DEF SaveInv, ManifestOf, Tmp, Empty
  <2>1. Running(w)
        BY DEF Saving, Running, Steps
  <2>2. Tmp(op[w].file) \in File /\ Tmp(op[w].file)[1] \notin Name
        BY <1>1, <2>1, OpType, VaultTarget, TargetFiles DEF WriterInv
  <2>3. /\ op[w].next # "addPush" => op[w].data = ManifestOf(entries[w])
        /\ pc[w] = "write" => /\ fd[w] = {Tmp(op[w].file)}
                             /\ fs[Tmp(op[w].file)] = Empty
        /\ pc[w] = "rename" => fs[Tmp(op[w].file)] = op[w].data
        BY DEF WriterInv, SaveInv
  <2>4. pc[w] = "write" => fd'[w] = {Tmp(op[w].file)}
    <3> SUFFICES ASSUME pc[w] = "write" PROVE fd'[w] = {Tmp(op[w].file)}
        OBVIOUS
    <3>1. Tmp(op[w].file) \in fd'[w]
          BY <2>2, <2>3
    <3>2. ASSUME NEW f \in fd'[w] PROVE f = Tmp(op[w].file)
      <4>1. f[1] = op[w].file[1] /\ (f[1] \notin Name => f = Tmp(op[w].file))
            BY <1>1 DEF StreamInv, Tmp
      <4>2. op[w].file[1] \notin Name
            BY <1>1, <2>1, VaultTarget
      <4> QED
            BY <4>1, <4>2
    <3> QED
          BY <3>1, <3>2
  <2> QED
        BY <2>2, <2>3, <2>4
<1> QED
      BY <1>4, <1>5, <1>6, <1>7, <1>8

\* The same, for a step of the writer itself.
LEMMA WriterStep ==
  ASSUME SingleWriter, WriterInv, NEW p \in Writer, Step(p)
  PROVE  NamesAndIdsUnique' /\ ListInv' /\ EntryInv' /\ PresentInv' /\ SaveInv'
<1> USE DistinctFiles
<1> DEFINE Cur == entries[p] = IF Saving(p) /\ op[p].next = "addSaved"
                               THEN Listed \cup {op[p].entry}
                               ELSE IF Saving(p) /\ op[p].next = "delSaved"
                               THEN Listed \ {op[p].entry}
                               ELSE Listed
           New == op[p].cmd = "add" /\ pc[p] # "addSaved" =>
                    \A e \in Listed : e.id # op[p].entry.id /\ e.name # op[p].entry.name
           Old == op[p].next = "extDone" \/ (Saving(p) /\ op[p].next = "delSaved") =>
                    op[p].entry \in Listed
           Gone == pc[p] = "delSaved" => \A e \in Listed : e.id # op[p].entry.id
           There == pc[p] = "addPush" \/ (Saving(p) /\ op[p].next = "addSaved") =>
                      fs[Obj(op[p].entry.id)] # Absent
           Bytes == Saving(p) /\ op[p].next # "extDone" =>
                      /\ op[p].next # "addPush" => op[p].data = ManifestOf(entries[p])
                      /\ pc[p] = "write" => /\ fd[p] = {Tmp(op[p].file)}
                                           /\ fs[Tmp(op[p].file)] = Empty
                      /\ pc[p] = "rename" => fs[Tmp(op[p].file)] = op[p].data
           Objects == \A e \in Listed : fs[Obj(e.id)] # Absent
<1>1. p \in Proc /\ \A q \in Writer : q = p
      BY ConstantsAssumption DEF SingleWriter
<1>2. /\ Running(p)
      /\ op[p] \in Op
      /\ op[p].entry \in Entry /\ op[p].entry.id \in Id
      /\ op[p].file \in Target /\ op[p].file \in File /\ Tmp(op[p].file) \in File
      /\ Obj(op[p].entry.id) \in File
      BY <1>1, StepFacts
<1>3. Cur /\ New /\ Old /\ Gone /\ There /\ Bytes /\ Objects
      BY <1>2 DEF WriterInv, ListInv, EntryInv, PresentInv, SaveInv, Running, Steps
<1>4. SUFFICES /\ NamesAndIdsUnique'
               /\ pc'[p] # "closed" => Cur'
               /\ Running(p)' => New' /\ Old' /\ Gone'
               /\ There' /\ Bytes' /\ Objects'
      BY <1>1 DEF ListInv, EntryInv, PresentInv, SaveInv, Obj, Absent, Tmp, ManifestOf, Empty
<1>5. /\ fs \in [File -> FileData]
      /\ fd \in [Proc -> SUBSET File]
      /\ pc \in [Proc -> {"closed", "ready"} \cup Steps]
      /\ op \in [Proc -> Op \cup {NoOp}]
      /\ entries \in [Proc -> SUBSET Entry]
      /\ Listed \subseteq Entry
      /\ \A e \in Listed : e.id \in Id
      BY ListedType DEF WriterInv, TypeOK, Entry
<1>6. /\ op[p].next \in {"addPush", "addSaved"} <=> op[p].cmd = "add"
      /\ op[p].next = "extDone" => op[p].cmd = "extract"
      /\ pc[p] = "addRead" => op[p].next = "addPush"
      /\ pc[p] \in {"addPush", "addSaved", "extDone", "delSaved"} => op[p].next = pc[p]
      /\ op[p].next \in {"addPush", "addSaved", "extDone", "delSaved"}
      BY <1>1, <1>2 DEF WriterInv, PhaseInv, Op
<1>7. \A e1, e2 \in Listed : (e1.name = e2.name \/ e1.id = e2.id) => e1 = e2
      BY DEF WriterInv, NamesAndIdsUnique
<1>8. ASSUME Listed' = Listed PROVE NamesAndIdsUnique'
      BY <1>7, <1>8 DEF NamesAndIdsUnique
<1>9. ASSUME Listed' = Listed,
             \A id \in Id : fs'[Obj(id)] # fs[Obj(id)] => fs'[Obj(id)] # Absent
      PROVE  Objects'
      BY <1>3, <1>5, <1>9 DEF Obj, Absent
<1>10. CASE ReadSource(p)
  <2>1. Listed' = Listed /\ fs' = fs /\ entries' = entries
        BY <1>10 DEF ReadSource, Listed
  <2>2. CASE fs[op[p].user].kind = "plain"
    <3>1. /\ pc'[p] = "open" /\ op'[p].next = "addPush" /\ op'[p].cmd = "add"
          /\ op'[p].entry = op[p].entry
          BY <1>1, <1>2, <1>5, <1>6, <1>10, <2>2 DEF ReadSource, Op
    <3> QED
          BY <1>3, <1>6, <1>8, <1>9, <1>10, <2>1, <3>1 DEF Saving, Running, Steps, ReadSource
  <2>3. CASE fs[op[p].user].kind # "plain"
    <3>1. pc'[p] = "ready"
          BY <1>1, <1>5, <1>10, <2>3 DEF ReadSource, Finish
    <3> QED
          BY <1>3, <1>6, <1>8, <1>9, <1>10, <2>1, <3>1 DEF Saving, Running, Steps, ReadSource
  <2> QED
        BY <2>2, <2>3
<1>11. CASE OpenTmp(p)
  <2>1. /\ pc[p] = "open" /\ pc'[p] = "write" /\ op' = op /\ entries' = entries
        /\ fd'[p] = {Tmp(op[p].file)}
        /\ fs' = [fs EXCEPT ![Tmp(op[p].file)] = Empty]
        BY <1>1, <1>5, <1>11 DEF OpenTmp
  <2>2. /\ Tmp(op[p].file) # Manifest
        /\ \A id \in Id : Obj(id) # Tmp(op[p].file)
        BY <1>2, TmpNotSaved
  <2>3. Listed' = Listed /\ \A id \in Id : fs'[Obj(id)] = fs[Obj(id)]
        BY <1>5, <2>1, <2>2 DEF Listed
  <2>4. fs'[Tmp(op[p].file)] = Empty
        BY <1>2, <1>5, <2>1
  <2> QED
        BY <1>2, <1>3, <1>8, <1>9, <2>1, <2>3, <2>4 DEF Saving, Running, Steps
<1>12. CASE WriteTmp(p)
  <2>1. /\ pc[p] = "write" /\ pc'[p] = "rename" /\ op' = op /\ entries' = entries
        BY <1>1, <1>5, <1>12 DEF WriteTmp
  <2>2. /\ Tmp(op[p].file) # Manifest
        /\ \A id \in Id : Obj(id) # Tmp(op[p].file)
        BY <1>2, TmpNotSaved
  <2>3. \A f \in File : f[1] \notin Name /\ fs'[f] # fs[f] => f = Tmp(op[p].file)
        BY <1>1, <1>12, <2>1, WriterSteps DEF RenameTmp, Unwind, RemoveObject
  <2>4. Listed' = Listed /\ \A id \in Id : fs'[Obj(id)] = fs[Obj(id)]
    <3>1. \A id \in Id : Obj(id) \in File
          BY TargetFiles DEF Target
    <3> QED
          BY <2>2, <2>3, <3>1 DEF Listed
  <2>5. op[p].next # "extDone" => fs'[Tmp(op[p].file)] = op[p].data
    <3> SUFFICES ASSUME op[p].next # "extDone" PROVE fs'[Tmp(op[p].file)] = op[p].data
        OBVIOUS
    <3>1. fd[p] = {Tmp(op[p].file)} /\ fs[Tmp(op[p].file)] = Empty
          BY <1>3, <2>1 DEF Saving
    <3>2. fs' = [f \in File |-> IF f \in fd[p] THEN op[p].data ELSE fs[f]]
          BY <1>12, <3>1 DEF WriteTmp
    <3> QED
          BY <1>2, <3>1, <3>2
  <2> QED
        BY <1>2, <1>3, <1>8, <1>9, <2>1, <2>4, <2>5 DEF Saving, Running, Steps
<1>13. CASE WriteFails(p)
  <2>1. /\ Saving(p) /\ pc'[p] = "unwind" /\ op' = op /\ entries' = entries
        BY <1>1, <1>5, <1>13 DEF WriteFails, Saving
  <2>2. /\ Tmp(op[p].file) # Manifest
        /\ \A id \in Id : Obj(id) # Tmp(op[p].file)
        BY <1>2, TmpNotSaved
  <2>3. \A f \in File : f[1] \notin Name /\ fs'[f] # fs[f] => f = Tmp(op[p].file)
        BY <1>1, <1>2, <1>5, <1>13, VaultStreams DEF WriteFails
  <2>4. Listed' = Listed /\ \A id \in Id : fs'[Obj(id)] = fs[Obj(id)]
    <3>1. \A id \in Id : Obj(id) \in File
          BY TargetFiles DEF Target
    <3> QED
          BY <2>2, <2>3, <3>1 DEF Listed
  <2>5. Saving(p)' /\ pc[p] \notin {"addSaved", "delSaved", "addPush"}
        BY <2>1 DEF Saving
  <2>6. Cur'
        BY <1>3, <2>1, <2>4, <2>5
  <2>7. New' /\ Old' /\ Gone'
        BY <1>3, <2>1, <2>4, <2>5
  <2>8. There' /\ Bytes'
        BY <1>2, <1>3, <2>1, <2>4, <2>5
  <2> QED
        BY <1>8, <1>9, <2>4, <2>6, <2>7, <2>8
<1>14. CASE RenameTmp(p)
  <2>1. /\ pc[p] = "rename" /\ pc'[p] = op[p].next /\ op' = op /\ entries' = entries
        /\ fs' = [fs EXCEPT ![op[p].file] = fs[Tmp(op[p].file)],
                            ![Tmp(op[p].file)] = Absent]
        /\ fs[Tmp(op[p].file)] # Absent
        BY <1>1, <1>5, <1>14 DEF RenameTmp
  <2>2. /\ Tmp(op[p].file) # Manifest /\ Tmp(op[p].file) # op[p].file
        /\ \A id \in Id : Obj(id) # Tmp(op[p].file)
        BY <1>2, TmpNotSaved, TargetFiles
  <2>3. \A id \in Id : fs'[Obj(id)] # fs[Obj(id)] => fs'[Obj(id)] # Absent
    <3>1. \A id \in Id : Obj(id) \in File
          BY TargetFiles DEF Target
    <3> QED
          BY <1>5, <2>1, <2>2, <3>1
  <2>4. ~ Saving(p)' /\ pc'[p] # "ready" /\ pc'[p] # "closed"
        BY <1>6, <2>1 DEF Saving
  <2>5. CASE op[p].next \in {"addPush", "extDone"}
    <3>1. Listed' = Listed
          BY <1>1, <2>5, ListedSteps
    <3>2. Cur'
          BY <1>3, <2>1, <2>4, <2>5, <3>1
    <3>3. New' /\ Old' /\ Gone'
          BY <1>3, <2>1, <2>4, <2>5, <3>1
    <3>4. There' /\ Bytes'
      <4>1. op[p].next = "addPush" => op[p].file = Obj(op[p].entry.id)
            BY <1>1, <1>2 DEF WriterInv, PhaseInv
      <4>2. fs'[op[p].file] = fs[Tmp(op[p].file)]
            BY <1>2, <1>5, <2>1, <2>2
      <4> QED
            BY <2>1, <2>4, <2>5, <4>1, <4>2 DEF Obj, Absent
    <3> QED
          BY <1>8, <1>9, <2>3, <3>1, <3>2, <3>3, <3>4
  <2>6. CASE op[p].next \in {"addSaved", "delSaved"}
    <3>1. op[p].file = Manifest
          BY <1>1, <1>2, <2>6 DEF WriterInv, PhaseInv
    <3>2. fs'[Manifest] = ManifestOf(entries[p])
          BY <1>2, <1>3, <1>5, <2>1, <2>2, <2>6, <3>1 DEF Saving
    <3>3. Listed' = entries[p]
          BY <3>2 DEF Listed, ManifestOf
    <3>4. \A id \in Id : fs'[Obj(id)] = fs[Obj(id)]
      <4>1. \A id \in Id : Obj(id) \in File
            BY TargetFiles DEF Target
      <4> QED
            BY <1>5, <2>1, <2>2, <3>1, <4>1
    <3>5. Cur' /\ There' /\ Bytes'
          BY <2>1, <2>4, <2>6, <3>3
    <3>6. CASE op[p].next = "addSaved"
      <4>1. Listed' = Listed \cup {op[p].entry}
            BY <1>3, <2>1, <3>3, <3>6 DEF Saving
      <4>2. \A e \in Listed : e.id # op[p].entry.id /\ e.name # op[p].entry.name
            BY <1>3, <1>6, <2>1, <3>6
      <4>3. NamesAndIdsUnique'
            BY <1>7, <4>1, <4>2 DEF NamesAndIdsUnique
      <4>4. New' /\ Old' /\ Gone'
            BY <1>6, <2>1, <2>4, <3>6
      <4>5. Objects'
        <5>1. fs[Obj(op[p].entry.id)] # Absent
              BY <1>3, <2>1, <3>6 DEF Saving
        <5> QED
              BY <1>2, <1>3, <1>5, <3>4, <4>1, <5>1 DEF Obj, Absent
      <4> QED
            BY <3>5, <4>3, <4>4, <4>5
    <3>7. CASE op[p].next = "delSaved"
      <4>1. Listed' = Listed \ {op[p].entry} /\ op[p].entry \in Listed
            BY <1>3, <2>1, <3>3, <3>7 DEF Saving
      <4>2. NamesAndIdsUnique'
            BY <1>7, <4>1 DEF NamesAndIdsUnique
      <4>3. New' /\ Old' /\ Gone'
            BY <1>6, <1>7, <2>1, <2>4, <3>7, <4>1
      <4>4. Objects'
            BY <1>3, <1>5, <3>4, <4>1 DEF Obj, Absent
      <4> QED
            BY <3>5, <4>2, <4>3, <4>4
    <3> QED
          BY <2>6, <3>6, <3>7
  <2> QED
        BY <1>6, <2>5, <2>6
<1>15. CASE Unwind(p)
  <2>1. /\ pc[p] = "unwind" /\ pc'[p] = "ready" /\ entries'[p] = RolledBack(p)
        BY <1>1, <1>5, <1>15 DEF Unwind, Finish
  <2>2. ~ Running(p)' /\ ~ Saving(p)' /\ Saving(p)
        BY <2>1 DEF Running, Steps, Saving
  <2>3. Listed' = Listed
        BY <1>1, <2>1, ListedSteps DEF RenameTmp
  <2>4. entries'[p] = Listed
    <3>1. CASE op[p].next = "addSaved"
      <4>1. op[p].entry \notin Listed
            BY <1>3, <1>6, <2>1, <3>1
      <4>2. entries[p] = Listed \cup {op[p].entry}
            BY <1>3, <2>2, <3>1
      <4> QED
            BY <2>1, <3>1, <4>1, <4>2 DEF RolledBack
    <3>2. CASE op[p].next = "delSaved"
      <4>1. op[p].entry \in Listed
            BY <1>3, <2>2, <3>2
      <4>2. entries[p] = Listed \ {op[p].entry}
            BY <1>3, <2>2, <3>2
      <4> QED
            BY <2>1, <3>2, <4>1, <4>2 DEF RolledBack
    <3>3. CASE op[p].next \notin {"addSaved", "delSaved"}
          BY <1>3, <2>1, <3>3 DEF RolledBack
    <3> QED
          BY <3>1, <3>2, <3>3
  <2>5. Objects'
    <3>1. \A id \in Id : fs'[Obj(id)] = fs[Obj(id)]
                         \/ (op[p].next = "addSaved" /\ id = op[p].entry.id)
      <4>1. \A id \in Id : Obj(id) \in File
            BY TargetFiles DEF Target
      <4> QED
            BY <1>2, <1>5, <1>15, <4>1 DEF Unwind, Unlink
    <3>2. op[p].next = "addSaved" => \A e \in Listed : e.id # op[p].entry.id
          BY <1>3, <1>6, <2>1
    <3> QED
          BY <1>3, <1>5, <2>3, <3>1, <3>2 DEF Obj, Absent
  <2> QED
        BY <1>8, <2>1, <2>2, <2>3, <2>4, <2>5
<1>16. CASE PushEntry(p)
  <2>1. /\ pc[p] = "addPush" /\ op[p].next = "addPush" /\ op[p].cmd = "add"
        BY <1>6, <1>16 DEF PushEntry
  <2>2. /\ pc'[p] = "open" /\ fs' = fs
        /\ entries'[p] = entries[p] \cup {op[p].entry}
        BY <1>1, <1>5, <1>16 DEF PushEntry, SaveManifest
  <2>3. /\ op'[p].entry = op[p].entry /\ op'[p].next = "addSaved" /\ op'[p].cmd = "add"
        /\ op'[p].data = ManifestOf(entries'[p])
    <3>1. op'[p] = [[op[p] EXCEPT !.next = "addSaved"]
                      EXCEPT !.file = Manifest, !.data = ManifestOf(entries'[p])]
          BY <1>1, <1>5, <1>16, <2>2 DEF PushEntry, SaveManifest
    <3> QED
          BY <1>2, <2>1, <3>1 DEF Op
  <2>4. Listed' = Listed /\ Saving(p)' /\ ~ Saving(p)
        BY <2>1, <2>2 DEF Listed, Saving
  <2>5. Cur' /\ New' /\ Old' /\ Gone'
        BY <1>3, <2>1, <2>2, <2>3, <2>4
  <2>6. There' /\ Bytes'
        BY <1>3, <2>1, <2>2, <2>3, <2>4 DEF Obj, Absent
  <2> QED
        BY <1>8, <1>9, <2>2, <2>4, <2>5, <2>6
<1>17. CASE RemoveSource(p)
  <2>1. /\ pc[p] = "addSaved" /\ pc'[p] = "ready" /\ entries' = entries
        BY <1>1, <1>5, <1>17 DEF RemoveSource, Finish
  <2>2. ~ Running(p)' /\ ~ Saving(p)' /\ ~ Saving(p)
        BY <2>1 DEF Running, Steps, Saving
  <2>3. Listed' = Listed
        BY <1>1, <2>1, ListedSteps DEF RenameTmp
  <2>4. \A id \in Id : fs'[Obj(id)] = fs[Obj(id)]
    <3>1. \A id \in Id : Obj(id) \in File /\ Obj(id)[1] \notin Name
          BY TargetFiles DEF Target
    <3> QED
          BY <1>1, <2>1, <3>1, WriterSteps
             DEF OpenTmp, WriteTmp, WriteFails, RenameTmp, Unwind, RemoveObject
  <2> QED
        BY <1>3, <1>8, <1>9, <2>1, <2>2, <2>3, <2>4
<1>18. CASE RemoveObject(p)
  <2>1. /\ pc[p] = "delSaved" /\ pc'[p] = "ready" /\ entries' = entries
        BY <1>1, <1>5, <1>18 DEF RemoveObject, Finish
  <2>2. ~ Running(p)' /\ ~ Saving(p)' /\ ~ Saving(p)
        BY <2>1 DEF Running, Steps, Saving
  <2>3. Listed' = Listed
        BY <1>1, <2>1, ListedSteps DEF RenameTmp
  <2>4. Objects'
    <3>1. \A id \in Id : fs'[Obj(id)] = fs[Obj(id)] \/ id = op[p].entry.id
      <4>1. \A id \in Id : Obj(id) \in File
            BY TargetFiles DEF Target
      <4> QED
            BY <1>2, <1>5, <1>18, <4>1 DEF RemoveObject, Unlink
    <3> QED
          BY <1>3, <1>5, <2>1, <2>3, <3>1 DEF Obj, Absent
  <2> QED
        BY <1>3, <1>8, <2>1, <2>2, <2>3, <2>4
<1>19. CASE AfterExtract(p)
  <2>1. /\ pc[p] = "extDone" /\ op[p].next = "extDone" /\ op[p].entry \in Listed
        /\ entries[p] = Listed /\ fs' = fs
        BY <1>3, <1>6, <1>19 DEF AfterExtract, DeleteFile, SaveManifest, Saving
  <2>2. Listed' = Listed
        BY <2>1 DEF Listed
  <2>3. CASE ~ op[p].move
    <3>1. pc'[p] = "ready" /\ entries' = entries
          BY <1>1, <1>5, <1>19, <2>3 DEF AfterExtract, Finish
    <3> QED
          BY <1>8, <1>9, <2>1, <2>2, <3>1 DEF Running, Saving, Steps
  <2>4. CASE op[p].move
    <3>1. /\ pc'[p] = "open" /\ entries'[p] = entries[p] \ {op[p].entry}
          /\ op'[p].entry = op[p].entry /\ op'[p].next = "delSaved"
          /\ op'[p].cmd = op[p].cmd /\ op'[p].data = ManifestOf(entries'[p])
      <4>1. /\ pc'[p] = "open" /\ entries'[p] = entries[p] \ {op[p].entry}
            /\ op'[p] = [[op[p] EXCEPT !.next = "delSaved"]
                           EXCEPT !.file = Manifest, !.data = ManifestOf(entries'[p])]
        <5>1. DeleteFile(p, op[p].entry, op[p])
              BY <1>19, <2>4 DEF AfterExtract
        <5> QED
              BY <1>1, <1>5, <5>1 DEF DeleteFile, SaveManifest
      <4> QED
            BY <1>2, <4>1 DEF Op
    <3>2. op[p].cmd # "add"
          BY <1>6, <2>1
    <3> QED
          BY <1>8, <1>9, <2>1, <2>2, <3>1, <3>2 DEF Running, Saving, Steps
  <2> QED
        BY <2>3, <2>4
<1> QED
    BY <1>10, <1>11, <1>12, <1>13, <1>14, <1>15, <1>16, <1>17, <1>18, <1>19 DEF Step

\* A run opens or closes the vault, dies, or begins a command.
LEMMA BeginStep ==
  ASSUME SingleWriter, WriterInv, TypeOK', NEW p \in Proc,
         OpenVault(p) \/ CloseVault(p) \/ Crash(p) \/ Command(p)
  PROVE  WriterInv'
<1> USE DistinctFiles
<1> DEFINE Phase ==
      /\ op[p].next = "addPush" => op[p].file = Obj(op[p].entry.id)
      /\ op[p].next = "extDone" => op[p].file = op[p].user
      /\ op[p].next \in {"addSaved", "delSaved"} => op[p].file = Manifest
      /\ op[p].next # "extDone" \/ op[p].move => p \in Writer
      /\ op[p].next \in {"addPush", "addSaved"} <=> op[p].cmd = "add"
      /\ op[p].next = "extDone" => op[p].cmd = "extract"
      /\ pc[p] = "addRead" => op[p].next = "addPush"
      /\ pc[p] \in {"addPush", "addSaved", "extDone", "delSaved"} => op[p].next = pc[p]
<1> DEFINE Cur == entries[p] = IF Saving(p) /\ op[p].next = "delSaved"
                               THEN Listed \ {op[p].entry} ELSE Listed
           New == op[p].cmd = "add" =>
                    \A e \in Listed : e.id # op[p].entry.id /\ e.name # op[p].entry.name
           Old == op[p].next = "extDone" \/ (Saving(p) /\ op[p].next = "delSaved") =>
                    op[p].entry \in Listed
           Bytes == Saving(p) /\ op[p].next # "extDone" =>
                      op[p].data = ManifestOf(entries[p])
           Begun == /\ pc[p] \in {"addRead", "open", "ready", "closed"}
                    /\ pc[p] = "open" => op[p].next \in {"extDone", "delSaved"}
                    /\ Running(p) => Phase
                    /\ p \in Writer => (pc[p] # "closed" => Cur) /\ Bytes
                    /\ p \in Writer => (Running(p) => New /\ Old)
<1>1. /\ fs \in [File -> FileData]
      /\ fd \in [Proc -> SUBSET File]
      /\ pc \in [Proc -> {"closed", "ready"} \cup Steps]
      /\ op \in [Proc -> Op \cup {NoOp}]
      /\ entries \in [Proc -> SUBSET Entry]
      /\ Listed \subseteq Entry
      /\ \A e \in Listed : e.id \in Id
      BY ListedType DEF WriterInv, TypeOK, Entry
<1>2. /\ fs' = fs
      /\ \A q \in Proc \ {p} : pc'[q] = pc[q] /\ op'[q] = op[q] /\ entries'[q] = entries[q]
                               /\ fd'[q] = fd[q]
      BY <1>1 DEF OpenVault, CloseVault, Crash, Command, AddFile, ExtractFile, RemoveFile,
                  DeleteFile, SaveManifest, Finish
<1>3. fd'[p] = {}
  <2>1. ~ Crash(p) => fd[p] = {}
    <3>1. ~ Crash(p) => pc[p] # "write"
          BY DEF OpenVault, CloseVault, Command, AddFile, ExtractFile, RemoveFile, Idle
    <3> QED
          BY <1>1, <3>1 DEF WriterInv, StreamInv
  <2> QED
        BY <1>1, <2>1 DEF OpenVault, CloseVault, Crash, Command, AddFile, ExtractFile,
                          RemoveFile, DeleteFile, SaveManifest
<1>4. Listed' = Listed
      BY <1>2 DEF Listed
<1>5. Begun' => WriterInv'
  <2> SUFFICES ASSUME Begun' PROVE WriterInv'
      OBVIOUS
  <2>1. ManifestReadable' /\ NamesAndIdsUnique'
        BY <1>2, <1>4 DEF WriterInv, ManifestReadable, NamesAndIdsUnique
  <2>2. StreamInv'
        BY <1>2, <1>3 DEF WriterInv, StreamInv, Tmp
  <2>3. PhaseInv'
    <3> SUFFICES ASSUME NEW q \in Proc \ {p}, Running(q)
                 PROVE  /\ op[q].next = "addPush" => op[q].file = Obj(op[q].entry.id)
                        /\ op[q].next = "extDone" => op[q].file = op[q].user
                        /\ op[q].next \in {"addSaved", "delSaved"} => op[q].file = Manifest
                        /\ op[q].next # "extDone" \/ op[q].move => q \in Writer
                        /\ op[q].next \in {"addPush", "addSaved"} <=> op[q].cmd = "add"
                        /\ op[q].next = "extDone" => op[q].cmd = "extract"
                        /\ pc[q] = "addRead" => op[q].next = "addPush"
                        /\ pc[q] \in {"addPush", "addSaved", "extDone", "delSaved"} =>
                             op[q].next = pc[q]
      <4>1. \A q \in Proc \ {p} : Running(q)' <=> Running(q)
            BY <1>2 DEF Running
      <4> QED
            BY <1>2, <4>1 DEF PhaseInv, Obj, Manifest
    <3> QED
          BY DEF WriterInv, PhaseInv
  <2>4. \A w \in Writer : w \in Proc /\ (w = p \/ p \notin Writer)
        BY ConstantsAssumption DEF SingleWriter
  <2>5. CASE p \notin Writer
    <3>1. /\ ListInv' /\ EntryInv' /\ PresentInv' /\ SaveInv'
          BY <1>2, <2>2, <2>4, <2>5, VaultUntouched
    <3> QED
          BY <2>1, <2>2, <2>3, <3>1 DEF WriterInv
  <2>6. CASE p \in Writer
    <3>1. pc'[p] \in {"addRead", "open", "ready", "closed"}
          OBVIOUS
    <3>2. ListInv'
          BY <2>4, <2>6, <3>1 DEF ListInv, Saving
    <3>3. EntryInv'
          BY <2>4, <2>6, <3>1 DEF EntryInv
    <3>4. PresentInv'
          BY <1>2, <1>4, <2>4, <2>6, <3>1 DEF WriterInv, PresentInv, Saving, Obj, Absent
    <3>5. SaveInv'
          BY <2>4, <2>6, <3>1 DEF SaveInv, ManifestOf
    <3> QED
          BY <2>1, <2>2, <2>3, <3>2, <3>3, <3>4, <3>5 DEF WriterInv
  <2> QED
        BY <2>5, <2>6
<1>6. p \in Writer /\ pc[p] = "ready" => entries[p] = Listed
      BY DEF WriterInv, ListInv, Saving
<1>7. CASE OpenVault(p) \/ CloseVault(p) \/ Crash(p)
  <2>1. /\ pc'[p] \in {"ready", "closed"}
        /\ pc'[p] = "ready" => entries'[p] = Listed
        BY <1>1, <1>7 DEF OpenVault, CloseVault, Crash, Finish
  <2> QED
        BY <1>4, <1>5, <2>1 DEF Running, Saving, Steps
<1>8. ASSUME NEW src \in UserPath, NEW n \in UserPath, NEW move \in BOOLEAN,
             AddFile(p, src, n, move)
      PROVE  WriterInv'
  <2>1. /\ p \in Writer /\ pc[p] = "ready" /\ pc'[p] = "addRead" /\ entries' = entries
        /\ NameAvailable(p, n)
        BY <1>1, <1>8 DEF AddFile, Idle
  <2>2. PICK id \in Id :
          /\ Fresh(id)
          /\ op'[p] = [cmd |-> "add",
                       entry |-> [id |-> id, name |-> n, size |-> Size[fs[src].content]],
                       user |-> src, move |-> move,
                       file |-> Obj(id), data |-> Absent, next |-> "addPush"]
        BY <1>1, <1>8 DEF AddFile
  <2>3. /\ op'[p].next = "addPush" /\ op'[p].cmd = "add" /\ op'[p].file = Obj(id)
        /\ op'[p].entry.id = id /\ op'[p].entry.name = n
        BY <2>2
  <2>4. \A e \in Listed : e.id # id /\ e.name # n
    <3>1. \A e \in Listed : e.name # n
          BY <1>6, <2>1 DEF NameAvailable, Named
    <3>2. \A e \in Listed : e.id # id
          BY <2>2 DEF Fresh, WriterInv, PresentInv
    <3> QED
          BY <3>1, <3>2
  <2> QED
        BY <1>4, <1>5, <1>6, <2>1, <2>3, <2>4 DEF Saving, Obj
<1>9. ASSUME NEW n \in UserPath, NEW output \in UserPath, NEW move \in BOOLEAN,
             ExtractFile(p, n, output, move)
      PROVE  WriterInv'
  <2>1. /\ move => p \in Writer
        /\ pc[p] = "ready" /\ pc'[p] = "open" /\ entries' = entries
        BY <1>1, <1>9 DEF ExtractFile, Idle
  <2>2. PICK e \in Named(entries[p], n), c \in Content :
          op'[p] = [cmd |-> "extract", entry |-> e, user |-> output, move |-> move,
                    file |-> output, data |-> Plain(c), next |-> "extDone"]
        BY <1>1, <1>9 DEF ExtractFile
  <2>3. /\ op'[p].next = "extDone" /\ op'[p].cmd = "extract" /\ op'[p].file = op'[p].user
        /\ op'[p].entry = e /\ op'[p].move = move
        BY <2>2
  <2>4. e \in entries[p]
        BY DEF Named
  <2> QED
        BY <1>4, <1>5, <1>6, <2>1, <2>3, <2>4 DEF Saving
<1>10. ASSUME NEW n \in UserPath, RemoveFile(p, n)
       PROVE  WriterInv'
  <2>1. p \in Writer /\ pc[p] = "ready"
        BY <1>10 DEF RemoveFile, Idle
  <2>2. PICK e \in Named(entries[p], n) :
          DeleteFile(p, e, [cmd |-> "remove", entry |-> e, user |-> n, move |-> TRUE,
                            file |-> Manifest, data |-> Absent, next |-> "delSaved"])
        BY <1>10 DEF RemoveFile
  <2>3. /\ pc'[p] = "open" /\ entries'[p] = entries[p] \ {e}
        /\ op'[p].next = "delSaved" /\ op'[p].cmd = "remove" /\ op'[p].file = Manifest
        /\ op'[p].entry = e /\ op'[p].data = ManifestOf(entries[p] \ {e})
        BY <1>1, <2>2 DEF DeleteFile, SaveManifest
  <2>4. e \in entries[p]
        BY DEF Named
  <2> QED
        BY <1>4, <1>5, <1>6, <2>1, <2>3, <2>4 DEF Saving, ManifestOf, Manifest
<1> QED
    BY <1>7, <1>8, <1>9, <1>10 DEF Command

\* The user touches no file of the vault.
LEMMA UserStep ==
  ASSUME WriterInv, TypeOK', NEW q \in UserPath, UserEdit(q)
  PROVE  WriterInv'
<1> USE DistinctFiles
<1>1. /\ \A f \in File : f[1] \notin Name => fs'[f] = fs[f]
      /\ \A p \in Proc : /\ fd'[p] \subseteq fd[p]
                         /\ \A f \in File : f[1] \notin Name => (f \in fd'[p] <=> f \in fd[p])
      /\ pc' = pc /\ op' = op /\ entries' = entries
      BY DEF UserEdit, Unlink, WriterInv, TypeOK
<1>2. StreamInv' /\ PhaseInv'
      BY <1>1 DEF WriterInv, StreamInv, PhaseInv, Running, Tmp, Obj, Manifest
<1>3. /\ ManifestReadable' /\ NamesAndIdsUnique'
      /\ ListInv' /\ EntryInv' /\ PresentInv' /\ SaveInv'
      BY <1>1, <1>2, VaultUntouched, ConstantsAssumption
<1> QED
    BY <1>2, <1>3 DEF WriterInv

\* One step of the whole system.
LEMMA WriterInvStep ==
  ASSUME SingleWriter, WriterInv, [Next]_vars
  PROVE  WriterInv'
<1>1. TypeOK'
      BY StepTyped DEF WriterInv
<1>2. ASSUME NEW p \in Proc, Step(p)
      PROVE  WriterInv'
  <2>1. StreamInv' /\ PhaseInv'
        BY <1>2, StreamStep, PhaseStep
  <2>2. CASE p \in Writer
        BY <1>1, <1>2, <2>1, <2>2, ManifestStep, WriterStep DEF WriterInv
  <2>3. CASE p \notin Writer
    <3>1. /\ \A w \in Writer : w \in Proc \ {p}
          /\ \A f \in File : f[1] \notin Name =>
               fs'[f] = fs[f] /\ \A w \in Proc : f \in fd'[w] <=> f \in fd[w]
          BY <1>2, <2>3, ReaderSteps, ConstantsAssumption
    <3>2. /\ ManifestReadable' /\ NamesAndIdsUnique'
          /\ ListInv' /\ EntryInv' /\ PresentInv' /\ SaveInv'
          BY <1>2, <2>1, <3>1, StepFacts, VaultUntouched
    <3> QED
          BY <1>1, <2>1, <3>2 DEF WriterInv
  <2> QED
        BY <2>2, <2>3
<1>3. ASSUME NEW p \in Proc, OpenVault(p) \/ CloseVault(p) \/ Crash(p) \/ Command(p)
      PROVE  WriterInv'
      BY <1>1, <1>3, BeginStep
<1>4. ASSUME NEW q \in UserPath, UserEdit(q)
      PROVE  WriterInv'
      BY <1>1, <1>4, UserStep
<1>5. CASE UNCHANGED vars
  <2>1. Listed' = Listed
        BY <1>5 DEF vars, Listed
  <2>2. \A f \in File : fs'[f] = fs[f]
        BY <1>5 DEF vars
  <2>3. StreamInv' /\ PhaseInv'
        BY <1>5 DEF vars, WriterInv, StreamInv, PhaseInv, Running, Tmp, Obj, Manifest
  <2>4. /\ ManifestReadable' /\ NamesAndIdsUnique'
        /\ ListInv' /\ EntryInv' /\ PresentInv' /\ SaveInv'
        BY <1>5, <2>3, VaultUntouched DEF vars
  <2> QED
        BY <1>1, <2>3, <2>4 DEF WriterInv
<1> QED
    BY <1>2, <1>3, <1>4, <1>5 DEF Next

\* A new vault satisfies the invariant.
LEMMA WriterInvInit == Init => WriterInv
<1> SUFFICES ASSUME Init PROVE WriterInv
    OBVIOUS
<1>1. TypeOK
      BY InitTyped
<1>2. /\ \A p \in Proc : fd[p] = {} /\ pc[p] = "closed"
      /\ \A p \in Writer : p \in Proc
      BY ConstantsAssumption DEF Init
<1>3. fs[Manifest] \in {Absent, ManifestOf({})}
      BY DistinctFiles DEF Init
<1>4. Listed = {} /\ ManifestReadable
      BY <1>3 DEF Listed, ManifestReadable, Absent, ManifestOf
<1>5. \A p \in Proc : ~ Running(p) /\ ~ Saving(p)
      BY <1>2 DEF Running, Saving, Steps
<1> QED
    BY <1>1, <1>2, <1>4, <1>5
       DEF WriterInv, NamesAndIdsUnique, StreamInv, PhaseInv, ListInv, EntryInv, PresentInv,
           SaveInv

\* With one writing run the invariant holds for ever.
LEMMA WriterInvHolds == ASSUME SingleWriter PROVE Spec => []WriterInv
BY WriterInvInit, WriterInvStep, PTL DEF Spec

\* With one writing run, whatever the readers, the user and the faults do, the
\* manifest is never missing pieces: every constructor can load it, at every
\* instant of save_manifest and after a crash in it.
THEOREM ManifestAlwaysReadable == ASSUME SingleWriter PROVE Spec => []ManifestReadable
<1>1. WriterInv => ManifestReadable
      BY DEF WriterInv
<1> QED
    BY <1>1, WriterInvHolds, PTL

\* With one writing run no two entries share a name or an object.
THEOREM NamesAndIdsAlwaysUnique == ASSUME SingleWriter PROVE Spec => []NamesAndIdsUnique
<1>1. WriterInv => NamesAndIdsUnique
      BY DEF WriterInv
<1> QED
    BY <1>1, WriterInvHolds, PTL

\* The only writing run never works on a stale list: between two commands, also
\* after one that threw, entries_ is what the disk has.
THEOREM MemoryAlwaysMatchesDisk == ASSUME SingleWriter PROVE Spec => []MemoryMatchesDisk
<1>1. WriterInv => MemoryMatchesDisk
      BY DEF WriterInv, ListInv, MemoryMatchesDisk, Idle, Saving
<1> QED
    BY <1>1, WriterInvHolds, PTL

\* With one writing run no command makes another's entry disappear.
THEOREM EntriesStayUntilRequest == ASSUME SingleWriter PROVE Spec => EntriesLeaveOnlyOnRequest
<1> DEFINE Requested == \A e \in Listed \ Listed' :
                          \E p \in Writer :
                             Running(p) /\ op[p].next = "delSaved" /\ op[p].entry = e
<1>1. ASSUME WriterInv, [Next]_vars
      PROVE  [Requested]_vars
  <2>1. ASSUME NEW p \in Proc, Step(p)
        PROVE  Requested
    <3>1. CASE Listed' = Listed
          BY <3>1
    <3>2. CASE /\ RenameTmp(p) /\ p \in Writer /\ op[p].next \in {"addSaved", "delSaved"}
               /\ Listed' = entries[p]
      <4>1. Saving(p) /\ Running(p) /\ pc[p] # "closed"
            BY <3>2 DEF RenameTmp, Saving, Running, Steps
      <4>2. entries[p] = IF op[p].next = "addSaved" THEN Listed \cup {op[p].entry}
                         ELSE Listed \ {op[p].entry}
            BY <1>1, <3>2, <4>1 DEF WriterInv, ListInv
      <4> QED
            BY <3>2, <4>1, <4>2
    <3> QED
          BY <1>1, <2>1, <3>1, <3>2, ListedSteps
  <2>2. ASSUME fs' = fs
        PROVE  Requested
        BY <2>2 DEF Listed
  <2>3. ASSUME NEW p \in Proc, OpenVault(p) \/ CloseVault(p) \/ Crash(p) \/ Command(p)
        PROVE  Requested
        BY <2>2, <2>3 DEF OpenVault, CloseVault, Crash, Command, AddFile, ExtractFile,
                          RemoveFile, DeleteFile, SaveManifest
  <2>4. ASSUME NEW q \in UserPath, UserEdit(q)
        PROVE  Requested
    <3>1. fs'[Manifest] = fs[Manifest]
          BY <1>1, <2>4, DistinctFiles DEF UserEdit, Unlink, WriterInv, TypeOK
    <3> QED
          BY <3>1 DEF Listed
  <2> QED
      BY <1>1, <2>1, <2>3, <2>4 DEF Next
<1> QED
    BY <1>1, WriterInvHolds, PTL DEF Spec, EntriesLeaveOnlyOnRequest
=============================================================================
