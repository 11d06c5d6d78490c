-------------------------- MODULE VaultObjectProofs --------------------------
(***************************************************************************)
(* Every entry of the manifest can be extracted, no object is left behind, *)
(* and the vault implements SafeTransfer: proofs that Vault keeps          *)
(* ObjectInv, AccountedFor and TransferInv, with one writing run and users *)
(* who leave a file alone while a command works on it.                     *)
(***************************************************************************)
EXTENDS VaultProofs

\* Files of users that are left alone are neither the vault's nor temporary.
LEMMA UserFiles ==
  ASSUME LeftAlone
  PROVE  /\ UserPath \subseteq File
         /\ \A q \in UserPath, f \in Target : Tmp(f) # q
         /\ \A q \in UserPath : q # Manifest /\ \A id \in Id : q # Obj(id)
         /\ \A f, g \in Target : Tmp(f) = Tmp(g) => f = g
<1>1. \A q \in UserPath : q \in File
      BY TargetFiles DEF Target
<1>2. \A q \in UserPath, f \in Target : Tmp(f) # q
      BY ConstantsAssumption DEF LeftAlone, Target, UserPath, Tmp, Manifest, Obj
<1>3. \A q \in UserPath : q # Manifest /\ \A id \in Id : q # Obj(id)
      BY DistinctFiles
<1>4. \A f, g \in Target : Tmp(f) = Tmp(g) => f = g
      BY DEF LeftAlone, Target, UserPath, Tmp, Manifest, Obj
<1> QED
    BY <1>1, <1>2, <1>3, <1>4

\* An object changes only when the writer puts it in place or unlinks it.
LEMMA ObjectSteps ==
  ASSUME SingleWriter, WriterInv, NEW p \in Proc, Step(p),
         NEW id \in Id, fs'[Obj(id)] # fs[Obj(id)]
  PROVE  /\ p \in Writer
         /\ id = op[p].entry.id
         /\ \/ RenameTmp(p) /\ op[p].next = "addPush" /\ fs'[Obj(id)] = op[p].data
            \/ Unwind(p) /\ op[p].next = "addSaved"
            \/ RemoveObject(p)
<1> USE StepFacts, DistinctFiles
<1>1. Obj(id) \in File /\ Obj(id)[1] \notin Name
      BY TargetFiles DEF Target
<1>2. p \in Writer
      BY <1>1, ReaderSteps
<1>3. CASE Unwind(p) /\ op[p].next = "addSaved" /\ Obj(id) = Obj(op[p].entry.id)
      BY <1>2, <1>3
<1>4. CASE RemoveObject(p) /\ Obj(id) = Obj(op[p].entry.id)
      BY <1>2, <1>4
<1>5. CASE RenameTmp(p) /\ Obj(id) = op[p].file
  <2>1. op[p].next \in {"addPush", "addSaved", "extDone", "delSaved"}
        BY DEF Op
  <2>2. op[p].next = "addPush" /\ op[p].file = Obj(op[p].entry.id)
        BY <1>5, <2>1 DEF WriterInv, PhaseInv
  <2>3. fs[Tmp(op[p].file)] = op[p].data
        BY <1>2, <1>5, <2>2 DEF WriterInv, SaveInv, Saving, RenameTmp
  <2>4. Tmp(op[p].file) # op[p].file
        BY TargetFiles
  <2>5. fs'[op[p].file] = fs[Tmp(op[p].file)]
        BY <1>5, <2>4 DEF RenameTmp, WriterInv, TypeOK
  <2> QED
        BY <1>2, <1>5, <2>2, <2>3, <2>5
<1> QED
    BY <1>1, <1>3, <1>4, <1>5, WriterSteps, TmpNotSaved

\* What a step does to a user's file: only the command's own.
LEMMA UserFileSteps ==
  ASSUME LeftAlone, WriterInv, UseInv, NEW p \in Proc, Step(p),
         NEW q \in UserPath, fs'[q] # fs[q]
  PROVE  /\ q = op[p].user /\ op[p].cmd \in {"add", "extract"}
         /\ RenameTmp(p) \/ RemoveSource(p)
<1> USE StepFacts, UserFiles
<1>1. /\ fs \in [File -> FileData]
      /\ fd \in [Proc -> SUBSET File]
      /\ q \in File
      BY DEF WriterInv, TypeOK
<1>2. /\ q # Tmp(op[p].file) /\ q # Obj(op[p].entry.id)
      /\ q \notin fd[p]
      BY DEF UseInv
<1>3. CASE OpenTmp(p) \/ WriteTmp(p) \/ WriteFails(p)
      BY <1>1, <1>2, <1>3 DEF OpenTmp, WriteTmp, WriteFails
<1>4. CASE RenameTmp(p)
  <2>1. q = op[p].file
        BY <1>1, <1>2, <1>4 DEF RenameTmp
  <2>2. op[p].next \in {"addPush", "addSaved", "extDone", "delSaved"}
        BY DEF Op
  <2> QED
        BY <1>4, <2>1, <2>2 DEF WriterInv, PhaseInv
<1>5. CASE Unwind(p) \/ RemoveObject(p)
      BY <1>1, <1>2, <1>5 DEF Unwind, RemoveObject, Unlink
<1>6. CASE RemoveSource(p)
  <2>1. op[p].cmd = "add"
        BY <1>6 DEF RemoveSource, WriterInv, PhaseInv
  <2> QED
        BY <1>1, <1>6, <2>1 DEF RemoveSource, Unlink
<1> QED
    BY <1>3, <1>4, <1>5, <1>6
       DEF Step, ReadSource, PushEntry, AfterExtract, DeleteFile, SaveManifest

\* A command keeps its entry and its user file until it ends.
LEMMA OpKept ==
  ASSUME WriterInv, NEW p \in Proc, Step(p)
  PROVE  \/ op'[p] = NoOp /\ ~ Running(p)'
         \/ /\ op'[p].cmd = op[p].cmd /\ op'[p].user = op[p].user
            /\ op'[p].entry = op[p].entry
<1> USE StepFacts
<1>1. op \in [Proc -> Op \cup {NoOp}] /\ pc \in [Proc -> {"closed", "ready"} \cup Steps]
      BY DEF WriterInv, TypeOK
<1>2. CASE \E outcome \in {"closed", "ready"} : Finish(p, outcome)
      BY <1>1, <1>2 DEF Finish, Running, Steps
<1>3. CASE op' = op
      BY <1>3
<1>4. CASE ReadSource(p)
  <2>1. CASE op' = [op EXCEPT ![p].data = ObjectOf(op[p].entry, fs[op[p].user].content)]
        BY <1>1, <2>1 DEF Op
  <2> QED
        BY <1>2, <1>4, <2>1 DEF ReadSource
<1>5. CASE \E es, o : SaveManifest(p, es, o) /\ o \in Op /\ o.cmd = op[p].cmd
                      /\ o.user = op[p].user /\ o.entry = op[p].entry
      BY <1>1, <1>5 DEF SaveManifest, Op
<1>6. CASE PushEntry(p)
  <2>1. [op[p] EXCEPT !.next = "addSaved"] \in Op
        BY DEF Op
  <2> QED
        BY <1>5, <1>6, <2>1 DEF PushEntry, Op
<1>7. CASE AfterExtract(p)
  <2>1. [op[p] EXCEPT !.next = "delSaved"] \in Op
        BY DEF Op
  <2> QED
        BY <1>2, <1>5, <1>7, <2>1 DEF AfterExtract, DeleteFile, Op
<1> QED
    BY <1>2, <1>3, <1>4, <1>6, <1>7
       DEF Step, OpenTmp, WriteTmp, RenameTmp, WriteFails, Unwind, RemoveSource, RemoveObject

Busy(p) == op[p].cmd \in {"add", "extract"}

\* No step lets two commands share a file of the user.
LEMMA UseStep ==
  ASSUME SingleWriter, LeftAlone, WriterInv, UseInv, [Next]_vars, WriterInv'
  PROVE  UseInv'
<1>1. /\ \A p, q \in Proc : p # q /\ Busy(p) /\ Busy(q) => op[p].user # op[q].user
      /\ \A p \in Proc : \A f \in fd[p] : f = Tmp(op[p].file)
      BY DEF UseInv, Busy
<1>2. /\ fd \in [Proc -> SUBSET File]
      /\ pc \in [Proc -> {"closed", "ready"} \cup Steps]
      /\ op \in [Proc -> Op \cup {NoOp}]
      BY DEF WriterInv, TypeOK
<1>3. NoOp.cmd \notin {"add", "extract"}
      BY DEF NoOp
<1>4. ASSUME NEW p \in Proc, Step(p)
      PROVE  UseInv'
  <2>1. \A q \in Proc : Busy(q)' => Busy(q) /\ op'[q].user = op[q].user
        BY <1>3, <1>4, OpKept, StepFacts DEF Busy
  <2>2. ASSUME NEW q \in Proc, NEW f \in fd'[q]
        PROVE  f = Tmp(op'[q].file)
    <3>1. pc'[q] = "write"
          BY <2>2 DEF WriterInv, StreamInv
    <3>2. CASE q = p
      <4>1. OpenTmp(p)
        <5>1. ~ OpenTmp(p) => fd'[p] = {} \/ pc'[p] # "write"
          <6>1. pc[p] # "write" => fd[p] = {}
                BY DEF WriterInv, StreamInv
          <6>2. op[p].next # "write"
                BY <1>4, StepFacts DEF Op
          <6> QED
                BY <1>2, <1>4, <6>1, <6>2
                   DEF Step, ReadSource, WriteTmp, RenameTmp, WriteFails, Unwind, PushEntry,
                       RemoveSource, RemoveObject, AfterExtract, DeleteFile, SaveManifest,
                       Finish
        <5> QED
              BY <2>2, <3>1, <3>2, <5>1
      <4> QED
            BY <1>2, <2>2, <3>2, <4>1 DEF OpenTmp, Tmp
    <3>3. CASE q # p
      <4>1. op'[q] = op[q] /\ pc'[q] = pc[q]
            BY <1>4, <3>3, StepFacts
      <4>2. CASE f \in fd[q]
            BY <1>1, <4>1, <4>2 DEF Tmp
      <4>3. CASE f \notin fd[q]
        <5>1. RenameTmp(p) /\ Tmp(op[p].file) \in fd[q]
              BY <1>2, <1>4, <2>2, <3>3, <4>3
                 DEF Step, ReadSource, OpenTmp, WriteTmp, RenameTmp, WriteFails, Unwind,
                     PushEntry, RemoveSource, RemoveObject, AfterExtract, DeleteFile,
                     SaveManifest, Finish, Relink, Unlink
        <5>2. Tmp(op[p].file) = Tmp(op[q].file)
              BY <1>1, <5>1
        <5>3. Running(q) /\ Running(p)
              BY <1>4, <3>1, <4>1, StepFacts DEF Running, Steps
        <5>4. op[p].file = op[q].file
              BY <5>2, <5>3, UserFiles, OpType DEF WriterInv
        <5>5. CASE op[p].next = "extDone" /\ op[q].next = "extDone"
          <6>1. op[p].user = op[q].user /\ Busy(p) /\ Busy(q)
                BY <5>3, <5>4, <5>5 DEF WriterInv, PhaseInv, Busy
          <6> QED
                BY <1>1, <3>3, <6>1
        <5>6. CASE op[p].next # "extDone" /\ op[q].next # "extDone"
              BY <3>3, <5>3, <5>6 DEF SingleWriter, WriterInv, PhaseInv
        <5> QED
              BY <5>3, <5>4, <5>5, <5>6, VaultTarget
      <4> QED
            BY <4>2, <4>3
    <3> QED
          BY <3>2, <3>3
  <2> QED
        BY <1>1, <2>1, <2>2 DEF UseInv, Busy, Tmp
<1>5. ASSUME NEW p \in Proc, OpenVault(p) \/ CloseVault(p) \/ Crash(p) \/ Command(p)
      PROVE  UseInv'
  <2>1. \A q \in Proc \ {p} : op'[q] = op[q] /\ fd'[q] = fd[q]
        BY <1>2, <1>5 DEF OpenVault, CloseVault, Crash, Command, AddFile, ExtractFile,
                          RemoveFile, DeleteFile, SaveManifest, Finish
  <2>2. fd'[p] = {}
    <3>1. pc'[p] # "write"
          BY <1>2, <1>5 DEF OpenVault, CloseVault, Crash, Command, AddFile, ExtractFile,
                            RemoveFile, DeleteFile, SaveManifest, Finish
    <3> QED
          BY <3>1 DEF WriterInv, StreamInv
  <2>3. Busy(p)' => \A q \in Proc \ {p} : Busy(q) => op[q].user # op'[p].user
    <3>1. CASE OpenVault(p) \/ CloseVault(p) \/ Crash(p)
      <4>1. op'[p] = NoOp
            BY <1>2, <3>1 DEF OpenVault, CloseVault, Crash, Finish, Idle, WriterInv, TypeOK,
                              Running, Steps
      <4> QED
            BY <1>3, <4>1 DEF Busy
    <3>2. ASSUME NEW src \in UserPath, NEW n \in UserPath, NEW move \in BOOLEAN,
                 AddFile(p, src, n, move)
          PROVE  \A q \in Proc : Busy(q) => op[q].user # op'[p].user
      <4>1. op'[p].user = src
            BY <1>2, <3>2 DEF AddFile
      <4> QED
            BY <3>2, <4>1 DEF AddFile, Free, InUse, LeftAlone, Busy
    <3>3. ASSUME NEW n \in UserPath, NEW output \in UserPath, NEW move \in BOOLEAN,
                 ExtractFile(p, n, output, move)
          PROVE  \A q \in Proc : Busy(q) => op[q].user # op'[p].user
      <4>1. op'[p].user = output
            BY <1>2, <3>3 DEF ExtractFile
      <4> QED
            BY <3>3, <4>1 DEF ExtractFile, Free, InUse, LeftAlone, Busy
    <3>4. ASSUME NEW n \in UserPath, RemoveFile(p, n)
          PROVE  ~ Busy(p)'
          BY <1>2, <3>4 DEF RemoveFile, DeleteFile, SaveManifest, Busy
    <3> QED
          BY <1>5, <3>1, <3>2, <3>3, <3>4 DEF Command
  <2> QED
        BY <1>1, <2>1, <2>2, <2>3 DEF UseInv, Busy, Tmp
<1>6. ASSUME NEW q \in UserPath, UserEdit(q)
      PROVE  UseInv'
      BY <1>2, <1>6 DEF UseInv, UserEdit, Unlink, Tmp
<1>7. CASE UNCHANGED vars
      BY <1>7 DEF UseInv, vars, Tmp
<1> QED
    BY <1>4, <1>5, <1>6, <1>7 DEF Next

\* The source as long as it is being added, then the object.
LEMMA SourceStep ==
  ASSUME SingleWriter, LeftAlone, ObjectInv, [Next]_vars, WriterInv'
  PROVE  SourceInv'
<1> DEFINE ofSize(w) == {c \in Content : Size[c] = op[w].entry.size}
           Unread(w) == pc[w] = "addRead" => fs[op[w].user] \in {Plain(c) : c \in ofSize(w)}
           Sealed(w) == Saving(w) /\ op[w].next = "addPush" =>
                          op[w].data \in {ObjectOf(op[w].entry, c) : c \in ofSize(w)}
           Stored(w) == pc[w] = "addPush" \/ (Saving(w) /\ op[w].next = "addSaved") =>
                          Recoverable(op[w].entry)
<1> USE DistinctFiles
<1>1. /\ fs \in [File -> FileData]
      /\ pc \in [Proc -> {"closed", "ready"} \cup Steps]
      /\ op \in [Proc -> Op \cup {NoOp}]
      /\ \A w \in Writer : w \in Proc
      /\ WriterInv /\ UseInv
      BY ConstantsAssumption DEF ObjectInv, WriterInv, TypeOK
<1>2. \A w \in Writer : Unread(w) /\ Sealed(w) /\ Stored(w)
      BY DEF ObjectInv, SourceInv
<1>3. SUFFICES ASSUME NEW w \in Writer
               PROVE  Unread(w)' /\ Sealed(w)' /\ Stored(w)'
      BY DEF SourceInv
<1>4. ASSUME pc'[w] = pc[w], op'[w] = op[w],
             pc[w] = "addRead" => fs'[op[w].user] = fs[op[w].user],
             Running(w) => fs'[Obj(op[w].entry.id)] = fs[Obj(op[w].entry.id)]
      PROVE  Unread(w)' /\ Sealed(w)' /\ Stored(w)'
  <2>1. Unread(w)' /\ Sealed(w)'
    <3>1. Unread(w)'
          BY <1>2, <1>4 DEF Plain
    <3>2. Saving(w)' <=> Saving(w)
          BY <1>4 DEF Saving
    <3>3. Sealed(w)'
          BY <1>2, <1>4, <3>2 DEF ObjectOf
    <3> QED
          BY <3>1, <3>3
  <2>2. Stored(w)'
        BY <1>2, <1>4 DEF Saving, Running, Steps, Recoverable, Opens, ObjectOf, Obj
  <2> QED
        BY <2>1, <2>2
<1>5. ASSUME NEW p \in Proc, Step(p)
      PROVE  Unread(w)' /\ Sealed(w)' /\ Stored(w)'
  <2>1. CASE p # w
    <3>1. p \notin Writer
          BY <2>1 DEF SingleWriter
    <3>2. pc'[w] = pc[w] /\ op'[w] = op[w]
          BY <1>1, <1>5, <2>1, StepFacts
    <3>3. ASSUME pc[w] = "addRead" PROVE fs'[op[w].user] = fs[op[w].user]
      <4>1. Running(w)
            BY <3>3 DEF Running, Steps
      <4>2. op[w].user \in UserPath /\ op[w].cmd \in {"add", "extract"}
            BY <1>1, <3>3, <4>1, OpType DEF WriterInv, PhaseInv
      <4> QED
            BY <1>1, <1>5, <2>1, <4>2, UserFileSteps DEF UseInv
    <3>4. Running(w) => fs'[Obj(op[w].entry.id)] = fs[Obj(op[w].entry.id)]
          BY <1>1, <1>5, <3>1, OpType, ObjectSteps DEF WriterInv
    <3> QED
          BY <1>4, <3>2, <3>3, <3>4
  <2>2. CASE p = w
    <3>1. /\ Running(w) /\ op[w] \in Op /\ op[w].entry.id \in Id
          /\ op[w].user \in File
          BY <1>1, <1>5, <2>2, StepFacts
    <3>2. CASE ReadSource(w)
      <4>1. CASE fs[op[w].user].kind = "plain"
        <5>1. /\ pc'[w] = "open" /\ op'[w].next = "addPush" /\ op'[w].entry = op[w].entry
              /\ op'[w].data = ObjectOf(op[w].entry, fs[op[w].user].content)
          <6>1. op[w].next = "addPush"
                BY <3>1, <3>2, <1>1 DEF ReadSource, WriterInv, PhaseInv
          <6> QED
                BY <1>1, <3>1, <3>2, <4>1, <6>1 DEF ReadSource, Op
        <5>2. fs[op[w].user].content \in ofSize(w)
          <6>1. PICK c \in ofSize(w) : fs[op[w].user] = Plain(c)
                BY <1>2, <3>2 DEF ReadSource
          <6> QED
                BY <6>1 DEF Plain
        <5> QED
              BY <5>1, <5>2 DEF Saving, ObjectOf
      <4>2. CASE fs[op[w].user].kind # "plain"
            BY <1>1, <3>2, <4>2 DEF ReadSource, Finish, Saving
      <4> QED
            BY <4>1, <4>2
    <3>3. CASE OpenTmp(w) \/ WriteTmp(w) \/ WriteFails(w)
      <4>1. Saving(w) /\ Saving(w)' /\ op' = op /\ pc'[w] \notin {"addRead", "addPush"}
            BY <1>1, <3>3 DEF OpenTmp, WriteTmp, WriteFails, Saving
      <4>2. fs'[Obj(op[w].entry.id)] = fs[Obj(op[w].entry.id)]
            BY <1>1, <1>5, <2>2, <3>1, <3>3, ObjectSteps
               DEF OpenTmp, WriteTmp, WriteFails, RenameTmp, Unwind, RemoveObject
      <4>3. Sealed(w)'
            BY <1>2, <4>1 DEF ObjectOf
      <4>4. Stored(w)'
            BY <1>2, <4>1, <4>2 DEF Recoverable, Opens, ObjectOf, Obj
      <4> QED
            BY <4>1, <4>3, <4>4
    <3>4. CASE RenameTmp(w)
      <4>1. /\ Saving(w) /\ pc[w] = "rename" /\ pc'[w] = op[w].next /\ op' = op
            BY <1>1, <3>4 DEF RenameTmp, Saving
      <4>2. op[w].next \in {"addPush", "addSaved", "extDone", "delSaved"}
            BY <3>1 DEF Op
      <4>3. CASE op[w].next = "addPush"
        <5>1. op[w].file = Obj(op[w].entry.id) /\ fs[Tmp(op[w].file)] = op[w].data
              BY <1>1, <3>1, <4>1, <4>3 DEF WriterInv, PhaseInv, SaveInv
        <5>2. fs'[Obj(op[w].entry.id)] = op[w].data
          <6>1. Obj(op[w].entry.id) \in File /\ Tmp(op[w].file) # op[w].file
                BY <3>1, <5>1, TargetFiles DEF Target
          <6> QED
                BY <1>1, <3>4, <5>1, <6>1 DEF RenameTmp
        <5>3. PICK c \in ofSize(w) : op[w].data = ObjectOf(op[w].entry, c)
              BY <1>2, <4>1, <4>3
        <5>4. Stored(w)'
              BY <4>1, <5>2, <5>3 DEF Recoverable, Opens, ObjectOf, Obj
        <5> QED
              BY <4>1, <4>3, <5>4 DEF Saving
      <4>4. CASE op[w].next # "addPush"
            BY <4>1, <4>2, <4>4 DEF Saving
      <4> QED
            BY <4>3, <4>4
    <3>5. CASE PushEntry(w)
      <4>1. /\ pc[w] = "addPush" /\ pc'[w] = "open" /\ fs' = fs
            /\ op'[w] = [[op[w] EXCEPT !.next = "addSaved"]
                           EXCEPT !.file = Manifest,
                                  !.data = ManifestOf(entries[w] \cup {op[w].entry})]
            BY <1>1, <3>5 DEF PushEntry, SaveManifest
      <4>2. op'[w].next = "addSaved" /\ op'[w].entry = op[w].entry
            BY <3>1, <4>1 DEF Op
      <4> QED
        <5>1. Recoverable(op[w].entry)
              BY <1>2, <4>1
        <5>2. Stored(w)'
              BY <4>1, <4>2, <5>1 DEF Recoverable, Opens, ObjectOf, Obj
        <5> QED
              BY <4>1, <4>2, <5>2
    <3>6. CASE AfterExtract(w)
      <4>1. CASE op[w].move
        <5>1. /\ pc'[w] = "open"
              /\ op'[w] = [[op[w] EXCEPT !.next = "delSaved"]
                             EXCEPT !.file = Manifest,
                                    !.data = ManifestOf(entries[w] \ {op[w].entry})]
              BY <1>1, <3>6, <4>1 DEF AfterExtract, DeleteFile, SaveManifest
        <5>2. op'[w].next = "delSaved"
              BY <3>1, <5>1 DEF Op
        <5> QED
              BY <5>1, <5>2
      <4>2. CASE ~ op[w].move
            BY <1>1, <3>6, <4>2 DEF AfterExtract, Finish, Saving
      <4> QED
            BY <4>1, <4>2
    <3>7. CASE Unwind(w) \/ RemoveSource(w) \/ RemoveObject(w)
          BY <1>1, <3>7 DEF Unwind, RemoveSource, RemoveObject, Finish, Saving
    <3> QED
          BY <1>5, <2>2, <3>2, <3>3, <3>4, <3>5, <3>6, <3>7 DEF Step
  <2> QED
        BY <2>1, <2>2
<1>6. ASSUME NEW p \in Proc, OpenVault(p) \/ CloseVault(p) \/ Crash(p) \/ Command(p)
      PROVE  Unread(w)' /\ Sealed(w)' /\ Stored(w)'
  <2>1. /\ fs' = fs
        /\ p # w => pc'[w] = pc[w] /\ op'[w] = op[w]
        BY <1>1, <1>6 DEF OpenVault, CloseVault, Crash, Command, AddFile, ExtractFile,
                          RemoveFile, DeleteFile, SaveManifest, Finish
  <2>2. CASE p # w
        BY <1>4, <2>1, <2>2
  <2>3. CASE p = w /\ (OpenVault(w) \/ CloseVault(w) \/ Crash(w))
        BY <1>1, <2>3 DEF OpenVault, CloseVault, Crash, Finish, Saving
  <2>4. ASSUME p = w, NEW src \in UserPath, NEW n \in UserPath, NEW move \in BOOLEAN,
               AddFile(w, src, n, move)
        PROVE  Unread(w)' /\ Sealed(w)' /\ Stored(w)'
    <3>1. /\ pc'[w] = "addRead" /\ op'[w].user = src
          /\ op'[w].entry.size = Size[fs[src].content] /\ fs[src].kind = "plain"
          BY <1>1, <2>4 DEF AddFile
    <3>2. fs[src] \in FileData
          BY <1>1, UserFiles
    <3>3. \E c \in Content : fs[src] = Plain(c) /\ fs[src].content = c
          BY <3>1, <3>2 DEF FileData, Absent, Empty, Torn, Plain
    <3> QED
          BY <2>1, <3>1, <3>3 DEF Saving, Plain
  <2>5. ASSUME p = w, NEW n \in UserPath, NEW output \in UserPath, NEW move \in BOOLEAN,
               ExtractFile(w, n, output, move)
        PROVE  Unread(w)' /\ Sealed(w)' /\ Stored(w)'
    <3>1. pc'[w] = "open" /\ op'[w].next = "extDone"
          BY <1>1, <2>5 DEF ExtractFile
    <3> QED
          BY <3>1
  <2>6. ASSUME p = w, NEW n \in UserPath, RemoveFile(w, n)
        PROVE  Unread(w)' /\ Sealed(w)' /\ Stored(w)'
    <3>1. pc'[w] = "open" /\ op'[w].next = "delSaved"
          BY <1>1, <2>6 DEF RemoveFile, DeleteFile, SaveManifest
    <3> QED
          BY <3>1
  <2> QED
        BY <1>6, <2>2, <2>3, <2>4, <2>5, <2>6 DEF Command
<1>7. ASSUME NEW q \in UserPath, UserEdit(q)
      PROVE  Unread(w)' /\ Sealed(w)' /\ Stored(w)'
  <2>1. pc'[w] = pc[w] /\ op'[w] = op[w]
        BY <1>7 DEF UserEdit
  <2>2. ASSUME pc[w] = "addRead" PROVE fs'[op[w].user] = fs[op[w].user]
    <3>1. Running(w)
          BY <2>2 DEF Running, Steps
    <3>2. op[w].user \in File /\ op[w].cmd \in {"add", "extract"}
          BY <1>1, <2>2, <3>1, OpType DEF WriterInv, PhaseInv
    <3>3. op[w].user # q
          BY <1>1, <1>7, <3>2 DEF UserEdit, Free, InUse, LeftAlone
    <3> QED
          BY <1>1, <1>7, <3>2, <3>3 DEF UserEdit, Unlink
  <2>3. Running(w) => fs'[Obj(op[w].entry.id)] = fs[Obj(op[w].entry.id)]
        BY <1>1, <1>7, OpType, UserFiles DEF UserEdit, Unlink, WriterInv
  <2> QED
        BY <1>4, <2>1, <2>2, <2>3
<1>8. CASE UNCHANGED vars
      BY <1>4, <1>8 DEF vars
<1> QED
    BY <1>5, <1>6, <1>7, <1>8 DEF Next

\* The manifest's entries and their objects.
LEMMA RecoverableStep ==
  ASSUME SingleWriter, LeftAlone, ObjectInv, [Next]_vars
  PROVE  EveryEntryRecoverable'
<1>1. /\ WriterInv
      /\ \A e \in Listed : e.id \in Id /\ Recoverable(e)
      BY ListedType DEF ObjectInv, WriterInv, EveryEntryRecoverable, Entry
<1>2. ASSUME NEW e, fs'[Obj(e.id)] = fs[Obj(e.id)], Recoverable(e)
      PROVE  Recoverable(e)'
      BY <1>2 DEF Recoverable, Opens, ObjectOf, Obj
<1>3. ASSUME NEW p \in Proc, Step(p)
      PROVE  EveryEntryRecoverable'
  <2>1. ASSUME NEW e \in Listed, fs'[Obj(e.id)] # fs[Obj(e.id)]
        PROVE  FALSE
    <3>1. /\ p \in Writer /\ e.id = op[p].entry.id /\ Running(p)
          /\ \/ RenameTmp(p) /\ op[p].next = "addPush"
             \/ Unwind(p) /\ op[p].next = "addSaved"
             \/ RemoveObject(p)
          BY <1>1, <1>3, <2>1, ObjectSteps, StepFacts
    <3>2. \/ op[p].cmd = "add" /\ pc[p] # "addSaved"
          \/ pc[p] = "delSaved"
          BY <1>1, <3>1 DEF RenameTmp, Unwind, RemoveObject, WriterInv, PhaseInv
    <3> QED
          BY <1>1, <3>1, <3>2 DEF WriterInv, EntryInv
  <2>2. \A e \in Listed : Recoverable(e)'
        BY <1>1, <1>2, <2>1
  <2>3. ASSUME RenameTmp(p), p \in Writer, op[p].next = "addSaved", Listed' = entries[p]
        PROVE  \A e \in Listed' : Recoverable(e)'
    <3>1. Saving(p) /\ Running(p) /\ pc[p] # "closed"
          BY <2>3 DEF RenameTmp, Saving, Running, Steps
    <3>2. Listed' = Listed \cup {op[p].entry}
          BY <1>1, <2>3, <3>1 DEF WriterInv, ListInv
    <3>3. Recoverable(op[p].entry)
          BY <2>3, <3>1 DEF ObjectInv, SourceInv
    <3>4. fs'[Obj(op[p].entry.id)] = fs[Obj(op[p].entry.id)]
          BY <1>1, <1>3, <2>3, StepFacts, ObjectSteps DEF RenameTmp, Unwind, RemoveObject
    <3> QED
          BY <1>2, <2>2, <3>2, <3>3, <3>4
  <2>4. ASSUME RenameTmp(p), p \in Writer, op[p].next = "delSaved", Listed' = entries[p]
        PROVE  Listed' \subseteq Listed
    <3>1. Saving(p) /\ pc[p] # "closed"
          BY <2>4 DEF RenameTmp, Saving
    <3> QED
          BY <1>1, <2>4, <3>1 DEF WriterInv, ListInv
  <2> QED
    <3>1. \A e \in Listed' : Recoverable(e)'
      <4>1. CASE Listed' = Listed
            BY <2>2, <4>1
      <4>2. CASE /\ RenameTmp(p) /\ p \in Writer /\ op[p].next \in {"addSaved", "delSaved"}
                 /\ Listed' = entries[p]
            BY <2>2, <2>3, <2>4, <4>2
      <4> QED
            BY <1>1, <1>3, <4>1, <4>2, ListedSteps
    <3> QED
          BY <3>1 DEF EveryEntryRecoverable
<1>4. ASSUME fs' = fs
      PROVE  EveryEntryRecoverable'
      BY <1>1, <1>2, <1>4 DEF EveryEntryRecoverable, Listed
<1>5. ASSUME NEW p \in Proc, OpenVault(p) \/ CloseVault(p) \/ Crash(p) \/ Command(p)
      PROVE  EveryEntryRecoverable'
      BY <1>4, <1>5 DEF OpenVault, CloseVault, Crash, Command, AddFile, ExtractFile,
                        RemoveFile, DeleteFile, SaveManifest
<1>6. ASSUME NEW q \in UserPath, UserEdit(q)
      PROVE  EveryEntryRecoverable'
  <2>1. fs'[Manifest] = fs[Manifest] /\ \A id \in Id : fs'[Obj(id)] = fs[Obj(id)]
    <3>1. Manifest \in File /\ \A id \in Id : Obj(id) \in File
          BY TargetFiles DEF Target
    <3> QED
          BY <1>1, <1>6, <3>1, UserFiles DEF UserEdit, Unlink, WriterInv, TypeOK
  <2> QED
        BY <1>1, <1>2, <2>1 DEF EveryEntryRecoverable, Listed
<1> QED
    BY <1>3, <1>4, <1>5, <1>6 DEF Next, vars

\* An empty list needs no objects.
LEMMA ObjectInvInit == Init => ObjectInv
<1> SUFFICES ASSUME Init PROVE ObjectInv
    OBVIOUS
<1>1. WriterInv
      BY WriterInvInit
<1>2. Listed = {}
  <2>1. fs[Manifest] \in {Absent, ManifestOf({})}
        BY DistinctFiles DEF Init
  <2> QED
        BY <2>1 DEF Listed, Absent, ManifestOf
<1>3. /\ \A p \in Proc : fd[p] = {} /\ op[p] = NoOp /\ pc[p] = "closed"
      /\ \A p \in Writer : p \in Proc
      BY ConstantsAssumption DEF Init
<1> QED
    BY <1>1, <1>2, <1>3 DEF ObjectInv, UseInv, SourceInv, EveryEntryRecoverable, NoOp, Saving

\* With one writing run, and users who leave a file alone while a command works
\* on it, the invariant holds for ever.
THEOREM ObjectInvHolds ==
  ASSUME SingleWriter, LeftAlone
  PROVE  Spec => []ObjectInv
<1>1. ObjectInv /\ [Next]_vars => ObjectInv'
  <2> SUFFICES ASSUME ObjectInv, [Next]_vars PROVE ObjectInv'
      OBVIOUS
  <2>1. WriterInv'
        BY WriterInvStep DEF ObjectInv
  <2> QED
      BY <2>1, UseStep, SourceStep, RecoverableStep DEF ObjectInv
<1> QED
    BY <1>1, ObjectInvInit, PTL DEF Spec

\* The theorem about the vault's contents: at every instant of every command,
\* after every failure and crash, each entry that the manifest lists has its
\* object, whole, sealed for that entry and of the recorded length.
THEOREM EntriesAlwaysRecoverable ==
  ASSUME SingleWriter, LeftAlone
  PROVE  Spec => []EveryEntryRecoverable
<1>1. ObjectInv => EveryEntryRecoverable
      BY DEF ObjectInv
<1> QED
    BY <1>1, ObjectInvHolds, PTL

-----------------------------------------------------------------------------
(***************************************************************************)
(* No object is left behind.  An object that the list does not name is in  *)
(* the hands of a command: it is about to be listed, about to be taken     *)
(* back, or about to be unlinked.                                          *)
(***************************************************************************)
InHand(p, id) ==
  /\ op[p].entry.id = id
  /\ pc[p] \in {"addPush", "delSaved"} \/ (Saving(p) /\ op[p].next = "addSaved")

AccountedFor ==
  \A id \in Id : fs[Obj(id)] # Absent =>
     (\E e \in Listed : e.id = id) \/ \E p \in Writer : InHand(p, id)

NothingIsLeft == Faults \cap {"unlink", "crash"} = {}

\* What the steps of a command that holds an object do with it.
LEMMA HandsStep ==
  ASSUME SingleWriter, NothingIsLeft, WriterInv, NEW p \in Writer, p \in Proc, Step(p),
         NEW id \in Id, InHand(p, id)
  PROVE  \/ fs'[Obj(id)] = Absent
         \/ InHand(p, id)'
         \/ \E e \in Listed' : e.id = id
<1> USE StepFacts, DistinctFiles
<1>1. /\ fs \in [File -> FileData] /\ op \in [Proc -> Op \cup {NoOp}]
      /\ pc \in [Proc -> {"closed", "ready"} \cup Steps]
      BY DEF WriterInv, TypeOK
<1>2. CASE pc[p] = "addPush"
  <2>1. PushEntry(p)
        BY <1>2 DEF Step, ReadSource, OpenTmp, WriteTmp, RenameTmp, WriteFails, Unwind,
                    PushEntry, RemoveSource, RemoveObject, AfterExtract
  <2>2. op'[p].entry = op[p].entry /\ op'[p].next = "addSaved" /\ pc'[p] = "open"
        BY <1>1, <2>1 DEF PushEntry, SaveManifest, Op
  <2> QED
        BY <2>2 DEF InHand, Saving
<1>3. CASE pc[p] = "delSaved"
  <2>1. RemoveObject(p)
        BY <1>3 DEF Step, ReadSource, OpenTmp, WriteTmp, RenameTmp, WriteFails, Unwind,
                    PushEntry, RemoveSource, RemoveObject, AfterExtract
  <2> QED
        BY <1>1, <2>1 DEF RemoveObject, Unlink, NothingIsLeft, InHand
<1>4. CASE Saving(p) /\ op[p].next = "addSaved"
  <2>1. CASE OpenTmp(p) \/ WriteTmp(p) \/ WriteFails(p)
    <3>1. op' = op /\ pc'[p] \in {"write", "rename", "unwind"}
          BY <1>1, <2>1 DEF OpenTmp, WriteTmp, WriteFails
    <3> QED
          BY <1>4, <3>1 DEF InHand, Saving
  <2>2. CASE Unwind(p)
        BY <1>1, <1>4, <2>2 DEF Unwind, Unlink, NothingIsLeft, InHand
  <2>3. CASE RenameTmp(p)
    <3>1. op[p].file = Manifest /\ pc[p] = "rename"
          BY <1>4, <2>3 DEF WriterInv, PhaseInv, RenameTmp
    <3>2. fs[Tmp(Manifest)] = ManifestOf(entries[p])
          BY <1>4, <3>1 DEF WriterInv, SaveInv
    <3>3. fs'[Manifest] = ManifestOf(entries[p])
          BY <1>1, <2>3, <3>1, <3>2, TargetFiles DEF RenameTmp, Target
    <3>4. Listed' = entries[p]
          BY <3>3 DEF Listed, ManifestOf
    <3>5. op[p].entry \in entries[p]
          BY <1>4, <3>1 DEF WriterInv, ListInv
    <3> QED
          BY <3>4, <3>5 DEF InHand
  <2> QED
        BY <1>4, <2>1, <2>2, <2>3
           DEF Saving, Step, ReadSource, PushEntry, RemoveSource, RemoveObject, AfterExtract
<1> QED
    BY <1>2, <1>3, <1>4 DEF InHand

LEMMA AccountedForStep ==
  ASSUME SingleWriter, NothingIsLeft, WriterInv, AccountedFor, [Next]_vars
  PROVE  AccountedFor'
<1> USE DistinctFiles
<1>1. /\ fs \in [File -> FileData] /\ op \in [Proc -> Op \cup {NoOp}]
      /\ pc \in [Proc -> {"closed", "ready"} \cup Steps] /\ Writer \subseteq Proc
      /\ \A id \in Id : Obj(id) \in File
      BY ConstantsAssumption, TargetFiles DEF WriterInv, TypeOK, Target
<1> SUFFICES ASSUME NEW id \in Id, fs'[Obj(id)] # Absent
             PROVE  (\E e \in Listed' : e.id = id) \/ \E q \in Writer : InHand(q, id)'
    BY DEF AccountedFor
<1>2. ASSUME fs'[Obj(id)] = fs[Obj(id)], fs'[Manifest] = fs[Manifest],
             \A q \in Writer : InHand(q, id) => pc'[q] = pc[q] /\ op'[q] = op[q]
      PROVE  (\E e \in Listed' : e.id = id) \/ \E q \in Writer : InHand(q, id)'
      BY <1>2 DEF AccountedFor, InHand, Saving, Listed
<1>3. ASSUME NEW p \in Proc, OpenVault(p) \/ CloseVault(p) \/ Command(p)
      PROVE  (\E e \in Listed' : e.id = id) \/ \E q \in Writer : InHand(q, id)'
  <2>1. fs' = fs /\ pc[p] \in {"closed", "ready"}
        BY <1>3 DEF OpenVault, CloseVault, Command, AddFile, ExtractFile, RemoveFile,
                    DeleteFile, SaveManifest, Idle
  <2>2. \A q \in Writer : q # p => pc'[q] = pc[q] /\ op'[q] = op[q]
        BY <1>1, <1>3 DEF OpenVault, CloseVault, Command, AddFile, ExtractFile, RemoveFile,
                    DeleteFile, SaveManifest
  <2>3. ~ InHand(p, id)
        BY <2>1 DEF InHand, Saving
  <2> QED
        BY <1>2, <2>1, <2>2, <2>3
<1>4. ASSUME NEW q \in UserPath, UserEdit(q)
      PROVE  (\E e \in Listed' : e.id = id) \/ \E r \in Writer : InHand(r, id)'
      BY <1>1, <1>2, <1>4 DEF UserEdit, Unlink
<1>5. ASSUME NEW p \in Proc, Step(p)
      PROVE  (\E e \in Listed' : e.id = id) \/ \E q \in Writer : InHand(q, id)'
  <2> USE StepFacts
  <2>1. CASE fs'[Obj(id)] # fs[Obj(id)]
    <3>1. /\ p \in Writer /\ id = op[p].entry.id
          /\ \/ RenameTmp(p) /\ op[p].next = "addPush"
             \/ Unwind(p) /\ op[p].next = "addSaved"
             \/ RemoveObject(p)
          BY <1>5, <2>1, ObjectSteps
    <3>2. CASE RenameTmp(p) /\ op[p].next = "addPush"
          BY <1>1, <3>1, <3>2 DEF RenameTmp, InHand
    <3>3. CASE (Unwind(p) /\ op[p].next = "addSaved") \/ RemoveObject(p)
          BY <1>1, <2>1, <3>1, <3>3 DEF Unwind, RemoveObject, Unlink
    <3> QED
          BY <3>1, <3>2, <3>3
  <2>2. CASE fs'[Obj(id)] = fs[Obj(id)] /\ \E e \in Listed : e.id = id
    <3>1. PICK e \in Listed : e.id = id
          BY <2>2
    <3>2. CASE e \in Listed'
          BY <3>1, <3>2
    <3>3. CASE e \notin Listed'
      <4>1. /\ RenameTmp(p) /\ p \in Writer /\ op[p].next \in {"addSaved", "delSaved"}
            /\ Listed' = entries[p]
            BY <1>5, <3>1, <3>3, ListedSteps
      <4>2. Saving(p) /\ pc[p] # "closed"
            BY <4>1 DEF RenameTmp, Saving
      <4>3. e = op[p].entry /\ op[p].next = "delSaved"
            BY <3>1, <3>3, <4>1, <4>2 DEF WriterInv, ListInv
      <4>4. pc'[p] = "delSaved" /\ op'[p] = op[p]
            BY <1>1, <4>1, <4>3 DEF RenameTmp
      <4> QED
            BY <3>1, <4>1, <4>3, <4>4 DEF InHand
    <3> QED
          BY <3>2, <3>3
  <2>3. CASE fs'[Obj(id)] = fs[Obj(id)] /\ ~ \E e \in Listed : e.id = id
    <3>1. PICK q \in Writer : InHand(q, id)
          BY <2>3 DEF AccountedFor
    <3>2. CASE q = p
          BY <1>1, <1>5, <3>1, <3>2, HandsStep
    <3>3. CASE q # p
      <4>1. pc'[q] = pc[q] /\ op'[q] = op[q]
            BY <1>1, <1>5, <3>3
      <4> QED
            BY <3>1, <4>1 DEF InHand, Saving
    <3> QED
          BY <3>2, <3>3
  <2> QED
        BY <2>1, <2>2, <2>3
<1>6. ASSUME UNCHANGED vars
      PROVE  (\E e \in Listed' : e.id = id) \/ \E q \in Writer : InHand(q, id)'
      BY <1>2, <1>6 DEF vars
<1>7. \A p \in Proc : ~ Crash(p)
      BY DEF Crash, NothingIsLeft
<1> QED
    BY <1>3, <1>4, <1>5, <1>6, <1>7 DEF Next

LEMMA AccountedForInit == Init => AccountedFor
<1> SUFFICES ASSUME Init, NEW id \in Id PROVE fs[Obj(id)] = Absent
    BY DEF AccountedFor
<1> QED
    BY DistinctFiles, TargetFiles DEF Init, Target

\* With one writing run, no crash, and removals that succeed: between two
\* commands every object on disk is listed, whatever writes have failed.
THEOREM NoObjectLeftBehind ==
  ASSUME SingleWriter, NothingIsLeft
  PROVE  Spec => []NoOrphanObject
<1>1. WriterInv /\ AccountedFor /\ [Next]_vars => (WriterInv /\ AccountedFor)'
      BY WriterInvStep, AccountedForStep
<1>2. Init => WriterInv /\ AccountedFor
      BY WriterInvInit, AccountedForInit
<1>3. AccountedFor => NoOrphanObject
      BY ConstantsAssumption
         DEF AccountedFor, NoOrphanObject, InHand, Saving, Running, Steps
<1> QED
    BY <1>1, <1>2, <1>3, PTL DEF Spec

-----------------------------------------------------------------------------
(***************************************************************************)
(* The vault implements SafeTransfer, with one run.  The invariant that    *)
(* the mapping needs says where the content of the file is that a command  *)
(* moves: from the reading of the source until its removal, and from the   *)
(* end of the extraction until the entry is gone, it is on both sides.     *)
(***************************************************************************)
OneRun == SingleWriter /\ Writer = Proc

Copied(p) == \E c \in Content : fs[op[p].user] = Plain(c) /\ Opens(op[p].entry, c)

BothSides(p) ==
  \/ pc[p] \in {"addPush", "addSaved", "extDone"}
  \/ Saving(p) /\ op[p].next = "addSaved"
  \/ Saving(p) /\ op[p].next = "delSaved" /\ op[p].cmd = "extract"

\* What an extraction writes is what the object holds.
ExtractInv(p) ==
  Saving(p) /\ op[p].next = "extDone" =>
     /\ \E c \in Content : op[p].data = Plain(c) /\ Opens(op[p].entry, c)
     /\ pc[p] = "write" => fd[p] = {Tmp(op[p].file)} /\ fs[Tmp(op[p].file)] = Empty
     /\ pc[p] = "rename" => fs[Tmp(op[p].file)] = op[p].data

\* What an object is written with is what the source holds.
AddInv(p) ==
  Saving(p) /\ op[p].next = "addPush" =>
     \E c \in Content : fs[op[p].user] = Plain(c) /\ op[p].data = ObjectOf(op[p].entry, c)

TransferInv ==
  \A p \in Proc :
     /\ ExtractInv(p) /\ AddInv(p)
     /\ BothSides(p) => Copied(p)
     /\ pc[p] = "addSaved" => op[p].entry \in Listed

\* A command whose file and object stay as they are stays where it is.
LEMMA CopiedKept ==
  ASSUME NEW p, fs'[op[p].user] = fs[op[p].user],
         fs'[Obj(op[p].entry.id)] = fs[Obj(op[p].entry.id)],
         op'[p].user = op[p].user, op'[p].entry = op[p].entry, Copied(p)
  PROVE  Copied(p)'
BY DEF Copied, Opens, ObjectOf, Obj, Plain

\* What the calls of write_file_atomic keep but the rename.
LEMMA UnrenamedKept ==
  ASSUME LeftAlone, ObjectInv, NEW p \in Proc, Step(p),
         OpenTmp(p) \/ WriteTmp(p) \/ WriteFails(p)
  PROVE  /\ Saving(p) /\ Saving(p)' /\ op' = op
         /\ pc'[p] \in {"write", "rename", "unwind"}
         /\ fs'[op[p].user] = fs[op[p].user]
         /\ \A id \in Id : fs'[Obj(id)] = fs[Obj(id)]
         /\ fs'[Manifest] = fs[Manifest]
         /\ \A q \in UserPath : fs'[q] = fs[q]
<1> USE StepFacts, UserFiles, DistinctFiles
<1>1. /\ fs \in [File -> FileData] /\ fd \in [Proc -> SUBSET File]
      /\ pc \in [Proc -> {"closed", "ready"} \cup Steps]
      /\ WriterInv /\ UseInv
      BY DEF ObjectInv, WriterInv, TypeOK
<1>2. /\ Saving(p) /\ Saving(p)' /\ op' = op
      /\ pc'[p] \in {"write", "rename", "unwind"}
      BY <1>1 DEF OpenTmp, WriteTmp, WriteFails, Saving
<1>3. ASSUME NEW f \in File, f # Tmp(op[p].file)
      PROVE  fs'[f] = fs[f]
  <2>1. f \notin fd[p]
        BY <1>1, <1>3 DEF UseInv
  <2> QED
        BY <1>1, <1>3, <2>1 DEF OpenTmp, WriteTmp, WriteFails
<1>4. /\ Manifest \in File /\ Manifest # Tmp(op[p].file)
      /\ \A id \in Id : Obj(id) \in File /\ Obj(id) # Tmp(op[p].file)
      /\ \A q \in UserPath : q \in File /\ q # Tmp(op[p].file)
      BY <1>1, TmpNotSaved, TargetFiles DEF Target
<1> QED
    BY <1>1, <1>2, <1>3, <1>4

\* The rename, by what follows it.
LEMMA RenameKept ==
  ASSUME OneRun, LeftAlone, ObjectInv, TransferInv, NEW p \in Proc, RenameTmp(p)
  PROVE  /\ Saving(p) /\ pc[p] = "rename" /\ pc'[p] = op[p].next /\ op' = op
         /\ op[p].next \in {"addPush", "addSaved", "extDone", "delSaved"}
         /\ fs[Tmp(op[p].file)] = op[p].data
         /\ fs' [op[p].file] = op[p].data
         /\ \A q \in UserPath : q # op[p].file => fs'[q] = fs[q]
         /\ \A id \in Id : Obj(id) # op[p].file => fs'[Obj(id)] = fs[Obj(id)]
         /\ op[p].file # Manifest => fs'[Manifest] = fs[Manifest]
<1> USE UserFiles, DistinctFiles
<1>1. /\ fs \in [File -> FileData]
      /\ pc \in [Proc -> {"closed", "ready"} \cup Steps]
      /\ WriterInv /\ p \in Writer /\ TypeOK
      BY DEF ObjectInv, WriterInv, TypeOK, OneRun
<1>2. /\ Saving(p) /\ pc[p] = "rename" /\ pc'[p] = op[p].next /\ op' = op
      BY <1>1 DEF RenameTmp, Saving
<1>3. Running(p)
      BY <1>2 DEF Running, Steps
<1>4. op[p] \in Op /\ op[p].file \in Target /\ op[p].file \in File /\ Tmp(op[p].file) \in File
      BY <1>1, <1>3, OpType
<1>5. op[p].next \in {"addPush", "addSaved", "extDone", "delSaved"}
      BY <1>4 DEF Op
<1>6. fs[Tmp(op[p].file)] = op[p].data
  <2>1. CASE op[p].next = "extDone"
        BY <1>2, <2>1 DEF TransferInv, ExtractInv
  <2>2. CASE op[p].next # "extDone"
        BY <1>1, <1>2, <2>2 DEF WriterInv, SaveInv
  <2> QED
        BY <2>1, <2>2
<1>7. Tmp(op[p].file) # op[p].file
      BY <1>4, TargetFiles
<1>8. fs' = [fs EXCEPT ![op[p].file] = fs[Tmp(op[p].file)], ![Tmp(op[p].file)] = Absent]
      BY DEF RenameTmp
<1>9. fs'[op[p].file] = op[p].data
      BY <1>1, <1>4, <1>6, <1>7, <1>8
<1>10. ASSUME NEW f \in File, f # op[p].file, f # Tmp(op[p].file)
       PROVE  fs'[f] = fs[f]
      BY <1>1, <1>8, <1>10
<1>11. /\ Manifest \in File /\ Manifest # Tmp(op[p].file)
       /\ \A id \in Id : Obj(id) \in File /\ Obj(id) # Tmp(op[p].file)
       /\ \A q \in UserPath : q \in File /\ q # Tmp(op[p].file)
      BY <1>4, TmpNotSaved, TargetFiles DEF Target
<1> QED
    BY <1>2, <1>5, <1>6, <1>9, <1>10, <1>11

LEMMA TransferInvOfStep ==
  ASSUME OneRun, LeftAlone, ObjectInv, TransferInv, NEW p \in Proc, Step(p)
  PROVE  /\ ExtractInv(p)' /\ AddInv(p)'
         /\ BothSides(p)' => Copied(p)'
         /\ pc'[p] = "addSaved" => op'[p].entry \in Listed'
<1> USE StepFacts, UserFiles, DistinctFiles
<1> DEFINE Goal == /\ ExtractInv(p)' /\ AddInv(p)'
                   /\ BothSides(p)' => Copied(p)'
                   /\ pc'[p] = "addSaved" => op'[p].entry \in Listed'
<1>1. /\ fs \in [File -> FileData] /\ fd \in [Proc -> SUBSET File]
      /\ pc \in [Proc -> {"closed", "ready"} \cup Steps]
      /\ op \in [Proc -> Op \cup {NoOp}]
      /\ WriterInv /\ UseInv /\ p \in Writer
      BY DEF ObjectInv, WriterInv, TypeOK, OneRun
<1>2. /\ ExtractInv(p) /\ AddInv(p)
      /\ BothSides(p) => Copied(p)
      BY DEF TransferInv
<1>9. /\ op[p] \in Op /\ op[p].entry.id \in Id /\ op[p].user \in UserPath
      BY <1>1, StepFacts
<1>3. CASE ReadSource(p)
  <2>1. CASE fs[op[p].user].kind = "plain"
    <3>1. /\ pc[p] = "addRead" /\ op[p].next = "addPush"
          BY <1>1, <1>3 DEF ReadSource, WriterInv, PhaseInv
    <3>2. /\ pc'[p] = "open" /\ op'[p].next = "addPush" /\ op'[p].user = op[p].user
          /\ op'[p].entry = op[p].entry /\ fs' = fs
          /\ op'[p].data = ObjectOf(op[p].entry, fs[op[p].user].content)
          BY <1>1, <1>3, <2>1, <3>1 DEF ReadSource, Op
    <3>3. PICK c \in Content : fs[op[p].user] = Plain(c)
          BY <1>1, <3>1 DEF ObjectInv, SourceInv
    <3>4. fs[op[p].user].content = c
          BY <3>3 DEF Plain
    <3>5. AddInv(p)'
          BY <3>2, <3>3, <3>4 DEF AddInv, Plain, ObjectOf
    <3> QED
          BY <3>2, <3>5 DEF ExtractInv, BothSides, Saving
  <2>2. CASE fs[op[p].user].kind # "plain"
        BY <1>1, <1>3, <2>2 DEF ReadSource, Finish, ExtractInv, AddInv, BothSides, Saving
  <2> QED
        BY <2>1, <2>2
<1>4. CASE OpenTmp(p) \/ WriteTmp(p) \/ WriteFails(p)
  <2>1. /\ Saving(p) /\ Saving(p)' /\ op' = op
        /\ pc'[p] \in {"write", "rename", "unwind"}
        /\ fs'[op[p].user] = fs[op[p].user]
        /\ fs'[Obj(op[p].entry.id)] = fs[Obj(op[p].entry.id)]
        BY <1>9, <1>4, UnrenamedKept
  <2>2. BothSides(p)' => Copied(p)'
    <3>1. BothSides(p)' => BothSides(p)
          BY <2>1 DEF BothSides
    <3> QED
          BY <1>2, <2>1, <3>1, CopiedKept
  <2>3. AddInv(p)'
        BY <1>2, <2>1 DEF AddInv, Plain, ObjectOf
  <2>4. ExtractInv(p)'
    <3> SUFFICES ASSUME op[p].next = "extDone"
                 PROVE  ExtractInv(p)'
        BY <2>1 DEF ExtractInv
    <3>1. (\E c \in Content : op[p].data = Plain(c) /\ Opens(op[p].entry, c))'
          BY <1>2, <2>1 DEF ExtractInv, Opens, ObjectOf, Plain, Obj
    <3>2. pc'[p] = "write" => /\ fd'[p] = {Tmp(op[p].file)}
                              /\ fs'[Tmp(op[p].file)] = Empty
          BY <1>1, <1>4 DEF OpenTmp, WriteTmp, WriteFails
    <3>3. pc'[p] = "rename" => fs'[Tmp(op[p].file)] = op[p].data
      <4> SUFFICES ASSUME WriteTmp(p)
                   PROVE  fs'[Tmp(op[p].file)] = op[p].data
          BY <1>1, <1>4 DEF OpenTmp, WriteFails
      <4>1. fd[p] = {Tmp(op[p].file)} /\ fs[Tmp(op[p].file)] = Empty
            BY <1>2, <2>1 DEF WriteTmp, ExtractInv
      <4> QED
            BY <1>1, <4>1 DEF WriteTmp
    <3> QED
          BY <2>1, <3>1, <3>2, <3>3 DEF ExtractInv, Tmp
  <2> QED
        BY <2>1, <2>2, <2>3, <2>4
<1>5. CASE RenameTmp(p)
  <2>1. /\ Saving(p) /\ pc[p] = "rename" /\ pc'[p] = op[p].next /\ op' = op
        /\ op[p].next \in {"addPush", "addSaved", "extDone", "delSaved"}
        /\ fs' [op[p].file] = op[p].data
        /\ \A q \in UserPath : q # op[p].file => fs'[q] = fs[q]
        /\ \A id \in Id : Obj(id) # op[p].file => fs'[Obj(id)] = fs[Obj(id)]
        BY <1>5, RenameKept
  <2>2. ExtractInv(p)' /\ AddInv(p)'
        BY <2>1 DEF ExtractInv, AddInv, Saving
  <2>3. CASE op[p].next = "addPush"
    <3>1. op[p].file = Obj(op[p].entry.id)
          BY <1>1, <2>3 DEF WriterInv, PhaseInv
    <3>2. PICK c \in Content : fs[op[p].user] = Plain(c) /\ op[p].data = ObjectOf(op[p].entry, c)
          BY <1>2, <2>1, <2>3 DEF AddInv
    <3>3. Size[c] = op[p].entry.size
      <4>1. PICK d \in Content : Size[d] = op[p].entry.size /\ op[p].data = ObjectOf(op[p].entry, d)
            BY <1>1, <2>1, <2>3 DEF ObjectInv, SourceInv
      <4> QED
            BY <3>2, <4>1 DEF ObjectOf
    <3>4. fs'[op[p].user] = fs[op[p].user]
          BY <1>9, <2>1, <3>1
    <3>5. Copied(p)'
          BY <2>1, <3>1, <3>2, <3>3, <3>4 DEF Copied, Opens, Plain, ObjectOf, Obj
    <3> QED
          BY <2>1, <2>2, <2>3, <3>5
  <2>4. CASE op[p].next = "extDone"
    <3>1. op[p].file = op[p].user
          BY <1>1, <2>4 DEF WriterInv, PhaseInv
    <3>2. PICK c \in Content : op[p].data = Plain(c) /\ Opens(op[p].entry, c)
          BY <1>2, <2>1, <2>4 DEF ExtractInv
    <3>3. fs'[Obj(op[p].entry.id)] = fs[Obj(op[p].entry.id)]
          BY <1>9, <2>1, <3>1
    <3>4. Copied(p)'
          BY <2>1, <3>1, <3>2, <3>3 DEF Copied, Opens, Plain, ObjectOf, Obj
    <3> QED
          BY <2>1, <2>2, <2>4, <3>4
  <2>5. CASE op[p].next = "addSaved"
    <3>1. op[p].file = Manifest
          BY <1>1, <2>5 DEF WriterInv, PhaseInv
    <3>2. BothSides(p)
          BY <2>1, <2>5 DEF BothSides
    <3>3. Copied(p)'
      <4>1. /\ fs'[op[p].user] = fs[op[p].user]
            /\ fs'[Obj(op[p].entry.id)] = fs[Obj(op[p].entry.id)]
            BY <1>9, <2>1, <3>1
      <4> QED
            BY <1>2, <2>1, <3>2, <4>1, CopiedKept
    <3>4. op[p].entry \in Listed'
      <4>1. op[p].data = ManifestOf(entries[p])
            BY <1>1, <2>1, <2>5 DEF WriterInv, SaveInv
      <4>2. Listed' = entries[p]
            BY <2>1, <3>1, <4>1 DEF Listed, ManifestOf
      <4>3. op[p].entry \in entries[p]
            BY <1>1, <2>1, <2>5 DEF WriterInv, ListInv
      <4> QED
            BY <4>2, <4>3
    <3> QED
          BY <2>1, <2>2, <3>3, <3>4
  <2>6. CASE op[p].next = "delSaved"
        BY <2>1, <2>2, <2>6 DEF BothSides, Saving
  <2> QED
        BY <2>1, <2>3, <2>4, <2>5, <2>6
<1>6. CASE PushEntry(p)
  <2>1. pc[p] = "addPush" /\ pc'[p] = "open" /\ fs' = fs
        BY <1>1, <1>6 DEF PushEntry, SaveManifest
  <2>2. op'[p].next = "addSaved" /\ op'[p].entry = op[p].entry /\ op'[p].user = op[p].user
        BY <1>1, <1>6 DEF PushEntry, SaveManifest, Op
  <2>3. Copied(p)'
        BY <1>2, <2>1, <2>2, CopiedKept DEF BothSides
  <2> QED
        BY <2>1, <2>2, <2>3 DEF ExtractInv, AddInv
<1>7. CASE AfterExtract(p)
  <2>1. CASE op[p].move
    <3>1. pc[p] = "extDone" /\ pc'[p] = "open" /\ fs' = fs
          BY <1>1, <1>7, <2>1 DEF AfterExtract, DeleteFile, SaveManifest
    <3>2. op'[p].next = "delSaved" /\ op'[p].entry = op[p].entry /\ op'[p].user = op[p].user
      <4>1. op' = [op EXCEPT ![p] = [[op[p] EXCEPT !.next = "delSaved"]
                       EXCEPT !.file = Manifest, !.data = ManifestOf(entries[p] \ {op[p].entry})]]
            BY <1>7, <2>1 DEF AfterExtract, DeleteFile, SaveManifest
      <4>2. op'[p] = [[op[p] EXCEPT !.next = "delSaved"]
                       EXCEPT !.file = Manifest, !.data = ManifestOf(entries[p] \ {op[p].entry})]
            BY <1>1, <4>1
      <4> QED
            BY <1>9, <4>2 DEF Op
    <3>3. Copied(p)'
          BY <1>2, <3>1, <3>2, CopiedKept DEF BothSides
    <3> QED
          BY <3>1, <3>2, <3>3 DEF ExtractInv, AddInv
  <2>2. CASE ~ op[p].move
        BY <1>1, <1>7, <2>2 DEF AfterExtract, Finish, ExtractInv, AddInv, BothSides, Saving
  <2> QED
        BY <2>1, <2>2
<1>8. CASE Unwind(p) \/ RemoveSource(p) \/ RemoveObject(p)
      BY <1>1, <1>8 DEF Unwind, RemoveSource, RemoveObject, Finish, ExtractInv, AddInv,
                        BothSides, Saving
<1> QED
    BY <1>3, <1>4, <1>5, <1>6, <1>7, <1>8 DEF Step

LEMMA TransferInvStep ==
  ASSUME OneRun, LeftAlone, ObjectInv, TransferInv, [Next]_vars
  PROVE  TransferInv'
<1> USE UserFiles, DistinctFiles
<1> SUFFICES ASSUME NEW p \in Proc
             PROVE  /\ ExtractInv(p)' /\ AddInv(p)'
                    /\ BothSides(p)' => Copied(p)'
                    /\ pc'[p] = "addSaved" => op'[p].entry \in Listed'
    BY DEF TransferInv
<1>1. /\ fs \in [File -> FileData] /\ fd \in [Proc -> SUBSET File]
      /\ pc \in [Proc -> {"closed", "ready"} \cup Steps]
      /\ op \in [Proc -> Op \cup {NoOp}]
      /\ TypeOK /\ WriterInv /\ \A q \in Proc : q = p
      BY DEF ObjectInv, WriterInv, TypeOK, OneRun, SingleWriter
<1>2. /\ ExtractInv(p) /\ AddInv(p)
      /\ BothSides(p) => Copied(p)
      /\ pc[p] = "addSaved" => op[p].entry \in Listed
      BY DEF TransferInv
<1>3. CASE OpenVault(p) \/ CloseVault(p) \/ Crash(p)
      BY <1>1, <1>3 DEF OpenVault, CloseVault, Crash, Finish, ExtractInv, AddInv,
                        BothSides, Saving
<1>4. CASE Command(p)
  <2>1. ASSUME NEW src \in UserPath, NEW n \in UserPath, NEW move \in BOOLEAN,
               AddFile(p, src, n, move)
        PROVE  pc'[p] = "addRead"
        BY <1>1, <2>1 DEF AddFile
  <2>2. ASSUME NEW n \in UserPath, NEW output \in UserPath, NEW move \in BOOLEAN,
               ExtractFile(p, n, output, move)
        PROVE  /\ pc'[p] = "open" /\ op'[p].next = "extDone" /\ fs' = fs
               /\ \E c \in Content : op'[p].data = Plain(c) /\ Opens(op'[p].entry, c)
    <3>1. PICK e \in Named(entries[p], n), c \in Content :
            /\ Opens(e, c)
            /\ op' = [op EXCEPT ![p] =
                        [cmd |-> "extract", entry |-> e, user |-> output, move |-> move,
                         file |-> output, data |-> Plain(c), next |-> "extDone"]]
          BY <2>2 DEF ExtractFile
    <3>2. op'[p] = [cmd |-> "extract", entry |-> e, user |-> output, move |-> move,
                    file |-> output, data |-> Plain(c), next |-> "extDone"]
          BY <1>1, <3>1
    <3> QED
          BY <1>1, <2>2, <3>1, <3>2 DEF ExtractFile
  <2>3. ASSUME NEW n \in UserPath, RemoveFile(p, n)
        PROVE  pc'[p] = "open" /\ op'[p].next = "delSaved" /\ op'[p].cmd = "remove"
        BY <1>1, <2>3 DEF RemoveFile, DeleteFile, SaveManifest
  <2>4. ASSUME pc'[p] = "addRead"
        PROVE  ExtractInv(p)' /\ AddInv(p)' /\ ~ BothSides(p)'
        BY <2>4 DEF ExtractInv, AddInv, BothSides, Saving
  <2>5. ASSUME pc'[p] = "open", op'[p].next = "extDone", fs' = fs,
               \E c \in Content : op'[p].data = Plain(c) /\ Opens(op'[p].entry, c)
        PROVE  ExtractInv(p)' /\ AddInv(p)' /\ ~ BothSides(p)'
        BY <2>5 DEF ExtractInv, AddInv, BothSides, Saving, Opens, ObjectOf, Obj, Plain
  <2>6. ASSUME pc'[p] = "open", op'[p].next = "delSaved", op'[p].cmd = "remove"
        PROVE  ExtractInv(p)' /\ AddInv(p)' /\ ~ BothSides(p)'
        BY <2>6 DEF ExtractInv, AddInv, BothSides, Saving
  <2>7. pc'[p] \in {"addRead", "open"}
        BY <1>4, <2>1, <2>2, <2>3 DEF Command
  <2> QED
        BY <1>4, <2>1, <2>2, <2>3, <2>4, <2>5, <2>6, <2>7 DEF Command
<1>5. CASE Step(p)
      BY <1>5, TransferInvOfStep
<1>6. ASSUME NEW q \in UserPath, UserEdit(q)
      PROVE  /\ ExtractInv(p)' /\ AddInv(p)'
             /\ BothSides(p)' => Copied(p)'
             /\ pc'[p] = "addSaved" => op'[p].entry \in Listed'
  <2>1. pc' = pc /\ op' = op /\ Listed' = Listed
        BY <1>1, <1>6, TargetFiles DEF UserEdit, Unlink, Listed, Target
  <2>2. ASSUME NEW f \in File, f # q
        PROVE  fs'[f] = fs[f] /\ (f \in fd[p] <=> f \in fd'[p])
        BY <1>1, <1>6, <2>2 DEF UserEdit, Unlink
  <2>3. ASSUME Running(p)
        PROVE  /\ fs'[Obj(op[p].entry.id)] = fs[Obj(op[p].entry.id)]
               /\ op[p].cmd \in {"add", "extract"} => fs'[op[p].user] = fs[op[p].user]
               /\ fs'[Tmp(op[p].file)] = fs[Tmp(op[p].file)]
    <3>1. /\ op[p].entry.id \in Id /\ Obj(op[p].entry.id) \in File
          /\ op[p].user \in File /\ op[p].file \in Target /\ Tmp(op[p].file) \in File
          BY <1>1, <2>3, OpType
    <3>2. op[p].cmd \in {"add", "extract"} => op[p].user # q
          BY <1>1, <1>6 DEF UserEdit, Free, InUse, LeftAlone
    <3> QED
          BY <2>2, <3>1, <3>2
  <2>4. CASE Running(p)
    <3>1. AddInv(p)'
      <4>1. op[p].next = "addPush" => op[p].cmd = "add"
            BY <1>1, <2>4 DEF WriterInv, PhaseInv
      <4> QED
            BY <1>2, <2>1, <2>3, <2>4, <4>1 DEF AddInv, Plain, ObjectOf, Saving
    <3>2. ExtractInv(p)'
      <4> SUFFICES ASSUME Saving(p), op[p].next = "extDone"
                   PROVE  ExtractInv(p)'
          BY <2>1 DEF ExtractInv, Saving
      <4>1. (\E c \in Content : op[p].data = Plain(c) /\ Opens(op[p].entry, c))'
            BY <1>2, <2>1, <2>3, <2>4 DEF ExtractInv, Opens, ObjectOf, Plain, Obj
      <4>2. pc'[p] = "write" => fd'[p] = {Tmp(op[p].file)}
        <5>1. op[p].file \in Target /\ Tmp(op[p].file) # q
              BY <1>1, <2>4, OpType
        <5>2. fd'[p] = fd[p] \/ fd'[p] = fd[p] \ {q}
              BY <1>1, <1>6 DEF UserEdit, Unlink
        <5> QED
              BY <1>2, <2>1, <5>1, <5>2 DEF ExtractInv
      <4> QED
            BY <1>2, <2>1, <2>3, <2>4, <4>1, <4>2 DEF ExtractInv, Tmp
    <3>3. BothSides(p) => op[p].cmd \in {"add", "extract"}
          BY <1>1, <2>4 DEF BothSides, WriterInv, PhaseInv
    <3>4. BothSides(p)' <=> BothSides(p)
          BY <2>1 DEF BothSides, Saving
    <3> QED
          BY <1>2, <2>1, <2>3, <2>4, <3>1, <3>2, <3>3, <3>4, CopiedKept
  <2>5. CASE ~ Running(p)
        BY <2>1, <2>5 DEF Running, Steps, ExtractInv, AddInv, BothSides, Saving
  <2> QED
        BY <2>4, <2>5
<1>7. CASE UNCHANGED vars
      BY <1>2, <1>7 DEF vars, ExtractInv, AddInv, BothSides, Copied, Saving, Opens, ObjectOf,
                        Obj, Plain, Tmp, Listed
<1> QED
    BY <1>1, <1>3, <1>4, <1>5, <1>6, <1>7 DEF Next

LEMMA TransferInvInit == Init => TransferInv
BY DEF Init, TransferInv, ExtractInv, AddInv, BothSides, Saving

\* What the user sees, as sets.
LEMMA UserView ==
  ASSUME TypeOK
  PROVE  /\ \A n \in UserPath : Inside[n] = {c \in Content : \E e \in Listed : e.name = n /\ Opens(e, c)}
         /\ \A q \in UserPath : Outside[q] = {c \in Content : fs[q] = Plain(c)}
         /\ \A p \in Proc : Held[p] = {c \in Content : op[p].cmd = "extract" /\ op[p].data = Plain(c)}
BY DEF Inside, Outside, Held

LEMMA NamesTyped == TypeOK => InUse \in SUBSET UserPath /\ Asked \in SUBSET UserPath
<1> SUFFICES ASSUME TypeOK PROVE InUse \subseteq UserPath /\ Asked \subseteq UserPath
    OBVIOUS
<1>1. ASSUME NEW p \in Proc, op[p].cmd \in {"add", "extract", "remove"}
      PROVE  op[p].user \in UserPath /\ op[p].entry.name \in UserPath
  <2>1. op[p] \in Op
        BY <1>1 DEF TypeOK, NoOp
  <2> QED
        BY <2>1 DEF Op, Entry
<1> QED
    BY <1>1 DEF InUse, Asked

\* A name stores the content that its entry opens to.
LEMMA StoredContent ==
  ASSUME TypeOK, NamesAndIdsUnique, NEW e \in Listed, NEW c \in Content, Opens(e, c)
  PROVE  e.name \in UserPath /\ Inside[e.name] = {c}
<1>1. e.name \in UserPath
      BY ListedType DEF Entry
<1>2. \A d \in Content : Opens(e, d) => d = c
      BY DEF Opens, ObjectOf
<1>3. \A f \in Listed : f.name = e.name => f = e
      BY DEF NamesAndIdsUnique
<1> QED
    BY <1>1, <1>2, <1>3, UserView

LEMMA PlainContent ==
  ASSUME TypeOK, NEW q \in UserPath, NEW c \in Content, fs[q] = Plain(c)
  PROVE  Outside[q] = {c}
<1>1. \A d \in Content : Plain(c) = Plain(d) => c = d
      BY DEF Plain
<1>2. Outside[q] = {d \in Content : fs[q] = Plain(d)}
      BY UserView
<1> QED
    BY <1>1, <1>2

LEMMA InsideKept ==
  ASSUME Listed' = Listed, \A e \in Listed : fs'[Obj(e.id)] = fs[Obj(e.id)]
  PROVE  Inside' = Inside
<1>1. ASSUME NEW e \in Listed, NEW c \in Content
      PROVE  Opens(e, c)' <=> Opens(e, c)
      BY <1>1 DEF Opens, ObjectOf, Obj
<1> QED
    BY <1>1 DEF Inside

LEMMA OutsideKept ==
  ASSUME \A q \in UserPath : fs'[q] = fs[q]
  PROVE  Outside' = Outside
BY DEF Outside, Plain

\* One file or one name changes.
LEMMA OutsideChange ==
  ASSUME NEW q \in UserPath, NEW D \in SUBSET Content,
         \A r \in UserPath : r # q => fs'[r] = fs[r],
         \A c \in Content : fs'[q] = Plain(c) <=> c \in D
  PROVE  Outside' = [Outside EXCEPT ![q] = D]
<1>1. Outside' = [r \in UserPath |-> {c \in Content : fs'[r] = Plain(c)}]
      BY DEF Outside, Plain
<1>2. ASSUME NEW r \in UserPath, r # q
      PROVE  {c \in Content : fs'[r] = Plain(c)} = {c \in Content : fs[r] = Plain(c)}
      BY <1>2
<1> QED
    BY <1>1, <1>2 DEF Outside

LEMMA InsideChange ==
  ASSUME NEW n \in UserPath, NEW D,
         \A m \in UserPath : m # n => Inside'[m] = Inside[m],
         Inside'[n] = D
  PROVE  Inside' = [Inside EXCEPT ![n] = D]
<1>1. /\ Inside = [m \in UserPath |-> Inside[m]]
      /\ Inside' = [m \in UserPath |-> Inside'[m]]
      BY DEF Inside
<1> QED
    BY <1>1

\* A step that moves no content, and at most lets go of the one it holds.
LEMMA QuietStep ==
  ASSUME OneRun, TypeOK, TypeOK', Inside' = Inside, Outside' = Outside, NEW p \in Proc,
         \/ Held'[p] = Held[p]
         \/ Held'[p] = {} /\ op[p].cmd # "remove" /\ op'[p].cmd # "remove"
  PROVE  Transfer!Next
<1>1. \A r \in Proc : r = p
      BY DEF OneRun, SingleWriter
<1>2. (InUse \in SUBSET UserPath /\ Asked \in SUBSET UserPath)'
      BY NamesTyped, PTL
<1>3. CASE Held'[p] = Held[p]
  <2>1. Held' = Held
        BY <1>1, <1>3 DEF Held
  <2> QED
        BY <1>2, <2>1 DEF Transfer!Next, Transfer!Commands
<1>4. CASE Held'[p] = {} /\ op[p].cmd # "remove" /\ op'[p].cmd # "remove"
  <2>1. Held' = [Held EXCEPT ![p] = {}]
        BY <1>1, <1>4 DEF Held
  <2>2. Asked' = Asked
        BY <1>1, <1>4 DEF Asked
  <2> QED
        BY <1>2, <2>1, <2>2 DEF Transfer!Next, Transfer!Forget, Transfer!None
<1> QED
    BY <1>3, <1>4

\* A renamed file, as the user sees it.
LEMMA RenameMoves ==
  ASSUME OneRun, LeftAlone, ObjectInv, ObjectInv', TransferInv, TransferInv',
         NEW p \in Proc, RenameTmp(p)
  PROVE  Transfer!Next
<1> USE UserFiles, DistinctFiles
<1>1. /\ Saving(p) /\ pc[p] = "rename" /\ pc'[p] = op[p].next /\ op' = op
      /\ op[p].next \in {"addPush", "addSaved", "extDone", "delSaved"}
      /\ fs'[op[p].file] = op[p].data
      /\ \A q \in UserPath : q # op[p].file => fs'[q] = fs[q]
      /\ \A id \in Id : Obj(id) # op[p].file => fs'[Obj(id)] = fs[Obj(id)]
      /\ op[p].file # Manifest => fs'[Manifest] = fs[Manifest]
      BY RenameKept
<1>2. /\ WriterInv /\ TypeOK /\ TypeOK' /\ NamesAndIdsUnique /\ p \in Writer
      /\ \A r \in Proc : r = p
      BY DEF ObjectInv, WriterInv, OneRun, SingleWriter
<1>3. /\ Running(p) /\ op[p].entry \in Entry /\ op[p].entry.id \in Id
      /\ op[p].user \in UserPath /\ op[p].entry.name \in UserPath
  <2>1. Running(p)
        BY <1>1 DEF Running, Steps
  <2> QED
        BY <1>2, <2>1, OpType DEF Entry
<1>4. /\ ExtractInv(p) /\ AddInv(p)
      /\ BothSides(p) => Copied(p)
      /\ BothSides(p)' => Copied(p)'
      BY DEF TransferInv
<1>5. Held' = Held /\ Asked' = Asked /\ InUse' \in SUBSET UserPath
  <2>1. (InUse \in SUBSET UserPath)'
        BY <1>2, NamesTyped, PTL
  <2> QED
        BY <1>1, <2>1 DEF Held, Asked
<1>6. Listed \subseteq Entry
      BY <1>2, ListedType
<1>7. CASE op[p].next = "addPush"
  <2>1. op[p].file = Obj(op[p].entry.id) /\ op[p].cmd = "add"
        BY <1>2, <1>3, <1>7 DEF WriterInv, PhaseInv
  <2>2. Listed' = Listed
        BY <1>1, <1>3, <2>1 DEF Listed
  <2>3. \A e \in Listed : e.id # op[p].entry.id
        BY <1>1, <1>2, <1>3, <2>1 DEF WriterInv, EntryInv
  <2>4. \A e \in Listed : fs'[Obj(e.id)] = fs[Obj(e.id)]
        BY <1>1, <1>3, <1>6, <2>1, <2>3 DEF Entry
  <2>5. Inside' = Inside /\ Outside' = Outside
        BY <1>1, <1>3, <2>1, <2>2, <2>4, InsideKept, OutsideKept
  <2> QED
        BY <1>2, <1>5, <2>5, QuietStep
<1>8. CASE op[p].next = "extDone"
  <2>1. op[p].file = op[p].user /\ op[p].cmd = "extract"
        BY <1>2, <1>3, <1>8 DEF WriterInv, PhaseInv
  <2>2. Listed' = Listed
        BY <1>1, <1>3, <2>1 DEF Listed
  <2>3. \A e \in Listed : fs'[Obj(e.id)] = fs[Obj(e.id)]
        BY <1>1, <1>3, <1>6, <2>1 DEF Entry
  <2>4. Inside' = Inside
        BY <2>2, <2>3, InsideKept
  <2>5. PICK c \in Content : op[p].data = Plain(c)
        BY <1>1, <1>4, <1>8 DEF ExtractInv
  <2>6. Held[p] = {c}
    <3>1. \A d \in Content : Plain(c) = Plain(d) => c = d
          BY DEF Plain
    <3> QED
          BY <1>2, <2>1, <2>5, <3>1, UserView
  <2>7. Outside' = [Outside EXCEPT ![op[p].user] = {c}]
    <3>1. {c} \in SUBSET Content
          OBVIOUS
    <3>2. \A d \in Content : fs'[op[p].user] = Plain(d) <=> d \in {c}
          BY <1>1, <2>1, <2>5 DEF Plain
    <3>3. \A q \in UserPath : q # op[p].user => fs'[q] = fs[q]
          BY <1>1, <2>1
    <3> QED
          BY <1>3, <3>1, <3>2, <3>3, OutsideChange, Zenon
  <2>8. Transfer!Release(p, op[p].user)
        BY <1>5, <2>4, <2>6, <2>7 DEF Transfer!Release, Transfer!None
  <2> QED
        BY <1>3, <1>5, <2>8 DEF Transfer!Next
<1>9. CASE op[p].next \in {"addSaved", "delSaved"}
  <2>1. op[p].file = Manifest
        BY <1>2, <1>3, <1>9 DEF WriterInv, PhaseInv
  <2>2. Listed' = entries[p]
    <3>1. op[p].data = ManifestOf(entries[p])
          BY <1>1, <1>2, <1>9 DEF WriterInv, SaveInv
    <3> QED
          BY <1>1, <2>1, <3>1 DEF Listed, ManifestOf
  <2>3. /\ op[p].next = "addSaved" => Listed' = Listed \cup {op[p].entry}
        /\ op[p].next = "delSaved" => Listed' = Listed \ {op[p].entry}
        BY <1>1, <1>2, <1>9, <2>2 DEF WriterInv, ListInv
  <2>4. Outside' = Outside
        BY <1>1, <2>1, OutsideKept
  <2>5. \A id \in Id : fs'[Obj(id)] = fs[Obj(id)]
        BY <1>1, <2>1
  <2>6. \A e \in Entry, c \in Content : Opens(e, c)' <=> Opens(e, c)
        BY <2>5 DEF Opens, ObjectOf, Obj, Entry
  <2>7. \A n \in UserPath :
          Inside'[n] = {c \in Content : \E e \in Listed' : e.name = n /\ Opens(e, c)}
    <3>1. Listed' \subseteq Entry
          BY <1>3, <1>6, <1>9, <2>3
    <3>2. \A n \in UserPath :
            Inside'[n] = {c \in Content : \E e \in Listed' : e.name = n /\ Opens(e, c)'}
          BY DEF Inside
    <3> QED
          BY <2>6, <3>1, <3>2
  <2>8. ASSUME NEW n \in UserPath, n # op[p].entry.name
        PROVE  Inside'[n] = Inside[n]
    <3>1. \A e : e \in Listed' /\ e.name = n <=> e \in Listed /\ e.name = n
          BY <1>9, <2>3, <2>8
    <3>2. Inside[n] = {c \in Content : \E e \in Listed : e.name = n /\ Opens(e, c)}
          BY <1>2, UserView
    <3> QED
          BY <2>7, <3>1, <3>2
  <2>9. CASE op[p].next = "addSaved"
    <3>1. op[p].cmd = "add"
          BY <1>2, <1>3, <2>9 DEF WriterInv, PhaseInv
    <3>2. \A e \in Listed : e.name # op[p].entry.name
          BY <1>1, <1>2, <1>3, <3>1 DEF WriterInv, EntryInv
    <3>3. PICK c \in Content : fs[op[p].user] = Plain(c) /\ Opens(op[p].entry, c)
          BY <1>1, <1>4, <2>9 DEF BothSides, Copied
    <3>4. Outside[op[p].user] = {c}
          BY <1>2, <1>3, <3>3, PlainContent
    <3>5. Inside[op[p].entry.name] = {}
          BY <1>2, <1>3, <3>2, UserView
    <3>6. Inside'[op[p].entry.name] = {c}
      <4>1. \A d \in Content : Opens(op[p].entry, d) => d = c
            BY <3>3 DEF Opens, ObjectOf
      <4> QED
            BY <1>3, <2>3, <2>7, <2>9, <3>2, <3>3, <4>1
    <3>7. Inside' = [Inside EXCEPT ![op[p].entry.name] = {c}]
          BY <1>3, <2>8, <3>6, InsideChange
    <3>8. Transfer!Deposit(op[p].user, op[p].entry.name)
          BY <1>5, <2>4, <3>4, <3>5, <3>7 DEF Transfer!Deposit, Transfer!None
    <3> QED
          BY <1>3, <1>5, <3>8 DEF Transfer!Next
  <2>10. CASE op[p].next = "delSaved"
    <3>1. op[p].entry \in Listed
          BY <1>1, <1>2, <1>3, <2>10 DEF WriterInv, EntryInv
    <3>2. \A e \in Listed : e.name = op[p].entry.name => e = op[p].entry
          BY <1>2, <3>1 DEF NamesAndIdsUnique
    <3>3. Inside' = [Inside EXCEPT ![op[p].entry.name] = {}]
      <4>1. Inside'[op[p].entry.name] = {}
            BY <1>3, <2>3, <2>7, <2>10, <3>2
      <4> QED
            BY <1>3, <2>8, <4>1, InsideChange
    <3>4. op[p].entry.name \in Asked
             \/ \E q \in UserPath : /\ Inside[op[p].entry.name] # {}
                                    /\ Outside[q] = Inside[op[p].entry.name]
      <4>1. CASE op[p].cmd = "extract"
        <5>1. PICK c \in Content : fs[op[p].user] = Plain(c) /\ Opens(op[p].entry, c)
              BY <1>1, <1>4, <2>10, <4>1 DEF BothSides, Copied
        <5>2. Inside[op[p].entry.name] = {c}
              BY <1>2, <3>1, <5>1, StoredContent
        <5>3. Outside[op[p].user] = {c}
              BY <1>2, <1>3, <5>1, PlainContent
        <5> QED
              BY <1>3, <5>2, <5>3
      <4>2. CASE op[p].cmd # "extract"
        <5>1. op[p].cmd \in {"add", "extract", "remove"}
              BY <1>2, <1>3, OpType DEF Op
        <5>2. op[p].cmd = "remove"
              BY <1>2, <1>3, <2>10, <4>2, <5>1 DEF WriterInv, PhaseInv
        <5> QED
              BY <5>2 DEF Asked
      <4> QED
            BY <4>1, <4>2
    <3>5. Transfer!Withdraw(op[p].entry.name)
          BY <1>5, <2>4, <3>3, <3>4 DEF Transfer!Withdraw, Transfer!None
    <3> QED
          BY <1>3, <1>5, <3>5 DEF Transfer!Next
  <2> QED
        BY <1>9, <2>9, <2>10
<1> QED
    BY <1>1, <1>7, <1>8, <1>9

\* The other steps of a command.
LEMMA StepMoves ==
  ASSUME OneRun, LeftAlone, ObjectInv, ObjectInv', TransferInv, TransferInv',
         NEW p \in Proc, Step(p)
  PROVE  Transfer!Next
<1> USE UserFiles, DistinctFiles
<1>1. /\ WriterInv /\ TypeOK /\ TypeOK' /\ NamesAndIdsUnique /\ p \in Writer
      /\ \A r \in Proc : r = p
      BY DEF ObjectInv, WriterInv, OneRun, SingleWriter
<1>2. /\ Running(p) /\ op[p] \in Op /\ op[p].entry.id \in Id
      /\ op[p].user \in UserPath /\ op[p].user \in File
      /\ Obj(op[p].entry.id) \in File /\ op[p].entry.name \in UserPath
      BY <1>1, StepFacts DEF Entry
<1>3. Listed \subseteq Entry
      BY <1>1, ListedType
<1>4. ASSUME op'[p] = NoOp
      PROVE  \/ Held'[p] = Held[p]
             \/ Held'[p] = {} /\ op[p].cmd # "remove" /\ op'[p].cmd # "remove"
  <2>1. Held'[p] = {}
        BY <1>4 DEF Held, NoOp
  <2>2. op[p].cmd # "extract" => Held[p] = {}
        BY <1>1, UserView
  <2> QED
        BY <1>4, <2>1, <2>2 DEF NoOp
<1>5. ASSUME fs' = fs PROVE Inside' = Inside /\ Outside' = Outside
  <2>1. Listed' = Listed
        BY <1>5 DEF Listed
  <2> QED
        BY <1>5, <2>1, InsideKept, OutsideKept
<1>6. CASE ReadSource(p)
  <2>1. op[p].cmd = "add" /\ op'[p].cmd # "extract"
    <3>1. op[p].cmd = "add"
          BY <1>1, <1>2, <1>6 DEF ReadSource, WriterInv, PhaseInv
    <3>2. CASE fs[op[p].user].kind = "plain"
          BY <1>1, <1>2, <1>6, <3>1, <3>2 DEF ReadSource, WriterInv, TypeOK, Op
    <3>3. CASE fs[op[p].user].kind # "plain"
          BY <1>1, <1>2, <1>6, <3>1, <3>3 DEF ReadSource, Finish, WriterInv, TypeOK, NoOp
    <3> QED
          BY <3>1, <3>2, <3>3
  <2>2. Held[p] = {} /\ Held'[p] = {}
        BY <2>1 DEF Held
  <2> QED
        BY <1>1, <1>5, <1>6, <2>2, QuietStep DEF ReadSource
<1>7. CASE OpenTmp(p) \/ WriteTmp(p) \/ WriteFails(p)
  <2>1. /\ op' = op
        /\ \A id \in Id : fs'[Obj(id)] = fs[Obj(id)]
        /\ fs'[Manifest] = fs[Manifest]
        /\ \A q \in UserPath : fs'[q] = fs[q]
        BY <1>7, UnrenamedKept
  <2>2. Listed' = Listed
        BY <2>1 DEF Listed
  <2>3. Inside' = Inside /\ Outside' = Outside
        BY <1>3, <2>1, <2>2, InsideKept, OutsideKept DEF Entry
  <2>4. Held' = Held
        BY <2>1 DEF Held
  <2> QED
        BY <1>1, <2>3, <2>4, QuietStep
<1>8. CASE RenameTmp(p)
      BY <1>8, RenameMoves
<1>9. ASSUME op'[p] = NoOp, \A e \in Listed : e.id # op[p].entry.id,
             fs' = [fs EXCEPT ![Obj(op[p].entry.id)] = Absent]
      PROVE  Transfer!Next
  <2>1. Listed' = Listed
        BY <1>1, <1>2, <1>9 DEF Listed
  <2>2. \A e \in Listed : fs'[Obj(e.id)] = fs[Obj(e.id)]
        BY <1>1, <1>2, <1>3, <1>9 DEF WriterInv, TypeOK, Entry
  <2>3. \A q \in UserPath : fs'[q] = fs[q]
        BY <1>1, <1>2, <1>9 DEF WriterInv, TypeOK
  <2> QED
        BY <1>1, <1>4, <1>9, <2>1, <2>2, <2>3, InsideKept, OutsideKept, QuietStep
<1>10. ASSUME op'[p] = NoOp, fs' = fs
       PROVE  Transfer!Next
      BY <1>1, <1>4, <1>5, <1>10, QuietStep
<1>11. CASE Unwind(p)
  <2>1. op'[p] = NoOp
        BY <1>1, <1>11 DEF Unwind, Finish, WriterInv, TypeOK
  <2>2. CASE op[p].next = "addSaved" /\ Unlink(Obj(op[p].entry.id))
    <3>1. op[p].cmd = "add" /\ pc[p] # "addSaved"
          BY <1>1, <1>2, <1>11, <2>2 DEF Unwind, WriterInv, PhaseInv
    <3>2. \A e \in Listed : e.id # op[p].entry.id
          BY <1>1, <1>2, <3>1 DEF WriterInv, EntryInv
    <3> QED
          BY <1>9, <2>1, <2>2, <3>2 DEF Unlink
  <2> QED
        BY <1>10, <1>11, <2>1, <2>2 DEF Unwind
<1>12. CASE RemoveObject(p)
  <2>1. op'[p] = NoOp
        BY <1>1, <1>12 DEF RemoveObject, Finish, WriterInv, TypeOK
  <2>2. \A e \in Listed : e.id # op[p].entry.id
        BY <1>1, <1>2, <1>12 DEF RemoveObject, WriterInv, EntryInv
  <2> QED
        BY <1>9, <1>10, <1>12, <2>1, <2>2 DEF RemoveObject, Unlink
<1>13. CASE PushEntry(p)
  <2>1. op[p].cmd = "add"
        BY <1>1, <1>2, <1>13 DEF PushEntry, WriterInv, PhaseInv
  <2>2. op'[p].cmd = "add"
        BY <1>1, <1>2, <1>13, <2>1 DEF PushEntry, SaveManifest, WriterInv, TypeOK, Op
  <2>3. Held[p] = {} /\ Held'[p] = {}
        BY <2>1, <2>2 DEF Held
  <2> QED
        BY <1>1, <1>5, <1>13, <2>3, QuietStep DEF PushEntry, SaveManifest
<1>14. CASE AfterExtract(p)
  <2>1. CASE op[p].move
    <3>1. op[p].cmd = "extract"
          BY <1>1, <1>2, <1>14 DEF AfterExtract, WriterInv, PhaseInv
    <3>2. op'[p] = [[op[p] EXCEPT !.next = "delSaved"]
                     EXCEPT !.file = Manifest, !.data = ManifestOf(entries[p] \ {op[p].entry})]
      <4>1. op' = [op EXCEPT ![p] = [[op[p] EXCEPT !.next = "delSaved"]
                     EXCEPT !.file = Manifest, !.data = ManifestOf(entries[p] \ {op[p].entry})]]
            BY <1>14, <2>1 DEF AfterExtract, DeleteFile, SaveManifest
      <4> QED
            BY <1>1, <4>1 DEF WriterInv, TypeOK
    <3>3. op'[p].cmd = "extract" /\ op'[p].data = ManifestOf(entries[p] \ {op[p].entry})
          BY <1>2, <3>1, <3>2 DEF Op
    <3>4. \A c \in Content : op'[p].data # Plain(c)
          BY <3>3 DEF ManifestOf, Plain
    <3>5. Held'[p] = {}
          BY <3>4 DEF Held, Plain
    <3>6. fs' = fs
          BY <1>14, <2>1 DEF AfterExtract, DeleteFile, SaveManifest
    <3> QED
          BY <1>1, <1>5, <3>1, <3>3, <3>5, <3>6, QuietStep
  <2>2. CASE ~ op[p].move
        BY <1>1, <1>10, <1>14, <2>2 DEF AfterExtract, Finish, WriterInv, TypeOK
  <2> QED
        BY <2>1, <2>2
<1>15. CASE RemoveSource(p)
  <2>1. op'[p] = NoOp
        BY <1>1, <1>15 DEF RemoveSource, Finish, WriterInv, TypeOK
  <2>2. CASE Unlink(op[p].user)
    <3>1. pc[p] = "addSaved" /\ op[p].cmd = "add"
          BY <1>1, <1>2, <1>15 DEF RemoveSource, WriterInv, PhaseInv
    <3>2. PICK c \in Content : fs[op[p].user] = Plain(c) /\ Opens(op[p].entry, c)
          BY <3>1 DEF TransferInv, BothSides, Copied
    <3>3. op[p].entry \in Listed
          BY <3>1 DEF TransferInv
    <3>4. /\ \A q \in UserPath : q # op[p].user => fs'[q] = fs[q]
          /\ fs'[op[p].user] = Absent
          /\ Listed' = Listed
          /\ \A e \in Listed : fs'[Obj(e.id)] = fs[Obj(e.id)]
          BY <1>1, <1>2, <1>3, <2>2 DEF Unlink, WriterInv, TypeOK, Listed, Entry
    <3>5. Inside' = Inside
          BY <3>4, InsideKept
    <3>6. Outside' = [Outside EXCEPT ![op[p].user] = {}]
      <4>1. \A d \in Content : fs'[op[p].user] = Plain(d) <=> d \in {}
            BY <3>4 DEF Plain, Absent
      <4>2. {} \in SUBSET Content
            OBVIOUS
      <4> QED
            BY <1>2, <3>4, <4>1, <4>2, OutsideChange, Zenon
    <3>7. Inside[op[p].entry.name] = {c} /\ Outside[op[p].user] = {c}
          BY <1>1, <1>2, <3>2, <3>3, StoredContent, PlainContent
    <3>8. Held' = Held /\ Asked' = Asked
          BY <1>1, <2>1, <3>1 DEF Held, Asked, NoOp
    <3>9. Transfer!DropSource(op[p].user)
          BY <1>2, <3>5, <3>6, <3>7, <3>8 DEF Transfer!DropSource, Transfer!None
    <3>10. (InUse \in SUBSET UserPath)'
          BY <1>1, NamesTyped, PTL
    <3> QED
          BY <1>2, <3>9, <3>10 DEF Transfer!Next
  <2> QED
        BY <1>10, <1>15, <2>1, <2>2 DEF RemoveSource
<1> QED
    BY <1>6, <1>7, <1>8, <1>11, <1>12, <1>13, <1>14, <1>15 DEF Step

\* The beginning of a command.
LEMMA CommandMoves ==
  ASSUME OneRun, LeftAlone, ObjectInv, ObjectInv', NEW p \in Proc, Command(p)
  PROVE  Transfer!Next
<1>1. /\ WriterInv /\ TypeOK /\ TypeOK' /\ NamesAndIdsUnique /\ p \in Writer
      /\ \A r \in Proc : r = p
      BY DEF ObjectInv, WriterInv, OneRun, SingleWriter
<1>2. Idle(p)
      BY DEF Command, AddFile, ExtractFile, RemoveFile
<1>3. op[p] = NoOp
      BY <1>1, <1>2 DEF WriterInv, TypeOK, Idle, Running, Steps
<1>4. entries[p] = Listed
      BY <1>1, <1>2 DEF WriterInv, ListInv, Idle, Saving
<1>5. fs' = fs
      BY DEF Command, AddFile, ExtractFile, RemoveFile, DeleteFile, SaveManifest
<1>6. Inside' = Inside /\ Outside' = Outside
  <2>1. Listed' = Listed
        BY <1>5 DEF Listed
  <2> QED
        BY <1>5, <2>1, InsideKept, OutsideKept
<1>7. Held[p] = {}
      BY <1>3 DEF Held, NoOp
<1>8. ASSUME op'[p].cmd # "extract"
      PROVE  Transfer!Next
  <2>1. Held'[p] = {}
        BY <1>8 DEF Held
  <2> QED
        BY <1>1, <1>6, <1>7, <2>1, QuietStep
<1>9. ASSUME NEW src \in UserPath, NEW n \in UserPath, NEW move \in BOOLEAN,
             AddFile(p, src, n, move)
      PROVE  op'[p].cmd = "add"
      BY <1>1, <1>9 DEF AddFile, WriterInv, TypeOK
<1>10. ASSUME NEW n \in UserPath, RemoveFile(p, n)
       PROVE  op'[p].cmd = "remove"
      BY <1>1, <1>10 DEF RemoveFile, DeleteFile, SaveManifest, WriterInv, TypeOK
<1>11. ASSUME NEW n \in UserPath, NEW output \in UserPath, NEW move \in BOOLEAN,
              ExtractFile(p, n, output, move)
       PROVE  Transfer!Next
  <2>1. PICK e \in Listed, c \in Content :
          /\ Opens(e, c)
          /\ op' = [op EXCEPT ![p] =
                      [cmd |-> "extract", entry |-> e, user |-> output, move |-> move,
                       file |-> output, data |-> Plain(c), next |-> "extDone"]]
        BY <1>4, <1>11 DEF ExtractFile, Named
  <2>2. op'[p].cmd = "extract" /\ op'[p].data = Plain(c)
        BY <1>1, <2>1 DEF WriterInv, TypeOK
  <2>3. e.name \in UserPath /\ Inside[e.name] = {c}
        BY <1>1, <2>1, StoredContent
  <2>4. Held'[p] = {c}
    <3>1. \A d \in Content : Plain(c) = Plain(d) <=> d = c
          BY DEF Plain
    <3>2. Held'[p] = {d \in Content : op'[p].cmd = "extract" /\ op'[p].data = Plain(d)}
          BY DEF Held, Plain
    <3> QED
          BY <2>2, <3>1, <3>2
  <2>5. Held' = [Held EXCEPT ![p] = {c}]
    <3>1. Held = [r \in Proc |-> Held[r]] /\ Held' = [r \in Proc |-> Held'[r]]
          BY DEF Held
    <3> QED
          BY <1>1, <2>4, <3>1
  <2>6. Asked' = Asked
        BY <1>1, <1>3, <2>2 DEF Asked, NoOp
  <2>7. Transfer!Hold(p, e.name)
        BY <1>6, <1>7, <2>3, <2>5, <2>6 DEF Transfer!Hold, Transfer!None
  <2>8. (InUse \in SUBSET UserPath)'
        BY <1>1, NamesTyped, PTL
  <2> QED
        BY <2>3, <2>7, <2>8 DEF Transfer!Next
<1> QED
    BY <1>8, <1>9, <1>10, <1>11 DEF Command

\* The user's own doing.
LEMMA UserMoves ==
  ASSUME OneRun, LeftAlone, ObjectInv, ObjectInv', NEW q \in UserPath, UserEdit(q)
  PROVE  Transfer!Next
<1> USE UserFiles, DistinctFiles
<1>1. TypeOK /\ TypeOK' /\ q \in File /\ fs \in [File -> FileData]
      BY DEF ObjectInv, WriterInv, TypeOK
<1>2. op' = op /\ q \notin InUse
      BY DEF UserEdit, Free, LeftAlone
<1>3. \A f \in File : f # q => fs'[f] = fs[f]
      BY <1>1 DEF UserEdit, Unlink
<1>4. Listed' = Listed
      BY <1>3 DEF Listed
<1>5. Inside' = Inside
  <2>1. \A e \in Listed : Obj(e.id) \in File /\ e.id \in Id
        BY <1>1, ListedType, TargetFiles DEF Entry, Target
  <2> QED
        BY <1>3, <1>4, <2>1, InsideKept
<1>6. Held' = Held /\ Asked' = Asked
      BY <1>2 DEF Held, Asked
<1>7. \A r \in UserPath : r # q => fs'[r] = fs[r]
      BY <1>3
<1>8. Transfer!Edit(q)
  <2>1. CASE fs'[q] = Absent
    <3>1. \A d \in Content : fs'[q] = Plain(d) <=> d \in {}
          BY <2>1 DEF Plain, Absent
    <3>2. {} \in SUBSET Content
          OBVIOUS
    <3>3. Outside' = [Outside EXCEPT ![q] = {}]
          BY <1>7, <3>1, <3>2, OutsideChange, Zenon
    <3> QED
          BY <1>2, <1>5, <1>6, <3>3 DEF Transfer!Edit, Transfer!None
  <2>2. ASSUME NEW c \in Content, fs'[q] = Plain(c)
        PROVE  Transfer!Edit(q)
    <3>1. \A d \in Content : fs'[q] = Plain(d) <=> d \in {c}
          BY <2>2 DEF Plain
    <3>2. {c} \in SUBSET Content
          OBVIOUS
    <3>3. Outside' = [Outside EXCEPT ![q] = {c}]
          BY <1>7, <3>1, <3>2, OutsideChange, Zenon
    <3> QED
          BY <1>2, <1>5, <1>6, <3>3 DEF Transfer!Edit, Transfer!None
  <2>3. fs'[q] = Absent \/ \E c \in Content : fs'[q] = Plain(c)
        BY <1>1 DEF UserEdit, Unlink
  <2> QED
        BY <2>1, <2>2, <2>3
<1>9. (InUse \in SUBSET UserPath)'
      BY <1>1, NamesTyped, PTL
<1> QED
    BY <1>8, <1>9 DEF Transfer!Next

LEMMA TransferStep ==
  ASSUME OneRun, LeftAlone, ObjectInv, ObjectInv', TransferInv, TransferInv', [Next]_vars
  PROVE  [Transfer!Next]_(Transfer!vars)
<1>1. /\ WriterInv /\ TypeOK /\ TypeOK'
      /\ \A p, r \in Proc : r = p
      BY DEF ObjectInv, WriterInv, OneRun, SingleWriter
<1>2. ASSUME NEW p \in Proc, OpenVault(p) \/ CloseVault(p) \/ Crash(p)
      PROVE  Transfer!Next
  <2>1. fs' = fs
        BY <1>2 DEF OpenVault, CloseVault, Crash
  <2>2. Listed' = Listed
        BY <2>1 DEF Listed
  <2>3. Inside' = Inside /\ Outside' = Outside
        BY <2>1, <2>2, InsideKept, OutsideKept
  <2>4. op' = op \/ op'[p] = NoOp
        BY <1>1, <1>2 DEF OpenVault, CloseVault, Crash, Finish, TypeOK
  <2>5. CASE op' = op
        BY <1>1, <2>3, <2>5, QuietStep DEF Held
  <2>6. CASE op'[p] = NoOp
    <3>1. Held'[p] = {}
          BY <2>6 DEF Held, NoOp
    <3>2. op[p].cmd # "extract" => Held[p] = {}
          BY <1>1, UserView
    <3>3. op'[p].cmd # "remove" /\ op'[p].cmd # "extract"
          BY <2>6 DEF NoOp
    <3>4. CASE op[p].cmd = "extract"
          BY <1>1, <2>3, <3>1, <3>3, <3>4, QuietStep
    <3>5. CASE op[p].cmd # "extract"
          BY <1>1, <2>3, <3>1, <3>2, <3>5, QuietStep
    <3> QED
          BY <3>4, <3>5
  <2> QED
        BY <2>4, <2>5, <2>6
<1>3. CASE UNCHANGED vars
      BY <1>3 DEF vars, Transfer!vars, Inside, Outside, Held, Asked, InUse, Listed, Opens,
                  Obj, ObjectOf, Plain
<1> QED
    BY <1>2, <1>3, CommandMoves, StepMoves, UserMoves DEF Next

LEMMA TransferInit == Init => Transfer!Init
<1> SUFFICES ASSUME Init PROVE Transfer!Init
    OBVIOUS
<1>1. TypeOK /\ UserPath \subseteq File /\ Manifest \notin UserPath
      BY InitTyped, TargetFiles, DistinctFiles DEF Target
<1>2. \A p \in Proc : op[p].cmd = "none"
      BY DEF Init, NoOp
<1>3. Held = [p \in Proc |-> {}] /\ Asked = {} /\ InUse = {}
      BY <1>2 DEF Held, Asked, InUse
<1>4. Listed = {}
  <2>1. fs[Manifest] = Absent \/ fs[Manifest] = ManifestOf({})
        BY DistinctFiles DEF Init
  <2> QED
        BY <2>1 DEF Listed, ManifestOf, Absent
<1>5. Inside = [n \in UserPath |-> {}]
      BY <1>4 DEF Inside
<1>6. Outside \in [UserPath -> {{}} \cup {{c} : c \in Content}]
  <2> SUFFICES ASSUME NEW q \in UserPath
               PROVE  {c \in Content : fs[q] = Plain(c)} \in {{}} \cup {{c} : c \in Content}
      BY DEF Outside
  <2>1. fs[q] = Absent \/ \E c \in Content : fs[q] = Plain(c)
        BY <1>1 DEF Init
  <2>2. CASE fs[q] = Absent
        BY <2>2 DEF Plain, Absent
  <2>3. ASSUME NEW c \in Content, fs[q] = Plain(c)
        PROVE  {d \in Content : fs[q] = Plain(d)} = {c}
        BY <2>3 DEF Plain
  <2> QED
        BY <2>1, <2>2, <2>3
<1> QED
    BY <1>3, <1>5, <1>6 DEF Transfer!Init, Transfer!None

\* With one run of the program, and users who leave a file alone while a
\* command works on it, the vault implements SafeTransfer: whatever fails and
\* wherever it is killed, add_file, extract_file and delete_file leave the
\* content of a file on at least one side unless its removal was asked for.
THEOREM VaultImplementsSafeTransfer ==
  ASSUME OneRun, LeftAlone
  PROVE  Spec => TransferSpec
<1>1. SingleWriter
      BY DEF OneRun
<1>2. Spec => []ObjectInv
      BY <1>1, ObjectInvHolds
<1>3. ASSUME ObjectInv, ObjectInv', TransferInv, [Next]_vars
      PROVE  TransferInv' /\ [Transfer!Next]_(Transfer!vars)
  <2>1. TransferInv'
        BY <1>3, TransferInvStep
  <2> QED
        BY <1>3, <2>1, TransferStep
<1> QED
    BY <1>2, <1>3, TransferInvInit, TransferInit, PTL DEF Spec, TransferSpec, Transfer!Spec
=============================================================================
