---------------------------- MODULE VaultInitProofs ----------------------------
(***************************************************************************)
(* What Vault::init, the constructor and write_file_atomic guarantee for   *)
(* any number of runs, keys and entries, and any failures.                 *)
(***************************************************************************)
EXTENDS VaultInit, TLAPS

\* An entry is named under a master key, by a file or in a run's memory.
Names(e, k) ==
  \/ \E f \in File : fs[f].kind = "manifest" /\ fs[f].key = k /\ e \in fs[f].entries
  \/ \E p \in Proc : k \in key[p] /\ e \in entries[p]

\* A run's list is empty until load_manifest has read it.
EmptyUntilLoaded ==
  \A p \in Proc : pc[p] \in {"idle", "loaded"} => entries[p] = {}

OneKey == \A e, k, l : Names(e, k) /\ Names(e, l) => k = l

InitInv == TypeOK /\ EmptyUntilLoaded /\ OneKey

-----------------------------------------------------------------------------
LEMMA FileTypes ==
  /\ Meta \in File /\ Manifest \in File /\ Meta # Manifest
  /\ \A t \in Target : /\ Tmp(t) \in File /\ <<t, "real">> \in File
                       /\ Tmp(t) # Meta /\ Tmp(t) # Manifest
  /\ <<"vault.meta", "real">> = Meta /\ <<"manifest.bin", "real">> = Manifest
  /\ \A t, u \in Target : Tmp(t) # <<u, "real">>
BY DEF Meta, Manifest, File, Target, Tmp

LEMMA FileContents ==
  ASSUME NEW x \in FileData
  PROVE  /\ x.kind \in {"absent", "empty", "torn", "meta", "manifest"}
         /\ x.kind = "meta" => x.key \in Key /\ x = MetaOf(x.key)
         /\ x.kind = "manifest" => /\ x.key \in Key /\ x.entries \subseteq Entry
                                   /\ x = ManifestOf(x.key, x.entries)
         /\ x.kind = "absent" => x = Absent
         /\ x.kind = "empty" => x = Empty
BY DEF FileData, Absent, Empty, Torn, MetaOf, ManifestOf

LEMMA Contents ==
  /\ Absent \in FileData /\ Empty \in FileData /\ Torn \in FileData
  /\ Absent.kind = "absent" /\ Empty.kind = "empty" /\ Torn.kind = "torn"
  /\ \A k \in Key : MetaOf(k) \in FileData /\ MetaOf(k).kind = "meta" /\ MetaOf(k).key = k
  /\ \A k \in Key, es \in SUBSET Entry :
        /\ ManifestOf(k, es) \in FileData /\ ManifestOf(k, es).kind = "manifest"
        /\ ManifestOf(k, es).key = k /\ ManifestOf(k, es).entries = es
BY DEF FileData, Absent, Empty, Torn, MetaOf, ManifestOf

\* What a run saves.
LEMMA DataTypes ==
  ASSUME TypeOK, NEW p \in Proc, NEW x \in Data(p)
  PROVE  /\ x \in FileData
         /\ \E k \in key[p] : /\ k \in Key
                              /\ x = IF target[p] = "vault.meta" THEN MetaOf(k)
                                     ELSE ManifestOf(k, entries[p])
<1>1. PICK k \in key[p] : x = IF target[p] = "vault.meta" THEN MetaOf(k)
                              ELSE ManifestOf(k, entries[p])
  BY DEF Data
<1>2. k \in Key
  BY DEF TypeOK
<1>3. entries[p] \in SUBSET Entry
  BY DEF TypeOK
<1> QED
  BY <1>1, <1>2, <1>3, Contents

-----------------------------------------------------------------------------
(***************************************************************************)
(* Types.                                                                  *)
(***************************************************************************)
LEMMA InitTypes == Init => TypeOK
<1> SUFFICES ASSUME Init PROVE TypeOK
  OBVIOUS
<1>1. fs \in [File -> FileData]
  BY Contents DEF Init
<1>2. fd \in [Proc -> SUBSET File] /\ target \in [Proc -> Target] /\ overlapped \in BOOLEAN
  BY DEF Init, Target
<1>3. /\ pc \in [Proc -> {"idle", "loaded", "ready"} \cup Writing]
      /\ key \in [Proc -> {{}} \cup {{k} : k \in Key}]
      /\ \A p \in Proc : key[p] = {} <=> pc[p] = "idle"
  BY DEF Init
<1>4. entries \in [Proc -> SUBSET Entry] /\ added \in [Proc -> SUBSET Entry]
  BY DEF Init
<1> QED
  BY <1>1, <1>2, <1>3, <1>4 DEF TypeOK

LEMMA LeaveTypes ==
  ASSUME TypeOK, NEW p \in Proc, Leave(p)
  PROVE  /\ pc' \in [Proc -> {"idle", "loaded", "ready"} \cup Writing]
         /\ key' \in [Proc -> {{}} \cup {{k} : k \in Key}]
         /\ \A q \in Proc : key'[q] = {} <=> pc'[q] = "idle"
         /\ entries' \in [Proc -> SUBSET Entry]
         /\ added' \in [Proc -> SUBSET Entry]
BY DEF TypeOK, Leave

LEMMA InitVaultTypes ==
  ASSUME TypeOK, NEW p \in Proc, InitVault(p) PROVE TypeOK'
BY DEF TypeOK, InitVault, Noted, Target, Writing

LEMMA LoadTypes ==
  ASSUME TypeOK, NEW p \in Proc, Load(p) PROVE TypeOK'
<1>1. fs[Meta].key \in Key
  BY FileTypes, FileContents DEF TypeOK, Load
<1> QED
  BY <1>1 DEF TypeOK, Load, Writing

LEMMA LoadManifestTypes ==
  ASSUME TypeOK, NEW p \in Proc, LoadManifest(p) PROVE TypeOK'
<1>1. fs[Manifest].kind = "manifest" => fs[Manifest].entries \subseteq Entry
  BY FileTypes, FileContents DEF TypeOK
<1>2. CASE fs[Manifest] = Absent \/ Authentic(p)
  BY <1>1, <1>2 DEF TypeOK, LoadManifest, Authentic, Writing
<1>3. CASE ~ (fs[Manifest] = Absent \/ Authentic(p))
  <2>1. Leave(p) /\ UNCHANGED <<fs, fd, target, overlapped>>
    BY <1>3 DEF LoadManifest
  <2> QED
    BY <2>1, LeaveTypes DEF TypeOK
<1> QED
  BY <1>2, <1>3

LEMMA CloseTypes ==
  ASSUME TypeOK, NEW p \in Proc, CloseVault(p) \/ Crash(p) PROVE TypeOK'
<1>1. Leave(p) /\ UNCHANGED <<fs, target, overlapped>>
  BY DEF CloseVault, Crash
<1>2. fd' \in [Proc -> SUBSET File]
  BY DEF CloseVault, Crash, TypeOK
<1> QED
  BY <1>1, <1>2, LeaveTypes DEF TypeOK

LEMMA AddTypes ==
  ASSUME TypeOK, NEW p \in Proc, NEW e \in Entry, AddFile(p, e) PROVE TypeOK'
BY DEF TypeOK, AddFile, Noted, Target, Writing

LEMMA OpenTypes ==
  ASSUME TypeOK, NEW p \in Proc, OpenTmp(p) PROVE TypeOK'
<1>1. Tmp(target[p]) \in File
  BY FileTypes DEF TypeOK
<1> QED
  BY <1>1, Contents DEF TypeOK, OpenTmp, Writing

\* The contents a write can leave.
LEMMA Written ==
  ASSUME TypeOK, NEW p \in Proc, WriteTmp(p)
  PROVE  \E bytes \in Data(p) \cup {Torn} :
            fs' = [f \in File |-> IF f \in fd[p] THEN bytes ELSE fs[f]]
BY DEF WriteTmp

LEMMA WriteTypes ==
  ASSUME TypeOK, NEW p \in Proc, WriteTmp(p) PROVE TypeOK'
<1>1. PICK bytes \in Data(p) \cup {Torn} :
         fs' = [f \in File |-> IF f \in fd[p] THEN bytes ELSE fs[f]]
  BY Written
<1>2. bytes \in FileData
  BY DataTypes, Contents
<1>3. fs' \in [File -> FileData]
  BY <1>1, <1>2 DEF TypeOK
<1> QED
  BY <1>3 DEF TypeOK, WriteTmp, Writing

LEMMA ContinueTypes ==
  ASSUME TypeOK, NEW p \in Proc, pc[p] = "rename", Continue(p)
  PROVE  /\ pc' \in [Proc -> {"idle", "loaded", "ready"} \cup Writing]
         /\ target' \in [Proc -> Target]
         /\ key' \in [Proc -> {{}} \cup {{k} : k \in Key}]
         /\ \A q \in Proc : key'[q] = {} <=> pc'[q] = "idle"
         /\ entries' \in [Proc -> SUBSET Entry]
         /\ added' \in [Proc -> SUBSET Entry]
<1>1. CASE target[p] = "vault.meta"
  BY <1>1 DEF Continue, TypeOK, Target, Writing
<1>2. CASE target[p] # "vault.meta" /\ p \in Initer
  <2>1. Leave(p) /\ UNCHANGED target
    BY <1>2 DEF Continue
  <2> QED
    BY <2>1, LeaveTypes DEF TypeOK
<1>3. CASE target[p] # "vault.meta" /\ p \notin Initer
  BY <1>3 DEF Continue, TypeOK, Writing
<1> QED
  BY <1>1, <1>2, <1>3

LEMMA RenameTypes ==
  ASSUME TypeOK, NEW p \in Proc, RenameTmp(p) PROVE TypeOK'
<1>1. Tmp(target[p]) \in File /\ <<target[p], "real">> \in File
  BY FileTypes DEF TypeOK
<1>2. fs' \in [File -> FileData]
  BY <1>1, Contents DEF TypeOK, RenameTmp
<1>3. fd' \in [Proc -> SUBSET File]
  <2>1. PICK real \in File, tmp \in File :
          fd' = [q \in Proc |-> {IF f = tmp THEN real ELSE f : f \in fd[q] \ {real}}]
    BY <1>1 DEF RenameTmp
  <2>2. \A q \in Proc : fd[q] \subseteq File
    BY DEF TypeOK
  <2>3. \A q \in Proc : {IF f = tmp THEN real ELSE f : f \in fd[q] \ {real}} \in SUBSET File
    BY <2>2
  <2> QED
    BY <2>1, <2>3
<1>4. overlapped' \in BOOLEAN
  BY DEF TypeOK, RenameTmp
<1> QED
  BY <1>2, <1>3, <1>4, ContinueTypes DEF TypeOK, RenameTmp

LEMMA FailTypes ==
  ASSUME TypeOK, NEW p \in Proc, WriteFails(p) PROVE TypeOK'
<1>1. fs' \in [File -> FileData]
  BY Contents DEF TypeOK, WriteFails
<1>2. fd' \in [Proc -> SUBSET File] /\ UNCHANGED <<target, overlapped>>
  BY DEF TypeOK, WriteFails
<1>3. CASE p \in Initer /\ Leave(p)
  BY <1>1, <1>2, <1>3, LeaveTypes DEF TypeOK
<1>4. CASE ~ (p \in Initer /\ Leave(p))
  <2>1. /\ entries' = [entries EXCEPT ![p] = @ \ added[p]]
        /\ added' = [added EXCEPT ![p] = {}]
        /\ pc' = [pc EXCEPT ![p] = "ready"]
        /\ UNCHANGED key
        /\ pc[p] # "idle"
    BY <1>4 DEF WriteFails
  <2> QED
    BY <1>1, <1>2, <2>1 DEF TypeOK
<1> QED
  BY <1>3, <1>4

LEMMA TypesStep ==
  ASSUME TypeOK, [Next]_vars PROVE TypeOK'
<1>1. CASE UNCHANGED vars
  BY <1>1 DEF vars, TypeOK
<1>2. CASE Next
  BY <1>2, InitVaultTypes, LoadTypes, LoadManifestTypes, CloseTypes, AddTypes, OpenTypes,
     WriteTypes, RenameTypes, FailTypes DEF Next
<1> QED
  BY <1>1, <1>2

\* Whatever runs overlap, fail or are killed: a run holds a master key from its
\* first to its last step, and every file is one the code can have written.
THEOREM VaultInitTypes == Spec => []TypeOK
<1>1. TypeOK /\ [Next]_vars => TypeOK'
  BY TypesStep
<1> QED
  BY <1>1, InitTypes, PTL DEF Spec

-----------------------------------------------------------------------------
(***************************************************************************)
(* One key per entry.  No step but AddFile names an entry under a key that *)
(* does not name it yet: files are renamed and copied into memory and back *)
(* whole, with the key they are sealed under.                              *)
(***************************************************************************)
LEMMA LeaveNames ==
  ASSUME TypeOK, NEW p \in Proc, Leave(p), UNCHANGED fs, NEW e, NEW k, Names(e, k)'
  PROVE  Names(e, k)
BY DEF TypeOK, Leave, Names

LEMMA InitVaultNames ==
  ASSUME InitInv, NEW p \in Proc, InitVault(p), NEW e, NEW k, Names(e, k)'
  PROVE  Names(e, k)
<1>1. entries[p] = {}
  BY DEF InitInv, EmptyUntilLoaded, InitVault
<1> QED
  BY <1>1 DEF InitInv, TypeOK, InitVault, Names

LEMMA LoadNames ==
  ASSUME InitInv, NEW p \in Proc, Load(p), NEW e, NEW k, Names(e, k)'
  PROVE  Names(e, k)
<1>1. entries[p] = {}
  BY DEF InitInv, EmptyUntilLoaded, Load
<1> QED
  BY <1>1 DEF InitInv, TypeOK, Load, Names

LEMMA LoadManifestNames ==
  ASSUME InitInv, NEW p \in Proc, LoadManifest(p), NEW e, NEW k, Names(e, k)'
  PROVE  Names(e, k)
<1>1. CASE fs[Manifest] = Absent
  BY <1>1 DEF InitInv, TypeOK, LoadManifest, Names
<1>2. CASE fs[Manifest] # Absent /\ Authentic(p)
  <2>1. key[p] = {fs[Manifest].key}
    BY <1>2 DEF InitInv, TypeOK, Authentic
  <2> QED
    BY <1>2, <2>1, FileTypes DEF InitInv, TypeOK, LoadManifest, Authentic, Names
<1>3. CASE ~ (fs[Manifest] = Absent \/ Authentic(p))
  <2>1. Leave(p) /\ UNCHANGED fs
    BY <1>3 DEF LoadManifest
  <2> QED
    BY <2>1, LeaveNames DEF InitInv
<1> QED
  BY <1>1, <1>2, <1>3

LEMMA OpenNames ==
  ASSUME TypeOK, NEW p \in Proc, OpenTmp(p), NEW e, NEW k, Names(e, k)'
  PROVE  Names(e, k)
BY Contents, FileTypes DEF TypeOK, OpenTmp, Names

LEMMA WriteNames ==
  ASSUME TypeOK, NEW p \in Proc, WriteTmp(p), NEW e, NEW k, Names(e, k)'
  PROVE  Names(e, k)
<1>1. PICK bytes \in Data(p) \cup {Torn} :
         fs' = [f \in File |-> IF f \in fd[p] THEN bytes ELSE fs[f]]
  BY Written
<1>2. UNCHANGED <<key, entries>>
  BY DEF WriteTmp
<1>3. ASSUME bytes.kind = "manifest", bytes.key = k, e \in bytes.entries
      PROVE  Names(e, k)
  <2>1. bytes \in Data(p)
    BY <1>1, <1>3, Contents
  <2>2. PICK j \in key[p] : /\ j \in Key
                            /\ bytes = IF target[p] = "vault.meta" THEN MetaOf(j)
                                       ELSE ManifestOf(j, entries[p])
    BY <2>1, DataTypes
  <2>3. entries[p] \in SUBSET Entry
    BY DEF TypeOK
  <2>4. j = k /\ e \in entries[p]
    BY <1>3, <2>2, <2>3, Contents
  <2> QED
    BY <2>4 DEF Names
<1>4. CASE \E f \in File : fs'[f].kind = "manifest" /\ fs'[f].key = k /\ e \in fs'[f].entries
  BY <1>1, <1>3, <1>4 DEF Names
<1>5. CASE \E q \in Proc : k \in key'[q] /\ e \in entries'[q]
  BY <1>2, <1>5 DEF Names
<1> QED
  BY <1>4, <1>5 DEF Names

LEMMA RenameNames ==
  ASSUME TypeOK, NEW p \in Proc, RenameTmp(p), NEW e, NEW k, Names(e, k)'
  PROVE  Names(e, k)
<1>1. Tmp(target[p]) \in File /\ <<target[p], "real">> \in File
  BY FileTypes DEF TypeOK
<1>2. CASE \E f \in File : fs'[f].kind = "manifest" /\ fs'[f].key = k /\ e \in fs'[f].entries
  BY <1>1, <1>2, Contents DEF TypeOK, RenameTmp, Names
<1>3. CASE \E q \in Proc : k \in key'[q] /\ e \in entries'[q]
  BY <1>3 DEF TypeOK, RenameTmp, Continue, Leave, Names
<1> QED
  BY <1>2, <1>3 DEF Names

LEMMA FailNames ==
  ASSUME TypeOK, NEW p \in Proc, WriteFails(p), NEW e, NEW k, Names(e, k)'
  PROVE  Names(e, k)
<1>1. CASE \E f \in File : fs'[f].kind = "manifest" /\ fs'[f].key = k /\ e \in fs'[f].entries
  BY <1>1, Contents DEF TypeOK, WriteFails, Names
<1>2. CASE \E q \in Proc : k \in key'[q] /\ e \in entries'[q]
  BY <1>2 DEF TypeOK, WriteFails, Leave, Names
<1> QED
  BY <1>1, <1>2 DEF Names

LEMMA AddNames ==
  ASSUME InitInv, NEW p \in Proc, NEW e \in Entry, AddFile(p, e)
  PROVE  OneKey'
<1>1. \A k : ~ Names(e, k)
  BY DEF AddFile, Names
<1>2. \A d, k : Names(d, k)' => Names(d, k) \/ (d = e /\ k \in key[p])
  BY DEF InitInv, TypeOK, AddFile, Names
<1>3. \A k, l : k \in key[p] /\ l \in key[p] => k = l
  BY DEF InitInv, TypeOK
<1> QED
  BY <1>1, <1>2, <1>3 DEF InitInv, OneKey

LEMMA EmptyStep ==
  ASSUME TypeOK, EmptyUntilLoaded, [Next]_vars PROVE EmptyUntilLoaded'
<1>1. CASE UNCHANGED vars
  BY <1>1 DEF vars, EmptyUntilLoaded
<1>2. ASSUME NEW p \in Proc, Leave(p) PROVE EmptyUntilLoaded'
  BY <1>2 DEF TypeOK, EmptyUntilLoaded, Leave
<1>3. ASSUME NEW p \in Proc,
             \/ InitVault(p) \/ Load(p) \/ OpenTmp(p) \/ WriteTmp(p)
             \/ \E e \in Entry : AddFile(p, e)
      PROVE  EmptyUntilLoaded'
  BY <1>3 DEF TypeOK, EmptyUntilLoaded, InitVault, Load, OpenTmp, WriteTmp, AddFile
<1>4. ASSUME NEW p \in Proc, LoadManifest(p) PROVE EmptyUntilLoaded'
  BY <1>2, <1>4 DEF TypeOK, EmptyUntilLoaded, LoadManifest
<1>5. ASSUME NEW p \in Proc, RenameTmp(p) PROVE EmptyUntilLoaded'
  BY <1>2, <1>5 DEF TypeOK, EmptyUntilLoaded, RenameTmp, Continue
<1>6. ASSUME NEW p \in Proc, WriteFails(p) PROVE EmptyUntilLoaded'
  BY <1>2, <1>6 DEF TypeOK, EmptyUntilLoaded, WriteFails
<1> QED
  BY <1>1, <1>2, <1>3, <1>4, <1>5, <1>6 DEF Next, CloseVault, Crash

LEMMA InitInvStep ==
  ASSUME InitInv, [Next]_vars PROVE InitInv'
<1>1. TypeOK' /\ EmptyUntilLoaded'
  BY TypesStep, EmptyStep DEF InitInv
<1>2. CASE \E p \in Proc, e \in Entry : AddFile(p, e)
  BY <1>1, <1>2, AddNames DEF InitInv
<1>3. CASE UNCHANGED vars
  BY <1>1, <1>3 DEF InitInv, OneKey, Names, vars
<1>4. CASE \E p \in Proc : \/ InitVault(p) \/ Load(p) \/ LoadManifest(p) \/ CloseVault(p)
                           \/ OpenTmp(p) \/ WriteTmp(p) \/ RenameTmp(p) \/ WriteFails(p) \/ Crash(p)
  <2>1. \A e, k : Names(e, k)' => Names(e, k)
    <3> SUFFICES ASSUME NEW e, NEW k, Names(e, k)' PROVE Names(e, k)
      OBVIOUS
    <3> QED
      BY <1>4, LeaveNames, InitVaultNames, LoadNames, LoadManifestNames, OpenNames, WriteNames,
         RenameNames, FailNames DEF InitInv, CloseVault, Crash
  <2> QED
    BY <1>1, <2>1 DEF InitInv, OneKey
<1> QED
  BY <1>2, <1>3, <1>4 DEF Next

LEMMA InitInvInit == Init => InitInv
<1> SUFFICES ASSUME Init PROVE InitInv
  OBVIOUS
<1>1. EmptyUntilLoaded /\ OneKey
  BY Contents DEF Init, EmptyUntilLoaded, OneKey, Names
<1> QED
  BY <1>1, InitTypes DEF InitInv

LEMMA OneKeyIsEnough == OneKey => OneKeyPerEntry
<1> SUFFICES ASSUME OneKey PROVE OneKeyPerEntry
  OBVIOUS
<1> DEFINE onDisk == {<<fs[f].key, fs[f].entries>> : f \in {g \in File : fs[g].kind = "manifest"}}
           inMemory == UNION {{<<k, entries[p]>> : k \in key[p]} : p \in Proc}
<1>1. \A a \in onDisk \cup inMemory : \A e \in a[2] : Names(e, a[1])
  BY DEF Names
<1>2. \A a, b \in onDisk \cup inMemory : a[1] # b[1] => a[2] \cap b[2] = {}
  BY <1>1 DEF OneKey
<1> QED
  BY <1>2 DEF OneKeyPerEntry

LEMMA InitInvAlways == Spec => []InitInv
<1>1. InitInv /\ [Next]_vars => InitInv'
  BY InitInvStep
<1> QED
  BY <1>1, InitInvInit, PTL DEF Spec

\* However many runs overlap, fail and are killed, no list of a vault names an
\* entry under a master key its file keys are not wrapped under.
THEOREM EntriesKeepTheirKey == Spec => []OneKeyPerEntry
<1>1. InitInv => OneKeyPerEntry
  BY OneKeyIsEnough DEF InitInv
<1> QED
  BY <1>1, InitInvAlways, PTL

-----------------------------------------------------------------------------
(***************************************************************************)
(* A vault that opens.  As long as no two commands write at once: the      *)
(* temporary file of the one that does belongs to it, a first vault.meta   *)
(* is written while there is no vault, and everything else under the key   *)
(* that vault.meta holds.                                                  *)
(***************************************************************************)
OneWriter == \A p, q \in Proc : pc[p] \in Writing /\ pc[q] \in Writing => p = q

OwnsTmp ==
  \A p \in Proc :
     /\ fd[p] = IF pc[p] = "write" THEN {Tmp(target[p])} ELSE {}
     /\ pc[p] = "write" => fs[Tmp(target[p])] = Empty
     /\ pc[p] = "rename" => fs[Tmp(target[p])] \in Data(p)

Founds(p)  == pc[p] \in Writing /\ target[p] = "vault.meta"
HasKey(p) == (p \in User /\ pc[p] # "idle") \/ (pc[p] \in Writing /\ target[p] = "manifest.bin")

UnderOneKey ==
  /\ \A p \in Proc : Founds(p) => p \notin User /\ fs[Meta] = Absent /\ fs[Manifest] = Absent
  /\ \A p \in Proc : HasKey(p) => fs[Meta].kind = "meta" /\ key[p] = {fs[Meta].key}
  /\ \A p \in Proc : p \in Initer => pc[p] \in Writing \cup {"idle"}

Opens ==
  \/ fs[Meta] = Absent /\ fs[Manifest] = Absent
  \/ /\ fs[Meta].kind = "meta"
     /\ \/ fs[Manifest] = Absent
        \/ fs[Manifest].kind = "manifest" /\ fs[Manifest].key = fs[Meta].key

Quiet == overlapped \/ (OneWriter /\ OwnsTmp /\ UnderOneKey /\ Opens)

LEMMA QuietInit == Init => Quiet
<1> SUFFICES ASSUME Init PROVE OneWriter /\ OwnsTmp /\ UnderOneKey /\ Opens
  BY DEF Quiet
<1>1. \A p \in Proc : pc[p] = "idle" /\ fd[p] = {}
  BY DEF Init
<1>2. fs[Meta] = Absent /\ fs[Manifest] = Absent
  BY FileTypes DEF Init
<1>3. OneWriter /\ OwnsTmp
  BY <1>1 DEF OneWriter, OwnsTmp, Writing
<1>4. UnderOneKey
  BY <1>1, ConstantsAssumption DEF UnderOneKey, Founds, HasKey, Writing, Proc
<1> QED
  BY <1>2, <1>3, <1>4 DEF Opens

LEMMA QuietLeave ==
  ASSUME TypeOK, Quiet, NEW p \in Proc, Leave(p), UNCHANGED <<fs, target, overlapped>>,
         fd' = [fd EXCEPT ![p] = {}]
  PROVE  Quiet'
<1> USE DEF TypeOK, Quiet, Leave
<1>1. OneWriter => OneWriter'
  BY DEF OneWriter, Writing
<1>2. OwnsTmp => OwnsTmp'
  <2>1. \A q \in Proc : q # p => Data(q)' = Data(q)
    BY DEF Data
  <2> QED
    BY <2>1 DEF OwnsTmp, Tmp
<1>3. UnderOneKey => UnderOneKey'
  BY DEF UnderOneKey, Founds, HasKey, Writing
<1>4. Opens => Opens'
  BY DEF Opens
<1> QED
  BY <1>1, <1>2, <1>3, <1>4

LEMMA QuietInitVault ==
  ASSUME TypeOK, Quiet, NEW p \in Proc, InitVault(p) PROVE Quiet'
<1> SUFFICES ASSUME ~ overlapped' PROVE OneWriter' /\ OwnsTmp' /\ UnderOneKey' /\ Opens'
  BY DEF Quiet
<1>1. ~ overlapped /\ \A q \in Proc : pc[q] \notin Writing
  BY DEF InitVault, Noted, TypeOK
<1>2. OneWriter /\ OwnsTmp /\ UnderOneKey /\ Opens
  BY <1>1 DEF Quiet
<1> USE DEF TypeOK, InitVault
<1>3. OneWriter'
  BY <1>1 DEF OneWriter, Writing
<1>4. OwnsTmp'
  BY <1>1, <1>2 DEF OwnsTmp, Writing
<1>5. fs[Meta] = Absent /\ fs[Manifest] = Absent
  BY <1>2, Contents DEF Opens, Unclaimed
<1>6. UnderOneKey'
  BY <1>1, <1>2, <1>5, Contents, ConstantsAssumption DEF UnderOneKey, Founds, HasKey, Writing
<1> QED
  BY <1>2, <1>3, <1>4, <1>6 DEF Opens

LEMMA QuietLoad ==
  ASSUME TypeOK, Quiet, NEW p \in Proc, Load(p) PROVE Quiet'
<1> USE DEF TypeOK, Quiet, Load
<1>1. OneWriter => OneWriter'
  BY DEF OneWriter, Writing
<1>2. OwnsTmp => OwnsTmp'
  BY DEF OwnsTmp, Data, Tmp
<1>3. UnderOneKey => UnderOneKey'
  BY ConstantsAssumption DEF UnderOneKey, Founds, HasKey, Writing
<1>4. Opens => Opens'
  BY DEF Opens
<1> QED
  BY <1>1, <1>2, <1>3, <1>4

LEMMA QuietLoadManifest ==
  ASSUME TypeOK, Quiet, NEW p \in Proc, LoadManifest(p) PROVE Quiet'
<1>1. CASE fs[Manifest] = Absent \/ Authentic(p)
  <2> USE <1>1 DEF TypeOK, Quiet, LoadManifest
  <2>0. pc[p] = "loaded" /\ pc' = [pc EXCEPT ![p] = "ready"] /\ UNCHANGED <<fs, fd, target, key, overlapped>>
    OBVIOUS
  <2>1. OneWriter => OneWriter'
    BY <2>0 DEF OneWriter, Writing
  <2>2. OwnsTmp => OwnsTmp'
    BY <2>0 DEF OwnsTmp, Data, Tmp
  <2>3. UnderOneKey => UnderOneKey'
    BY <2>0 DEF UnderOneKey, Founds, HasKey, Writing
  <2>4. Opens => Opens'
    BY <2>0 DEF Opens
  <2> QED
    BY <2>0, <2>1, <2>2, <2>3, <2>4
<1>2. CASE ~ (fs[Manifest] = Absent \/ Authentic(p))
  <2>1. Leave(p) /\ UNCHANGED <<fs, fd, target, overlapped>> /\ pc[p] = "loaded"
    BY <1>2 DEF LoadManifest
  <2>2. CASE overlapped
    BY <2>1, <2>2 DEF Quiet
  <2>3. CASE ~ overlapped
    <3>1. fd' = [fd EXCEPT ![p] = {}]
      BY <2>1, <2>3 DEF Quiet, OwnsTmp, TypeOK
    <3> QED
      BY <2>1, <3>1, QuietLeave
  <2> QED
    BY <2>2, <2>3
<1> QED
  BY <1>1, <1>2

LEMMA QuietClose ==
  ASSUME TypeOK, Quiet, NEW p \in Proc, CloseVault(p) \/ Crash(p) PROVE Quiet'
<1>1. CASE overlapped
  BY <1>1 DEF CloseVault, Crash, Quiet
<1>2. CASE ~ overlapped
  <2>1. CloseVault(p) => fd' = [fd EXCEPT ![p] = {}]
    BY <1>2 DEF CloseVault, Quiet, OwnsTmp, TypeOK
  <2> QED
    BY <2>1, QuietLeave DEF CloseVault, Crash
<1> QED
  BY <1>1, <1>2

LEMMA QuietAdd ==
  ASSUME TypeOK, Quiet, NEW p \in Proc, NEW e \in Entry, AddFile(p, e) PROVE Quiet'
<1> SUFFICES ASSUME ~ overlapped' PROVE OneWriter' /\ OwnsTmp' /\ UnderOneKey' /\ Opens'
  BY DEF Quiet
<1>1. ~ overlapped /\ \A q \in Proc : pc[q] \notin Writing
  BY DEF AddFile, Noted, TypeOK
<1>2. OneWriter /\ OwnsTmp /\ UnderOneKey /\ Opens
  BY <1>1 DEF Quiet
<1> USE DEF TypeOK, AddFile
<1>3. OneWriter'
  BY <1>1 DEF OneWriter, Writing
<1>4. OwnsTmp'
  BY <1>1, <1>2 DEF OwnsTmp, Writing
<1>5. p \in User
  BY <1>2 DEF UnderOneKey, Writing, Proc
<1>6. UnderOneKey'
  BY <1>1, <1>2, <1>5, ConstantsAssumption DEF UnderOneKey, Founds, HasKey, Writing
<1> QED
  BY <1>2, <1>3, <1>4, <1>6 DEF Opens

\* The one run that writes, in a quiet vault.
LEMMA QuietWriter ==
  ASSUME TypeOK, Quiet, ~ overlapped, NEW p \in Proc, pc[p] \in Writing
  PROVE  /\ OneWriter /\ OwnsTmp /\ UnderOneKey /\ Opens
         /\ \A q \in Proc : q # p => pc[q] \notin Writing /\ fd[q] = {}
         /\ Tmp(target[p]) \in File /\ Tmp(target[p]) # Meta /\ Tmp(target[p]) # Manifest
         /\ target[p] \in Target
<1>1. OneWriter /\ OwnsTmp /\ UnderOneKey /\ Opens
  BY DEF Quiet
<1>2. \A q \in Proc : q # p => pc[q] \notin Writing
  BY <1>1 DEF OneWriter
<1>3. \A q \in Proc : q # p => fd[q] = {}
  BY <1>1, <1>2 DEF OwnsTmp, Writing
<1> QED
  BY <1>1, <1>2, <1>3, FileTypes DEF TypeOK

LEMMA QuietOpen ==
  ASSUME TypeOK, Quiet, NEW p \in Proc, OpenTmp(p) PROVE Quiet'
<1> SUFFICES ASSUME ~ overlapped' PROVE OneWriter' /\ OwnsTmp' /\ UnderOneKey' /\ Opens'
  BY DEF Quiet
<1>1. ~ overlapped /\ pc[p] \in Writing
  BY DEF OpenTmp, Writing
<1>2. /\ OneWriter /\ OwnsTmp /\ UnderOneKey /\ Opens
      /\ \A q \in Proc : q # p => pc[q] \notin Writing /\ fd[q] = {}
      /\ Tmp(target[p]) \in File /\ Tmp(target[p]) # Meta /\ Tmp(target[p]) # Manifest
  BY <1>1, QuietWriter
<1>3. fs'[Meta] = fs[Meta] /\ fs'[Manifest] = fs[Manifest] /\ fs'[Tmp(target[p])] = Empty
  BY <1>2, FileTypes DEF OpenTmp, TypeOK
<1> USE DEF TypeOK, OpenTmp
<1>4. OneWriter'
  BY <1>2 DEF OneWriter, Writing
<1>5. OwnsTmp'
  BY <1>2, <1>3 DEF OwnsTmp, Writing, Tmp
<1>6. UnderOneKey'
  BY <1>2, <1>3 DEF UnderOneKey, Founds, HasKey, Writing
<1> QED
  BY <1>2, <1>3, <1>4, <1>5, <1>6 DEF Opens

LEMMA QuietWrite ==
  ASSUME TypeOK, Quiet, NEW p \in Proc, WriteTmp(p) PROVE Quiet'
<1> SUFFICES ASSUME ~ overlapped' PROVE OneWriter' /\ OwnsTmp' /\ UnderOneKey' /\ Opens'
  BY DEF Quiet
<1>1. ~ overlapped /\ pc[p] \in Writing
  BY DEF WriteTmp, Writing
<1>2. /\ OneWriter /\ OwnsTmp /\ UnderOneKey /\ Opens
      /\ \A q \in Proc : q # p => pc[q] \notin Writing /\ fd[q] = {}
      /\ Tmp(target[p]) \in File /\ Tmp(target[p]) # Meta /\ Tmp(target[p]) # Manifest
  BY <1>1, QuietWriter
<1>3. fd[p] = {Tmp(target[p])} /\ fs[Tmp(target[p])] = Empty
  BY <1>2 DEF OwnsTmp, WriteTmp
<1>4. PICK bytes \in Data(p) : fs' = [f \in File |-> IF f \in fd[p] THEN bytes ELSE fs[f]]
  BY <1>3 DEF WriteTmp
<1>5. fs'[Meta] = fs[Meta] /\ fs'[Manifest] = fs[Manifest] /\ fs'[Tmp(target[p])] \in Data(p)
  BY <1>2, <1>3, <1>4, FileTypes
<1>6. Data(p)' = Data(p)
  BY DEF WriteTmp, Data
<1> USE DEF TypeOK, WriteTmp
<1>7. OneWriter'
  BY <1>2 DEF OneWriter, Writing
<1>8. OwnsTmp'
  BY <1>2, <1>5, <1>6 DEF OwnsTmp, Writing, Tmp
<1>9. UnderOneKey'
  BY <1>2, <1>5 DEF UnderOneKey, Founds, HasKey, Writing
<1> QED
  BY <1>2, <1>5, <1>7, <1>8, <1>9 DEF Opens

LEMMA QuietFail ==
  ASSUME TypeOK, Quiet, NEW p \in Proc, WriteFails(p) PROVE Quiet'
<1> SUFFICES ASSUME ~ overlapped' PROVE OneWriter' /\ OwnsTmp' /\ UnderOneKey' /\ Opens'
  BY DEF Quiet
<1>1. ~ overlapped /\ pc[p] \in Writing
  BY DEF WriteFails, Writing
<1>2. /\ OneWriter /\ OwnsTmp /\ UnderOneKey /\ Opens
      /\ \A q \in Proc : q # p => pc[q] \notin Writing /\ fd[q] = {}
      /\ Tmp(target[p]) \in File /\ Tmp(target[p]) # Meta /\ Tmp(target[p]) # Manifest
  BY <1>1, QuietWriter
<1>3. fd[p] \subseteq {Tmp(target[p])}
  BY <1>2 DEF OwnsTmp
<1>4. fs'[Meta] = fs[Meta] /\ fs'[Manifest] = fs[Manifest]
  BY <1>2, <1>3, FileTypes DEF WriteFails
<1>5. fd'[p] = {} /\ \A q \in Proc : q # p => fd'[q] = {}
  BY <1>2 DEF WriteFails, TypeOK
<1>6. /\ pc'[p] \in {"idle", "ready"} /\ \A q \in Proc : q # p => pc'[q] = pc[q] /\ key'[q] = key[q]
      /\ pc'[p] = "ready" => key'[p] = key[p] /\ p \in User
      /\ UNCHANGED target
  BY DEF WriteFails, Leave, TypeOK
<1>7. OneWriter'
  BY <1>2, <1>6 DEF OneWriter, Writing
<1>8. OwnsTmp'
  BY <1>2, <1>5, <1>6 DEF OwnsTmp, Writing
<1>9. UnderOneKey'
  BY <1>1, <1>2, <1>4, <1>6, ConstantsAssumption DEF UnderOneKey, Founds, HasKey, Writing
<1> QED
  BY <1>2, <1>4, <1>7, <1>8, <1>9 DEF Opens

LEMMA QuietRename ==
  ASSUME TypeOK, Quiet, NEW p \in Proc, RenameTmp(p)
  PROVE  /\ Quiet'
         /\ ~ overlapped /\ fs[Meta] # Absent => fs'[Meta] = fs[Meta]
<1> SUFFICES ASSUME ~ overlapped
             PROVE  /\ OneWriter' /\ OwnsTmp' /\ UnderOneKey' /\ Opens'
                    /\ fs[Meta] # Absent => fs'[Meta] = fs[Meta]
  BY DEF Quiet, RenameTmp
<1>1. pc[p] = "rename" /\ pc[p] \in Writing
  BY DEF RenameTmp, Writing
<1>2. /\ OneWriter /\ OwnsTmp /\ UnderOneKey /\ Opens
      /\ \A q \in Proc : q # p => pc[q] \notin Writing /\ fd[q] = {}
      /\ Tmp(target[p]) \in File /\ Tmp(target[p]) # Meta /\ Tmp(target[p]) # Manifest
      /\ target[p] \in Target
  BY <1>1, QuietWriter
<1>3. \A q \in Proc : fd[q] = {} /\ fd'[q] = {}
  BY <1>1, <1>2 DEF OwnsTmp, RenameTmp
<1>4. PICK k \in key[p] : /\ k \in Key
                          /\ fs[Tmp(target[p])] = IF target[p] = "vault.meta" THEN MetaOf(k)
                                                  ELSE ManifestOf(k, entries[p])
  BY <1>1, <1>2, DataTypes DEF OwnsTmp
<1>5. key[p] = {k} /\ entries[p] \in SUBSET Entry
  BY <1>4 DEF TypeOK
<1>6. CASE target[p] = "vault.meta"
  <2>1. fs[Meta] = Absent /\ fs[Manifest] = Absent /\ p \in Initer
    BY <1>1, <1>2, <1>6 DEF UnderOneKey, Founds, Proc
  <2>2. fs'[Meta] = MetaOf(k) /\ fs'[Manifest] = Absent
    BY <1>2, <1>4, <1>6, <2>1, FileTypes DEF RenameTmp, TypeOK
  <2>3. /\ target' = [target EXCEPT ![p] = "manifest.bin"] /\ pc' = [pc EXCEPT ![p] = "open"]
        /\ UNCHANGED key
    BY <1>6 DEF RenameTmp, Continue
  <2>4. \A q \in User : pc[q] = "idle"
    BY <1>2, <2>1, Contents DEF UnderOneKey, HasKey, Proc
  <2>5. OneWriter'
    BY <1>2, <2>3 DEF OneWriter, Writing, TypeOK
  <2>6. OwnsTmp'
    BY <1>2, <1>3, <2>3 DEF OwnsTmp, Writing, TypeOK
  <2>7. UnderOneKey'
    BY <1>2, <1>4, <1>5, <2>1, <2>2, <2>3, <2>4, Contents, ConstantsAssumption
       DEF UnderOneKey, Founds, HasKey, Writing, TypeOK, Proc
  <2>8. Opens'
    BY <1>4, <2>2, Contents DEF Opens
  <2> QED
    BY <2>1, <2>5, <2>6, <2>7, <2>8
<1>7. CASE target[p] = "manifest.bin"
  <2>1. fs[Meta].kind = "meta" /\ fs[Meta].key = k
    BY <1>1, <1>2, <1>5, <1>7 DEF UnderOneKey, HasKey
  <2>2. fs'[Meta] = fs[Meta] /\ fs'[Manifest] = ManifestOf(k, entries[p])
    BY <1>2, <1>4, <1>7, FileTypes DEF RenameTmp, TypeOK
  <2>3. /\ \A q \in Proc : q # p => pc'[q] = pc[q] /\ key'[q] = key[q]
        /\ \/ p \in Initer /\ pc'[p] = "idle"
           \/ p \in User /\ pc'[p] = "ready" /\ key'[p] = key[p]
        /\ UNCHANGED target
    BY <1>7 DEF RenameTmp, Continue, Leave, TypeOK, Proc
  <2>4. OneWriter'
    BY <1>2, <2>3 DEF OneWriter, Writing
  <2>5. OwnsTmp'
    BY <1>2, <1>3, <2>3 DEF OwnsTmp, Writing
  <2>6. UnderOneKey'
    BY <1>2, <1>5, <2>1, <2>2, <2>3, ConstantsAssumption DEF UnderOneKey, Founds, HasKey, Writing
  <2>7. Opens'
    BY <1>4, <1>5, <2>1, <2>2, Contents DEF Opens
  <2> QED
    BY <2>2, <2>4, <2>5, <2>6, <2>7
<1> QED
  BY <1>2, <1>6, <1>7 DEF Target

LEMMA QuietStep ==
  ASSUME TypeOK, Quiet, [Next]_vars PROVE Quiet'
<1>1. CASE UNCHANGED vars
  BY <1>1 DEF vars, Quiet, OneWriter, OwnsTmp, UnderOneKey, Opens, Founds, HasKey, Data, Tmp
<1>2. CASE Next
  BY <1>2, QuietInitVault, QuietLoad, QuietLoadManifest, QuietClose, QuietAdd, QuietOpen,
     QuietWrite, QuietRename, QuietFail DEF Next
<1> QED
  BY <1>1, <1>2

LEMMA QuietAlways == Spec => [](TypeOK /\ Quiet)
<1>1. TypeOK /\ Quiet /\ [Next]_vars => (TypeOK /\ Quiet)'
  BY TypesStep, QuietStep
<1>2. Init => TypeOK /\ Quiet
  BY InitTypes, QuietInit
<1> QED
  BY <1>1, <1>2, PTL DEF Spec

\* Whatever an init that failed or was killed has left, for as long as no two
\* commands write at once: init can be run again, or the vault opens.
THEOREM VaultsOpen == Spec => []VaultOpens
<1>1. Quiet => VaultOpens
  BY DEF Quiet, Opens, VaultOpens
<1> QED
  BY <1>1, QuietAlways, PTL

LEMMA MetaKept ==
  ASSUME TypeOK, Quiet, [Next]_vars, ~ overlapped', fs[Meta] # Absent
  PROVE  fs'[Meta] = fs[Meta]
<1>1. ASSUME NEW p \in Proc, OpenTmp(p) PROVE fs'[Meta] = fs[Meta]
  BY <1>1, FileTypes DEF OpenTmp, TypeOK
<1>2. ASSUME NEW p \in Proc, WriteTmp(p) \/ WriteFails(p) PROVE fs'[Meta] = fs[Meta]
  <2>1. ~ overlapped /\ pc[p] \in Writing
    BY <1>2 DEF WriteTmp, WriteFails, Writing
  <2>2. OwnsTmp /\ Tmp(target[p]) # Meta
    BY <2>1, QuietWriter
  <2>3. fd[p] \subseteq {Tmp(target[p])}
    BY <2>2 DEF OwnsTmp
  <2>4. Meta \notin fd[p]
    BY <2>2, <2>3
  <2> QED
    BY <1>2, <2>4, FileTypes DEF WriteTmp, WriteFails
<1>3. ASSUME NEW p \in Proc, RenameTmp(p) PROVE fs'[Meta] = fs[Meta]
  BY <1>3, QuietRename DEF RenameTmp
<1> QED
  BY <1>1, <1>2, <1>3
     DEF Next, vars, InitVault, Load, LoadManifest, CloseVault, AddFile, Crash

\* A vault keeps its master key: as long as no two commands write at once,
\* nothing replaces a vault.meta, whatever fails.
THEOREM KeyIsKept == Spec => KeyNeverReplaced
<1>1. TypeOK /\ Quiet /\ [Next]_vars
        => [~ overlapped' /\ fs[Meta] # Absent => fs'[Meta] = fs[Meta]]_vars
  BY MetaKept
<1> QED
  BY <1>1, QuietAlways, PTL DEF Spec, KeyNeverReplaced

-----------------------------------------------------------------------------
(***************************************************************************)
(* Nothing is forgotten.  In a quiet vault with one run that adds, init    *)
(* saves its empty list while there is none, and the run that adds         *)
(* remembers everything the vault lists: between its load and its save     *)
(* nobody else saves, and what an add that fails takes back is not listed. *)
(***************************************************************************)
Writes(p) == pc[p] \in Writing

Remembers ==
  /\ \A p \in Initer : entries[p] = {} /\ (Writes(p) => fs[Manifest] = Absent)
  /\ \A p \in User : /\ ~ Writes(p) => added[p] = {}
                     /\ Writes(p) \/ pc[p] = "ready" => Listed \subseteq entries[p] \ added[p]

OneUser == \A p, q \in User : p = q

LEMMA RemembersInit == Init => Remembers
BY DEF Init, Remembers, Writes, Writing, Proc

\* Of a quiet vault, only a rename changes what it lists.
LEMMA FilesKept ==
  ASSUME TypeOK, Quiet, [Next]_vars, ~ overlapped', \A p \in Proc : ~ RenameTmp(p)
  PROVE  fs'[Meta] = fs[Meta] /\ fs'[Manifest] = fs[Manifest] /\ Listed' = Listed
<1>1. ASSUME NEW p \in Proc, OpenTmp(p)
      PROVE  fs'[Meta] = fs[Meta] /\ fs'[Manifest] = fs[Manifest]
  BY <1>1, FileTypes DEF OpenTmp, TypeOK
<1>2. ASSUME NEW p \in Proc, WriteTmp(p) \/ WriteFails(p)
      PROVE  fs'[Meta] = fs[Meta] /\ fs'[Manifest] = fs[Manifest]
  <2>1. ~ overlapped /\ pc[p] \in Writing
    BY <1>2 DEF WriteTmp, WriteFails, Writing
  <2>2. OwnsTmp /\ Tmp(target[p]) # Meta /\ Tmp(target[p]) # Manifest
    BY <2>1, QuietWriter
  <2>3. fd[p] \subseteq {Tmp(target[p])}
    BY <2>2 DEF OwnsTmp
  <2>4. Meta \notin fd[p] /\ Manifest \notin fd[p]
    BY <2>2, <2>3
  <2> QED
    BY <1>2, <2>4, FileTypes DEF WriteTmp, WriteFails
<1>3. fs'[Meta] = fs[Meta] /\ fs'[Manifest] = fs[Manifest]
  BY <1>1, <1>2 DEF Next, vars, InitVault, Load, LoadManifest, CloseVault, AddFile, Crash
<1> QED
  BY <1>3 DEF Listed

LEMMA RemembersLeave ==
  ASSUME TypeOK, Remembers, NEW p \in Proc, Leave(p),
         Listed' = Listed, fs'[Manifest] = fs[Manifest]
  PROVE  Remembers'
BY ConstantsAssumption DEF TypeOK, Leave, Remembers, Writes, Writing

LEMMA RemembersInitVault ==
  ASSUME TypeOK, Quiet, Remembers, NEW p \in Proc, InitVault(p), ~ overlapped'
  PROVE  Remembers'
<1>1. Opens
  BY DEF Quiet, InitVault, Noted, TypeOK
<1>2. fs[Manifest] = Absent
  BY <1>1, Contents DEF Opens, InitVault, Unclaimed
<1>3. Listed' = Listed
  BY DEF InitVault, Listed
<1> QED
  BY <1>2, <1>3, ConstantsAssumption DEF TypeOK, InitVault, Remembers, Writes, Writing

LEMMA RemembersLoad ==
  ASSUME TypeOK, Remembers, NEW p \in Proc, Load(p)
  PROVE  Remembers'
<1>1. Listed' = Listed
  BY DEF Load, Listed
<1> QED
  BY <1>1, ConstantsAssumption DEF TypeOK, Load, Remembers, Writes, Writing

LEMMA RemembersLoadManifest ==
  ASSUME TypeOK, Quiet, Remembers, NEW p \in Proc, LoadManifest(p), ~ overlapped'
  PROVE  Remembers'
<1>1. Listed' = Listed /\ fs'[Manifest] = fs[Manifest]
  BY DEF LoadManifest, Listed
<1>2. CASE fs[Manifest] = Absent \/ Authentic(p)
  <2>1. /\ entries' = [entries EXCEPT ![p] =
                         IF fs[Manifest] = Absent THEN {} ELSE fs[Manifest].entries]
        /\ pc' = [pc EXCEPT ![p] = "ready"] /\ pc[p] = "loaded" /\ added' = added
    BY <1>2 DEF LoadManifest
  <2>2. p \in User
    <3>1. UnderOneKey
      BY DEF Quiet, LoadManifest
    <3> QED
      BY <2>1, <3>1 DEF UnderOneKey, Proc, Writing
  <2>3. Listed \subseteq entries'[p]
    BY <2>1, Contents DEF Listed, TypeOK
  <2>4. added[p] = {}
    BY <2>1, <2>2 DEF Remembers, Writes, Writing
  <2> QED
    BY <1>1, <2>1, <2>2, <2>3, <2>4, ConstantsAssumption
       DEF TypeOK, Remembers, Writes, Writing
<1>3. CASE ~ (fs[Manifest] = Absent \/ Authentic(p))
  <2>1. Leave(p)
    BY <1>3 DEF LoadManifest
  <2> QED
    BY <1>1, <2>1, RemembersLeave
<1> QED
  BY <1>2, <1>3

LEMMA RemembersAdd ==
  ASSUME TypeOK, Quiet, Remembers, NEW p \in Proc, NEW e \in Entry, AddFile(p, e), ~ overlapped'
  PROVE  Remembers'
<1>1. UnderOneKey
  BY DEF Quiet, AddFile, Noted, TypeOK
<1>2. p \in User
  BY <1>1 DEF UnderOneKey, AddFile, Writing, Proc
<1>3. Listed' = Listed /\ e \notin Listed
  BY FileTypes DEF AddFile, Listed
<1>4. Listed \subseteq entries[p]
  BY <1>2 DEF Remembers, AddFile
<1> QED
  BY <1>2, <1>3, <1>4, ConstantsAssumption DEF TypeOK, AddFile, Remembers, Writes, Writing

LEMMA RemembersWrite ==
  ASSUME TypeOK, Remembers, NEW p \in Proc, OpenTmp(p) \/ WriteTmp(p),
         Listed' = Listed, fs'[Manifest] = fs[Manifest]
  PROVE  Remembers'
<1>1. /\ pc[p] \in Writing /\ pc'[p] \in Writing /\ \A q \in Proc : q # p => pc'[q] = pc[q]
      /\ UNCHANGED <<entries, added>>
  BY DEF TypeOK, OpenTmp, WriteTmp, Writing
<1> QED
  BY <1>1 DEF Remembers, Writes, Writing, Proc

LEMMA RemembersFail ==
  ASSUME TypeOK, Remembers, NEW p \in Proc, WriteFails(p),
         Listed' = Listed, fs'[Manifest] = fs[Manifest]
  PROVE  Remembers'
<1>1. CASE Leave(p)
  BY <1>1, RemembersLeave
<1>2. CASE ~ Leave(p)
  <2>1. /\ p \in User /\ pc[p] \in Writing
        /\ entries' = [entries EXCEPT ![p] = @ \ added[p]]
        /\ added' = [added EXCEPT ![p] = {}]
        /\ pc' = [pc EXCEPT ![p] = "ready"]
    BY <1>2 DEF WriteFails, Writing
  <2> QED
    BY <2>1, ConstantsAssumption DEF TypeOK, Remembers, Writes, Writing, Proc
<1> QED
  BY <1>1, <1>2

\* A save: of init while there is no list, of an add with all that was listed.
LEMMA RemembersRename ==
  ASSUME TypeOK, Quiet, Remembers, OneUser, NEW p \in Proc, RenameTmp(p), ~ overlapped'
  PROVE  Listed \subseteq Listed' /\ Remembers'
<1>1. pc[p] = "rename" /\ pc[p] \in Writing /\ ~ overlapped
  BY DEF RenameTmp, Writing
<1>2. /\ OwnsTmp /\ UnderOneKey
      /\ \A q \in Proc : q # p => pc[q] \notin Writing
      /\ Tmp(target[p]) \in File /\ Tmp(target[p]) # Meta /\ Tmp(target[p]) # Manifest
      /\ target[p] \in Target
  BY <1>1, QuietWriter
<1>3. PICK k \in key[p] : /\ k \in Key
                          /\ fs[Tmp(target[p])] = IF target[p] = "vault.meta" THEN MetaOf(k)
                                                  ELSE ManifestOf(k, entries[p])
  BY <1>1, <1>2, DataTypes DEF OwnsTmp
<1>4. key[p] = {k} /\ entries[p] \in SUBSET Entry
  BY <1>3 DEF TypeOK
<1>5. CASE target[p] = "vault.meta"
  <2>1. fs[Manifest] = Absent /\ p \notin User
    BY <1>1, <1>2, <1>5 DEF UnderOneKey, Founds
  <2>2. fs'[Manifest] = Absent
    BY <1>2, <1>5, <2>1, FileTypes DEF RenameTmp, TypeOK
  <2>3. Listed = {} /\ Listed' = {}
    BY <2>1, <2>2, Contents DEF Listed
  <2>4. /\ pc' = [pc EXCEPT ![p] = "open"]
        /\ UNCHANGED <<entries, added>>
    BY <1>5 DEF RenameTmp, Continue
  <2> QED
    BY <2>1, <2>2, <2>3, <2>4 DEF TypeOK, Remembers, Writes, Writing, Proc
<1>6. CASE target[p] = "manifest.bin"
  <2>1. fs[Meta].kind = "meta" /\ fs[Meta].key = k
    BY <1>1, <1>2, <1>4, <1>6 DEF UnderOneKey, HasKey
  <2>2. fs'[Meta] = fs[Meta] /\ fs'[Manifest] = ManifestOf(k, entries[p])
    BY <1>2, <1>3, <1>6, FileTypes DEF RenameTmp, TypeOK
  <2>3. Listed' = entries[p]
    BY <2>1, <2>2 DEF Listed, ManifestOf
  <2>4. CASE p \in Initer
    <3>1. fs[Manifest] = Absent /\ entries[p] = {}
      BY <1>1, <2>4 DEF Remembers, Writes
    <3>2. Listed = {} /\ Listed' = {}
      BY <2>3, <3>1, Contents DEF Listed
    <3>3. Leave(p)
      BY <1>6, <2>4 DEF RenameTmp, Continue
    <3>4. \A q \in Initer : q # p => ~ Writes(q)
      BY <1>2 DEF Writes, Proc
    <3> QED
      BY <2>4, <3>2, <3>3, <3>4, ConstantsAssumption
         DEF TypeOK, Leave, Remembers, Writes, Writing, Proc
  <2>5. CASE p \in User
    <3>1. Listed \subseteq entries[p]
      BY <1>1, <2>5 DEF Remembers, Writes
    <3>2. /\ pc' = [pc EXCEPT ![p] = "ready"] /\ added' = [added EXCEPT ![p] = {}]
          /\ UNCHANGED entries
      BY <1>6, <2>5, ConstantsAssumption DEF RenameTmp, Continue
    <3>3. \A q \in Initer : ~ Writes(q) /\ q # p
      BY <1>2, <2>5, ConstantsAssumption DEF Writes, Proc
    <3>4. \A q \in User : q = p
      BY <2>5 DEF OneUser
    <3> QED
      BY <2>3, <2>5, <3>1, <3>2, <3>3, <3>4 DEF TypeOK, Remembers, Writes, Writing, Proc
  <2> QED
    BY <2>4, <2>5 DEF Proc
<1> QED
  BY <1>2, <1>5, <1>6 DEF Target

LEMMA RemembersStep ==
  ASSUME TypeOK, Quiet, OneUser, ~ overlapped => Remembers, [Next]_vars, ~ overlapped'
  PROVE  Listed \subseteq Listed' /\ Remembers'
<1>1. Remembers
  BY DEF Next, vars, InitVault, Load, LoadManifest, CloseVault, AddFile, OpenTmp, WriteTmp,
         RenameTmp, WriteFails, Crash, Noted, TypeOK
<1>2. CASE \E p \in Proc : RenameTmp(p)
  BY <1>1, <1>2, RemembersRename
<1>3. CASE \A p \in Proc : ~ RenameTmp(p)
  <2>1. Listed' = Listed /\ fs'[Manifest] = fs[Manifest]
    BY <1>3, FilesKept
  <2>2. CASE UNCHANGED vars
    BY <1>1, <2>1, <2>2 DEF vars, Remembers, Writes
  <2>3. ASSUME NEW p \in Proc, CloseVault(p) \/ Crash(p) PROVE Remembers'
    BY <1>1, <2>1, <2>3, RemembersLeave DEF CloseVault, Crash
  <2> QED
    BY <1>1, <1>3, <2>1, <2>2, <2>3, RemembersInitVault, RemembersLoad, RemembersLoadManifest,
       RemembersAdd, RemembersWrite, RemembersFail DEF Next
<1> QED
  BY <1>2, <1>3

\* As long as no two commands write at once, no save, init's own included,
\* forgets an entry the vault lists: with one run that adds, and any number of
\* init commands, failures and kills.
THEOREM NothingForgotten ==
  ASSUME OneUser
  PROVE  Spec => AddedEntriesStay
<1> DEFINE Kept == TypeOK /\ Quiet /\ (~ overlapped => Remembers)
<1>1. Init => Kept
  BY InitTypes, QuietInit, RemembersInit
<1>2. Kept /\ [Next]_vars => Kept'
  BY TypesStep, QuietStep, RemembersStep
<1>3. Kept /\ [Next]_vars => [~ overlapped' => Listed \subseteq Listed']_vars
  BY RemembersStep
<1> HIDE DEF Kept
<1> QED
  BY <1>1, <1>2, <1>3, PTL DEF Spec, AddedEntriesStay
=============================================================================
