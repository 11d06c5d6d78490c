------------------------------ MODULE VaultInit ------------------------------
(***************************************************************************)
(* How a vault comes into being (Vault::init, src/src/vault.cpp) and is    *)
(* opened (load, load_manifest): vault.meta holds the master key, sealed   *)
(* under the password, and manifest.bin holds the list, sealed under keys  *)
(* derived from the master key.  The two files are written one after the   *)
(* other, each by write_file_atomic, while other runs initialise the same  *)
(* directory, open the vault or add to it.  All runs give the same         *)
(* password.                                                               *)
(***************************************************************************)
EXTENDS Naturals

CONSTANTS
  Initer,    \* runs of the init command
  User,      \* runs that open the vault and add files to it
  Key,       \* master keys random_bytes can draw
  Entry,     \* entries a run can add
  Faults     \* which calls can fail: "write", "crash"

ASSUME ConstantsAssumption ==
  /\ Initer \cap User = {}
  /\ Faults \subseteq {"write", "crash"}

Proc == Initer \cup User

-----------------------------------------------------------------------------
\* A file of the vault, or the temporary file it is renamed from.
Target   == {"vault.meta", "manifest.bin"}
File     == Target \X {"real", "tmp"}
Meta     == <<"vault.meta", "real">>
Manifest == <<"manifest.bin", "real">>

TmpInPlace(t) == <<t, "real">>
Tmp(t)        == <<t, "tmp">>

Absent  == [kind |-> "absent"]
Empty   == [kind |-> "empty"]
Torn    == [kind |-> "torn"]
MetaOf(k)         == [kind |-> "meta", key |-> k]
ManifestOf(k, es) == [kind |-> "manifest", key |-> k, entries |-> es]

FileData == {Absent, Empty, Torn} \cup [kind : {"meta"}, key : Key]
            \cup [kind : {"manifest"}, key : Key, entries : SUBSET Entry]

VARIABLES
  fs,        \* what each file name denotes
  fd,        \* per run, the file its std::ofstream writes to
  pc,        \* per run, the next system call
  target,    \* per run, the file write_file_atomic is asked for
  key,       \* per run, Vault::master_key_, as a set of at most one key
  entries,   \* per run, Vault::entries_
  added,     \* per run, the entry that the running add has pushed
  overlapped \* not in the code: two commands have been changing the vault at once

vars == <<fs, fd, pc, target, key, entries, added, overlapped>>

Writing == {"open", "write", "rename"}

TypeOK ==
  /\ fs \in [File -> FileData]
  /\ fd \in [Proc -> SUBSET File]
  /\ pc \in [Proc -> {"idle", "loaded", "ready"} \cup Writing]
  /\ target \in [Proc -> Target]
  /\ key \in [Proc -> {{}} \cup {{k} : k \in Key}]
  /\ \A p \in Proc : key[p] = {} <=> pc[p] = "idle"
  /\ entries \in [Proc -> SUBSET Entry]
  /\ added \in [Proc -> SUBSET Entry]
  /\ overlapped \in BOOLEAN

\* An empty directory.
Init ==
  /\ fs = [f \in File |-> Absent]
  /\ fd = [p \in Proc |-> {}]
  /\ pc = [p \in Proc |-> "idle"]
  /\ target = [p \in Proc |-> "vault.meta"]
  /\ key = [p \in Proc |-> {}]
  /\ entries = [p \in Proc |-> {}]
  /\ added = [p \in Proc |-> {}]
  /\ overlapped = FALSE

\* A run ends, by itself, by an exception or by a kill.
Leave(p) ==
  /\ pc' = [pc EXCEPT ![p] = "idle"]
  /\ key' = [key EXCEPT ![p] = {}]
  /\ entries' = [entries EXCEPT ![p] = {}]
  /\ added' = [added EXCEPT ![p] = {}]

Noted == overlapped' = (overlapped \/ \E q \in Proc : pc[q] \in Writing)

-----------------------------------------------------------------------------
\* No two draws of 32 random bytes are the same: a key is drawn that no file
\* and no run holds.
Undrawn(k) ==
  /\ \A f \in File : fs[f].kind \in {"meta", "manifest"} => fs[f].key # k
  /\ \A p \in Proc : k \notin key[p]

(***************************************************************************)
(* Vault::init up to the password derivation.  A vault.meta that exists is *)
(* refused: the action is not enabled.                                     *)
(***************************************************************************)
Unchecked == TRUE
Unclaimed == fs[Meta] = Absent

InitVault(p) ==
  /\ p \in Initer
  /\ pc[p] = "idle"
  /\ Noted
  /\ Unclaimed
  /\ \E k \in Key : Undrawn(k) /\ key' = [key EXCEPT ![p] = {k}]
  /\ target' = [target EXCEPT ![p] = "vault.meta"]
  /\ pc' = [pc EXCEPT ![p] = "open"]
  /\ UNCHANGED <<fs, fd, entries, added>>

(***************************************************************************)
(* The constructor: load reads the key, load_manifest the list; a missing  *)
(* manifest is an empty list, one under another key throws.                *)
(***************************************************************************)
Load(p) ==
  /\ p \in User
  /\ pc[p] = "idle"
  /\ fs[Meta].kind = "meta"
  /\ key' = [key EXCEPT ![p] = {fs[Meta].key}]
  /\ pc' = [pc EXCEPT ![p] = "loaded"]
  /\ UNCHANGED <<fs, fd, target, entries, added, overlapped>>

LoadNothing(p) ==
  /\ pc[p] = "loaded"
  /\ pc' = [pc EXCEPT ![p] = "ready"]
  /\ UNCHANGED <<fs, fd, target, key, entries, added, overlapped>>

AnyManifest(p) == fs[Manifest].kind = "manifest"
Authentic(p) == fs[Manifest].kind = "manifest" /\ fs[Manifest].key \in key[p]

LoadManifest(p) ==
  /\ pc[p] = "loaded"
  /\ IF fs[Manifest] = Absent \/ Authentic(p)
     THEN /\ entries' = [entries EXCEPT ![p] =
                           IF fs[Manifest] = Absent THEN {} ELSE fs[Manifest].entries]
          /\ pc' = [pc EXCEPT ![p] = "ready"]
          /\ UNCHANGED <<key, added>>
     ELSE Leave(p)
  /\ UNCHANGED <<fs, fd, target, overlapped>>

CloseVault(p) ==
  /\ pc[p] = "ready"
  /\ Leave(p)
  /\ UNCHANGED <<fs, fd, target, overlapped>>

\* The end of add_file: the entry is pushed and the list saved.
AddFile(p, e) ==
  /\ pc[p] = "ready"
  /\ Noted
  /\ \A q \in Proc : e \notin entries[q]
  /\ \A f \in File : fs[f].kind = "manifest" => e \notin fs[f].entries
  /\ entries' = [entries EXCEPT ![p] = @ \cup {e}]
  /\ added' = [added EXCEPT ![p] = {e}]
  /\ target' = [target EXCEPT ![p] = "manifest.bin"]
  /\ pc' = [pc EXCEPT ![p] = "open"]
  /\ UNCHANGED <<fs, fd, key>>

-----------------------------------------------------------------------------
(***************************************************************************)
(* write_file_atomic, as in Vault.  Every vault.meta has the same length:  *)
(* one written over another covers it.  A list that lacks entries of the   *)
(* one it is written over is shorter, and leaves its tail.                 *)
(***************************************************************************)
Data(p) ==
  {IF target[p] = "vault.meta" THEN MetaOf(k) ELSE ManifestOf(k, entries[p]) : k \in key[p]}

OpenTmp(p) ==
  /\ pc[p] = "open"
  /\ fs' = [fs EXCEPT ![Tmp(target[p])] = Empty]
  /\ fd' = [fd EXCEPT ![p] = {Tmp(target[p])}]
  /\ pc' = [pc EXCEPT ![p] = "write"]
  /\ UNCHANGED <<target, key, entries, added, overlapped>>

WriteTmp(p) ==
  /\ pc[p] = "write"
  /\ LET covers == target[p] = "vault.meta" \/ \A f \in fd[p] : fs[f] = Empty
         shorter == /\ target[p] = "manifest.bin"
                    /\ \E f \in fd[p] : /\ fs[f].kind = "manifest"
                                        /\ entries[p] \subseteq fs[f].entries
                                        /\ entries[p] # fs[f].entries
     IN  \E bytes \in (IF shorter THEN {} ELSE Data(p)) \cup (IF covers THEN {} ELSE {Torn}) :
            fs' = [f \in File |-> IF f \in fd[p] THEN bytes ELSE fs[f]]
  /\ fd' = [fd EXCEPT ![p] = {}]
  /\ pc' = [pc EXCEPT ![p] = "rename"]
  /\ UNCHANGED <<target, key, entries, added, overlapped>>

\* What follows the rename: init saves the empty list after vault.meta and is
\* done after that; an add is done.
Continue(p) ==
  IF target[p] = "vault.meta"
  THEN /\ target' = [target EXCEPT ![p] = "manifest.bin"]
       /\ pc' = [pc EXCEPT ![p] = "open"]
       /\ UNCHANGED <<key, entries, added>>
  ELSE IF p \in Initer THEN Leave(p) /\ UNCHANGED target
  ELSE /\ pc' = [pc EXCEPT ![p] = "ready"]
       /\ added' = [added EXCEPT ![p] = {}]
       /\ UNCHANGED <<target, key, entries>>

RenameTmp(p) ==
  /\ pc[p] = "rename"
  /\ LET real == <<target[p], "real">>
         tmp  == Tmp(target[p])
     IN  /\ fs[tmp] # Absent
         /\ fs' = [fs EXCEPT ![real] = fs[tmp], ![tmp] = Absent]
         /\ fd' = [q \in Proc |-> {IF f = tmp THEN real ELSE f : f \in fd[q] \ {real}}]
  /\ Continue(p)
  /\ UNCHANGED overlapped

\* A call throws: init leaves what it has written, add_file takes its entry
\* back.
WriteFails(p) ==
  /\ \/ /\ pc[p] = "open" /\ "write" \in Faults
        /\ UNCHANGED fs
     \/ /\ pc[p] = "write" /\ "write" \in Faults
        /\ fs' = [f \in File |-> IF f \in fd[p] THEN Torn ELSE fs[f]]
     \/ /\ pc[p] = "rename"
        /\ "write" \in Faults \/ fs[Tmp(target[p])] = Absent
        /\ UNCHANGED fs
  /\ fd' = [fd EXCEPT ![p] = {}]
  /\ \/ p \in Initer /\ Leave(p)
     \/ /\ p \in User
        /\ entries' = [entries EXCEPT ![p] = @ \ added[p]]
        /\ added' = [added EXCEPT ![p] = {}]
        /\ pc' = [pc EXCEPT ![p] = "ready"]
        /\ UNCHANGED key
  /\ UNCHANGED <<target, overlapped>>

Crash(p) ==
  /\ "crash" \in Faults
  /\ pc[p] # "idle"
  /\ Leave(p)
  /\ fd' = [fd EXCEPT ![p] = {}]
  /\ UNCHANGED <<fs, target, overlapped>>

Next ==
  \E p \in Proc :
     \/ InitVault(p) \/ Load(p) \/ LoadManifest(p) \/ CloseVault(p)
     \/ \E e \in Entry : AddFile(p, e)
     \/ OpenTmp(p) \/ WriteTmp(p) \/ RenameTmp(p) \/ WriteFails(p) \/ Crash(p)

Spec == Init /\ [][Next]_vars

-----------------------------------------------------------------------------
(***************************************************************************)
(* Properties.                                                             *)
(***************************************************************************)
Listed == IF /\ fs[Meta].kind = "meta" /\ fs[Manifest].kind = "manifest"
             /\ fs[Manifest].key = fs[Meta].key
          THEN fs[Manifest].entries ELSE {}

\* As long as no two commands change the vault at once: whatever an init that
\* failed or was killed has left, the directory is either not a vault, so that
\* init can be run again, or a vault that opens: the two files, written one
\* after the other, are under one master key.
VaultOpens ==
  \/ overlapped
  \/ fs[Meta] = Absent /\ fs[Manifest] = Absent
  \/ /\ fs[Meta].kind = "meta"
     /\ \/ fs[Manifest] = Absent
        \/ fs[Manifest].kind = "manifest" /\ fs[Manifest].key = fs[Meta].key

\* The file keys of an entry are wrapped under the master key of the run that
\* added it.  However runs overlap and fail, no list under another master key,
\* on disk or in memory, ever names the entry: it could not be extracted.
OneKeyPerEntry ==
  LET onDisk == {<<fs[f].key, fs[f].entries>> : f \in {g \in File : fs[g].kind = "manifest"}}
      inMemory == UNION {{<<k, entries[p]>> : k \in key[p]} : p \in Proc}
  IN  \A a, b \in onDisk \cup inMemory : a[1] # b[1] => a[2] \cap b[2] = {}

\* As long as no two commands change the vault at once: its master key is never
\* replaced, as init refuses a directory that holds a vault.meta, ...
KeyNeverReplaced ==
  [][~ overlapped' /\ fs[Meta] # Absent => fs'[Meta] = fs[Meta]]_vars

\* ... and no save, init's own included, forgets an entry that was added.  For one
\* run that adds: of several, one can save the list it loaded before another's save.
AddedEntriesStay == [][~ overlapped' => Listed \subseteq Listed']_vars
=============================================================================
