-------------------------------- MODULE Secrets --------------------------------
(***************************************************************************)
(* How long the keys of one command stay in memory (src/src/vault.cpp).    *)
(* A command is the statements that put a key into memory, wipe one or can *)
(* throw, in the order of the code.  SecureBytes objects are wiped by      *)
(* their destructors, on every way out; arrays by calls of secure_zero     *)
(* that are statements themselves, which an exception passes over; the     *)
(* vault's derived keys by ~Vault, which C++ runs only for a vault whose   *)
(* constructor has returned.  That memory runs out is left out.            *)
(***************************************************************************)
EXTENDS Sequences

VARIABLES
  rest,      \* the statements to come
  keys,      \* the keys in memory
  built,     \* a Vault object whose destructor will run
  failed,    \* the statement that threw, "" before
  outcome    \* "running", "returned" or "threw"

secretsVars == <<rest, keys, built, failed, outcome>>

\* Statements.
Make(ks)  == [does |-> "make", keys |-> ks, name |-> ""]
Wipe(ks)  == [does |-> "wipe", keys |-> ks, name |-> ""]
Built     == [does |-> "build", keys |-> {}, name |-> ""]
Try(what) == [does |-> "try", keys |-> {}, name |-> what]

\* Keys in SecureBytes, and those that are members of the vault.
Auto      == {"password_key", "master_key", "file_key"}
VaultKeys == {"manifest_enc_key_", "manifest_mac_key_", "wrap_enc_key_", "wrap_mac_key_"}
MetaKeys    == {"meta_enc", "meta_mac"}
ContentKeys == {"content_enc", "content_mac"}

-----------------------------------------------------------------------------
\* ctr_crypt throws when a thread for a large input cannot be started.  A key is
\* small; a file and a manifest may be large.
Size == {"small", "large"}
Crypted(size) ==
  <<Make({"key16"})>> \o (IF size = "large" THEN <<Try("thread")>> ELSE <<>>)
  \o <<Wipe({"key16"})>>
Encrypted(size) == <<Try("random")>> \o Crypted(size)
Decrypted(what, size) == <<Try(what)>> \o Crypted(size)
Written == <<Try("write")>>

PasswordKeyDerived == <<Make({"pw"}), Make({"password_key"}), Wipe({"pw"}), Make(MetaKeys)>>

SaveManifest(size) == Encrypted(size) \o Written

InitVault ==
  <<Try("arguments"), Built, Try("directories"), Try("random"), Make({"master_key"}),
    Make(VaultKeys), Try("random")>>
  \o PasswordKeyDerived \o Encrypted("small") \o Written \o SaveManifest("small")
  \o <<Wipe(MetaKeys)>>

\* What is authentic is of the right size: load cannot fail on the master key's.
LoadEager ==
  <<Try("read"), Try("parse")>> \o PasswordKeyDerived
  \o <<Make({"master_key"}), Make(VaultKeys)>> \o Decrypted("password", "small")
  \o <<Wipe(MetaKeys)>>
Load ==
  <<Try("read"), Try("parse")>> \o PasswordKeyDerived \o Decrypted("password", "small")
  \o <<Make({"master_key"}), Make(VaultKeys), Wipe(MetaKeys)>>
LoadManifest(size) ==
  <<Try("read"), Try("parse")>> \o Decrypted("manifest", size) \o <<Try("parse")>>

\* The constructor that opens a vault.
Open(size) == Load \o LoadManifest(size) \o <<Built>>

AddFile(file, size) ==
  <<Try("arguments"), Try("random"), Try("read"), Try("random"),
    Make({"file_key"}), Make(ContentKeys)>>
  \o Encrypted(file) \o Encrypted("small") \o Written \o SaveManifest(size)
  \o <<Try("remove"), Wipe(ContentKeys)>>

DeleteFile(size) == SaveManifest(size) \o <<Try("remove")>>

ExtractFile(file, size, remove) ==
  <<Try("arguments"), Try("read"), Try("parse")>> \o Decrypted("wrapped key", "small")
  \o <<Make({"file_key"}), Make(ContentKeys)>> \o Decrypted("content", file)
  \o <<Try("size")>> \o Written
  \o (IF remove THEN DeleteFile(size) ELSE <<>>) \o <<Wipe(ContentKeys)>>

Command ==
  {InitVault}
  \cup {Open(size) : size \in Size}
  \cup {Open(size) \o AddFile(file, size) : file, size \in Size}
  \cup {Open(size) \o ExtractFile(file, size, remove) : file, size \in Size, remove \in BOOLEAN}
  \cup {Open(size) \o <<Try("arguments")>> \o DeleteFile(size) : size \in Size}

-----------------------------------------------------------------------------
SecretsInit ==
  /\ rest \in Command
  /\ keys = {} /\ built = FALSE /\ failed = "" /\ outcome = "running"

Statement ==
  /\ outcome = "running" /\ rest # <<>>
  /\ keys' = CASE Head(rest).does = "make" -> keys \cup Head(rest).keys
               [] Head(rest).does = "wipe" -> keys \ Head(rest).keys
               [] OTHER -> keys
  /\ built' = (built \/ Head(rest).does = "build")
  /\ rest' = Tail(rest)
  /\ UNCHANGED <<failed, outcome>>

\* The destructors of what the scopes that are left have built.
DestructorsRun == keys' = keys \ (Auto \cup IF built THEN VaultKeys ELSE {})

Throw ==
  /\ outcome = "running" /\ rest # <<>> /\ Head(rest).does = "try"
  /\ DestructorsRun
  /\ failed' = Head(rest).name /\ outcome' = "threw"
  /\ UNCHANGED <<rest, built>>

ReturnFromCommand ==
  /\ outcome = "running" /\ rest = <<>>
  /\ DestructorsRun
  /\ outcome' = "returned"
  /\ UNCHANGED <<rest, built, failed>>

SecretsNext == Statement \/ Throw \/ ReturnFromCommand

SecretsSpec == SecretsInit /\ [][SecretsNext]_secretsVars

-----------------------------------------------------------------------------
\* A command that succeeds leaves no key of any kind behind, whichever of the
\* three ways of wiping was to forget it.  A wrong password, or a vault.meta that
\* was changed, leaves nothing of the vault: only the two keys that were derived
\* from that password.
LeavesNoVaultKey ==
  /\ outcome = "returned" => keys = {}
  /\ failed = "password" => keys \subseteq MetaKeys

\* Every key is forgotten when its lifetime ends, as docs/report.md says of the
\* derived, wrapping and content keys: not on the ways out by an exception.
KeysForgotten == outcome # "running" => keys = {}
=============================================================================
