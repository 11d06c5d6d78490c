# ENCRY_LIB in TLA+

ENCRY_LIB is a command-line vault: it moves files into a directory of encrypted
objects and back.  This directory holds TLA+ models of it, the TLC
configurations that check them on small instances, and proofs, checked by TLAPS,
of what holds for every value of the constants.  Paths below are relative to the
repository.

## The system

| component | state | operations | interacts with |
|---|---|---|---|
| Vault file operations (`src/vault.cpp`) | on disk `manifest.bin` and `objects/<id>.obj`; in memory `entries_`, loaded once per run | constructor, `add_file`, `extract_file`, `delete_file`, `list`, `save_manifest` | user files (read, replaced, removed), other runs through the same directory, `write_file_atomic` |
| Atomic write (`src/util.cpp`) | `<path>.tmp` until it is renamed to `<path>` | `write_file_atomic`, `read_file`, `ensure_directory`, `sanitize_name` | every file the program writes |
| Initialisation and keys (`src/vault.cpp`) | `vault.meta`, `manifest.bin`, the master key and four derived keys | `Vault::init`, `load` | PBKDF2, HKDF, blobs |
| File formats (`src/vault.cpp`, `src/util.cpp`) | none | `serialize_*`, `parse_*`, `append_*`, `read_*` | blobs, entries |
| SM4 and CTR mode (`src/sm4.cpp`) | round keys; during a call, worker threads over one buffer | `encrypt_block`, `decrypt_block`, `ctr_crypt` | blobs |
| Blobs and random bytes (`src/crypto.cpp`) | none | `encrypt_blob`, `decrypt_blob`, `random_bytes`, `derive_key32` | SM4-CTR, HMAC, `getrandom(2)`, `/dev/urandom` |
| SM3 (`src/sm3.cpp`) | `state_`, `buffer_`, `buffer_size_`, `total_bytes_` | `update`, `final`, `reset` | HMAC |
| HMAC, HKDF, PBKDF2 (`src/hmac_sm3.cpp`) | inner hash and outer pad; block counters | `update`, `final`, `hkdf_sm3`, `pbkdf2_hmac_sm3` | SM3, keys |
| Secure buffers (`src/secure_bytes.cpp`) | the bytes | move, `clear`, destructor | all key material |
| Command line (`src/main.cpp`) | arguments | `init`, `list`, `add`, `extract`, `remove` | Vault |

The program is single threaded but for `Sm4::ctr_crypt`, and takes no lock: two
runs on one vault meet in the file system only.  What is hard about it:

* a command is a sequence of system calls, any of which can fail and between any
  two of which the process can be killed; files are moved, so a wrong order loses
  them;
* `entries_` is a copy of the manifest, changed before it is saved and rolled back
  by `catch` blocks;
* several runs share the vault, its temporary names, and the user's directory;
* user files change while a command works on them;
* worker threads share one buffer; the random source returns short counts or is
  interrupted; counters and lengths have fixed widths.

### What makes each part correct

* **Vault file operations.** The manifest on disk is always absent or whole.
  Whatever it lists can be extracted: its object is there, sealed for that very
  entry, of the recorded length.  No two entries share a name or an object.
  Between commands `entries_` is the list on disk, also after a command that threw.
  An entry leaves the list only by the command that names it.  A moved file is on at
  least one side at every instant, and on exactly the other one in the end.  A
  failed add leaves no object behind.
* **Initialisation.** An init that fails or is killed leaves nothing, or a vault
  that opens; a master key in use is never replaced; every entry stays under the key
  it was added with.
* **File formats.** What was saved loads as the same value; a file that lost its end
  or gained one is refused; two different blobs are never sealed under the same
  authenticated data.
* **SM4-CTR.** Whatever the threads do, every byte is combined once, with the
  keystream byte of its own position, before the call returns.
* **SM3.** However a message is cut into updates, the digest is that of the whole
  padded message, and nothing of it reaches the next message of the object.
* **HKDF and PBKDF2.** Each output byte is the one the RFCs define; a request that
  the counter cannot number is refused, any other is answered in full (with one
  exception, see `Answered`).
* **Random bytes.** No byte that is returned is one that no source has filled.
* **SM4.** Decryption undoes encryption.
* **HMAC.** The MAC is that of RFC 2104 for keys below, at and above a block, however
  the message is cut.
* **Blobs and the key hierarchy.** What was sealed opens as it was, with the right
  password only; a file that was altered, or put together from blobs of several
  objects, opens to nothing.
* **Secure buffers.** Moves neither lose nor double a secret, and memory that is given
  back holds none.  A command leaves no key behind.
* **Command line.** A line that the usage text allows does what it says; a file that
  was to be kept is not removed; the terminal echoes after the prompt if it did before.

## The modules

| module | models | how it corresponds to the code |
|---|---|---|
| `Vault` | `add_file`, `extract_file`, `delete_file`, constructor, destructor (`src/vault.cpp`), `write_file_atomic` (`src/util.cpp`), the commands of `src/main.cpp` | one action per system call that another process or a kill can tell apart. `fs` is the directory, `fd` the open streams, `op` the locals of the running command, `pc` its next call, `entries` its `entries_`. `AddFile` is `add_file` up to the drawing of the id, `ReadSource` up to the object's bytes, `OpenTmp`/`WriteTmp`/`RenameTmp` are `write_file_atomic`, `WriteFails` its exceptions, `Unwind` the `catch` blocks, `PushEntry` the push and `save_manifest`, `RemoveSource` the end; `DeleteFile` and `RemoveObject` are `delete_file`; `ExtractFile` and `AfterExtract` are `extract_file`. A command that is refused before it changes anything is an action that is not enabled. |
| `SafeTransfer` | what the vault promises its user | abstract: contents move between two sides; `Vault` implements it |
| `VaultInit` | `Vault::init`, `load`, `load_manifest`, and the save of an add | the two files, written one after the other by the calls of `write_file_atomic`. `key` is `master_key_`; derived keys are left out, they are functions of it.  Between two calls that others can see, a command is one action |
| `Format` | every `serialize_*`, `parse_*`, `append_*`, `read_*` and `*_aad` | a file is a sequence of cells, one per fixed-width field and one per byte of a string; a parser returns the set of its results |
| `CtrParallel` | `Sm4::ctr_crypt`, `ctr_crypt_range` | the caller's loop, a step per counter block of each thread, a thread that cannot start, the join in the destructor of the vector |
| `CtrStream` | what CTR mode promises | abstract; `CtrParallel` implements it |
| `BlockCounter` | `increment_counter`, `add_counter` | the byte arrays that `CtrParallel`'s numbers stand for, with their carries |
| `Sm3` | `Sm3::update`, `final`, `reset` | the buffering and the padding; the compression function is not interpreted, `state` is what it was given |
| `HashStream` | what a streaming hash promises | abstract; `Sm3` implements it |
| `Blob` | `compute_tag`, `encrypt_blob`, `decrypt_blob` (`src/crypto.cpp`) | operators over `macs`, the inputs that tags have been computed of: HMAC is ideal, a tag is the place of its input in that list; CTR mode is XOR with any keystream, as `CtrStream` promises |
| `Sealing` | what the vault seals and opens (`src/vault.cpp`): the manifest under the manifest keys, a content under its file key, the file key under the wrap keys, the master key under the password's | `SealManifest`, `SealObject`, `SealMeta` produce what `Format!Save` writes; `Alter`, `Splice` and `Format!Damage` change the file; `Format!Load` parses it and `Open` is the rest of `load`, `load_manifest`, `extract_file` |
| `Sm4Block` | the constructor of `Sm4`, `crypt_block_compact` in both directions (`src/sm4.cpp`) | a step per round; a word is a set of bits, the two substitutions are any functions |
| `Hmac` | class `HmacSm3` | its actions are conjunctions of `Sm3`'s: `inner_` is that module's object |
| `SecureBuffer` | classes `SecureBytes`, `SecureString` (`src/secure_bytes.cpp`) | per object the capacity of its heap memory, its size, and the set of cells that hold a byte of a secret, on the heap and in the room that a short `std::string` keeps in itself |
| `Cli` | `main`, `take_option`, `take_flag`, `obtain_password`, `read_password_from_tty` (`src/main.cpp`) | words are words; `args` is the vector, `Read` the options and flags of a command in the order in which the code takes them |
| `Secrets` | where the keys of a command are put into memory and wiped (`src/vault.cpp`) | a command is the sequence of its statements that do either or can throw; a throw runs the destructors of what has been built |
| `Kdf` | `hkdf_sm3`, `pbkdf2_hmac_sm3` | the loops and counters over an uninterpreted HMAC: a block is what was hashed into it |
| `RandomBytes` | `random_bytes` and its two sources | short reads, interruptions, failure half way, the fallback |
| `MCVault`, `MCVaultInit`, `MCFormat`, `MCCtrParallel`, `MCLibrary`, `MCCli` | - | values of constants for TLC, and symmetry; `MCCli` has the command lines, and `MCLibrary` puts several components into one run |
| `VaultProofs`, `VaultObjectProofs`, `VaultInitProofs`, `CtrProofs`, `Sm3Proofs`, `SealingProofs`, `PrimitiveProofs`, `Arithmetic` | - | the proofs |

`MCLibrary` holds seven components that share nothing (`Sm3` with `Hmac`,
`SecureBuffer`, `Sm4Block`, `Kdf`, `RandomBytes`, and through `MCCli` `Cli` and `Secrets`).
A behaviour chooses one of them in its first state (`use`) and the others stay as if
never called, so that the states add up and do not multiply.

In `Vault`, cryptography is abstracted to what `Format` and the primitives give it:
a blob opens exactly under the authenticated data it was sealed for, which `Sealing`
checks with the keys and the files in full, over `Blob`.
`added_unix_seconds`, which an object's authenticated data binds and `list` prints, is a
field in `Format` and `Sealing`; `Vault`, where no step depends on it, leaves it out.
In `VaultInit`, keys are drawn values.

Some variables are not in the code and remember what a property speaks of:
`Sm3.message` (what `update` was given), `Hmac.key`, `Sm4Block.words` and `block`,
`SecureBuffer.held` and, of each object, `shrunk` and `husk`, `Sealing.goal` and `other`, and
`VaultInit.overlapped` (two commands have been changing the directory at the same
time).  None decides what the code's steps do; `goal` chooses the file a behaviour of
`Sealing` is about and the password that opens it.

Definitions such as `TmpInPlace`, `NoRollback` or `AddByteDropped`, each just before
the definition it resembles, are plausible mistakes: put in the place of the right
one, each makes the run named in `PROJECT.json` fail, so the property it is paired
with is sensitive to the code.

## The runs

| run | instance | shows |
|---|---|---|
| `crash` (`MCVault_crash.cfg`) | one writing run, two user files, two ids, every fault | the vault's invariants and `TransferSpec` with any call failing and a kill between any two |
| `reader` | a writing run and an extracting one, one id, two contents of different lengths, failing writes | `ObjectInv`, the inductive invariant of the proofs; no orphan object |
| `completion` | as `reader`, no failures, both lengths, fairness | a started move ends |
| `init` (`MCVaultInit_init.cfg`) | two inits, a run that adds two entries, three keys, failing writes and kills | one key per entry in every interleaving; the rest unless two commands change the directory at once |
| `formats` (`MCFormat_formats.cfg`) | bytes of two values, strings and lists of up to two, contents of up to three cells, lengths in 16 values, two passwords, three drawn keys; one other object of the vault | round trip, refusal of damage, unambiguous authenticated data; then what was sealed opens through the whole key hierarchy, and nothing that was altered or spliced does |
| `ctr` (`MCCtrParallel_ctr.cfg`) | inputs of 0 to 13 bytes in blocks of two, up to four workers, counters of three bits | `CtrStream` is implemented, the call ends, byte arrays agree with numbers |
| `library` (`MCLibrary_library.cfg`) | SM3 and HMAC: blocks of four bytes with a length field of two, messages of up to nine bytes in pieces of 0, 1, 2, 6, 9, keys of 1, 4 and 5. SM4: five rounds on words of two bits. Buffers: two objects, secrets of up to three bytes, strings of two inside their object. KDF: digests of three bytes, counters of three bits, up to four iterations, lengths around each boundary. Random: up to ten bytes | `HashStream` is implemented, MACs are RFC 2104's, decryption undoes encryption, memory given back is clean but for two named kinds, derived keys are those of the RFCs, every byte is filled, every call is answered but one kind |
| | Command line: every line of up to three of twelve words, every complete command with its options at any place and with any word left out. Keys: every command of the vault with an exception at any statement | lines mean what the usage text says, and flags that keep a file are never lost; success leaves no key |
| `lost_update`, `shared_tmp` | two writing runs | expected violations, see below |
| `source_changes` | users may change a file that is being added | expected violation |
| `large_file` (`MCFormat_large_file.cfg`) | a ciphertext of as many bytes as a length has values | expected violation |
| `keys_left` (`Secrets_keys_left.cfg`) | the commands in `library` | expected violation |

### Why these bounds are enough

*Vault.* The properties relate an entry to its object, its source or another entry,
so two user files and two ids show every collision; a second command can always
reuse what the first one left (a torn temporary file, an orphan, an entry).  A run
does any number of commands, so there is no bound on the history.  `MaxTmp = 0`: no
user file is called `<other>.tmp`.  Contents are told apart by their lengths only
where the length matters (`reader`, `source_changes`).

*VaultInit.* Three keys: one on disk and one for each init.  Two entries: one that is
listed and one that is being added.

*Format, Sealing.* A length up to a few cells, lists up to the limit, and ids that are
prefixes of one another are where framing goes wrong.  One altered cell is enough to
reach every field of a file, and two objects with different ids, names and keys give
every wrong pairing of blobs.

*CtrParallel.* Seven blocks over up to four workers give shares that divide evenly,
that leave a short last share, and that leave a worker nothing; each has a whole and
a half last block, and some starting counters wrap in the middle of the input.

*Sm3, Hmac, Kdf.* Every residue of the length modulo the block, one block and several; one
size beyond each limit; a key just below, of, and just above a block.

*Sm4Block.* More rounds than words of a block, so that every round key and every
position of the block is shifted through.  The proof is for any number.

*SecureBuffer.* Two objects are all that a call has; lengths on both sides of what a
string keeps in itself; sequences of calls of any length.

*Cli.* A line is taken apart by at most two options and one flag; the short lines give
every combination of three words, the long ones every order of a command's parts.
Numbers are 0 to 63 of which 16 are in 32 bits.

### Fairness

`Vault!FairSpec` asks that a running command goes on (weak fairness of `Step`): it is
straight-line code in a process of its own.  Nothing is asked of users or of the
start of a command.  `CtrParallel!FairSpec` asks it of each thread, which the system
schedules.  `MCLibrary!LibrarySpec` asks it of
`Kdf`, which is one thread, and of `RandomBytes` but for interruptions: it asks that
`getrandom` is not interrupted for ever, as the loop in `fill_random_getrandom`
otherwise indeed never ends.  The other modules state safety only.

### Expected violations

* `lost_update`: `entries_` is loaded once and written back without a lock.  Of two
  overlapping runs the later `save_manifest` drops the entry that the other has
  added, whose source is gone.
* `shared_tmp`: `write_file_atomic` gives every writer of a file the same temporary
  name.  A save that has just opened and emptied it has it renamed to `manifest.bin` by
  another save.
* `source_changes`: `add_file` takes `file_size(source)` before it reads the source.
  If the length changes in between, the object is sealed for a length its content
  does not have, and no extraction accepts it.
* `keys_left`: `docs/report.md` says that derived, wrapping and content keys are wiped
  when their lifetime ends.  The arrays that hold them are wiped by calls at the end of
  each function, and the vault's by its destructor: an exception passes over the calls,
  and a constructor that throws has no destructor run.  A wrong password leaves the
  two keys derived from it; `LeavesNoVaultKey` says that it leaves no more.
* `large_file`: `append_blob` stores a length in 32 bits; `read_file` accepts 16 GiB.

### What the passing properties assume

* One run at a time changes a vault (`SingleWriter`), next to any number that extract
  with `--keep-in-vault`.  With two writers, `lost_update` and `shared_tmp`.
* Users leave a file alone while a command works on it (`Careful`), and have no file
  called `<destination>.tmp`, which `write_file_atomic` would replace.  Without the
  first, `source_changes`.
* `TransferSpec` is checked and proved for one run.  A reader beside it may hold an
  entry from its old list that has been removed since, which is harmless but no step
  of `SafeTransfer`.
* `NoOrphanObject`: nothing is killed, and `unlink` works.
* `VaultOpens`, `KeyNeverReplaced`, `AddedEntriesStay`: no two commands change the
  vault at once.  `init` claims the directory only by writing `vault.meta` after the
  derivation of the password key, and saves the empty list after that.  `OneKeyPerEntry`
  holds however they overlap.  The rest does not: two inits that have both passed the
  check replace each other's key, and a run that opens the vault between `init`'s two
  files can have what it adds replaced by the empty list.
* `Answered` does not assume, but says, that one kind of request never ends: PBKDF2 with
  exactly 2^32 - 1 blocks, which the check admits and a 32-bit loop counter cannot count
  past.
* `LoadsWhatWasSaved`: a list has at most `kMaxEntries` entries, which `save_manifest`
  does not check: one more, and no later load of the vault succeeds.  And the length of a
  ciphertext is one of 32 bits (`large_file`).
* `AddedEntriesStay`: one run that adds.  With two, `lost_update` is the case.
* A hashed message is shorter than 2^64 bytes (`MaxMessage < Word`).
* `AlteredIsRefused`, `OpensWhatWasSealed`: HMAC and the key derivations give different
  results for different inputs.
* `NothingLeft` names two kinds of memory that are given back with bytes of a secret in
  them, and says that no other is, whatever else happens to the object or to others: the
  heap that `resize`, which nothing in the code calls, gives back or makes smaller
  (`resized`); and the cells of a string object out of which a string of 2 to 15 bytes
  was moved (`husk`): a move copies these and overwrites only the first.
  `SecureString`'s constructor takes its argument by value and moves it, so that of every
  password of that length a copy stays in the argument.  What the property says of such
  a password is that the object which holds it in the end, if none was moved out of it
  before, is wiped; of a longer one, that no copy stays anywhere.
* `Understood` says nothing of what `Vault` then makes of the command: a wrong password
  or a missing file is an error after the call.
* `KeptIfAsked`: the flag is not the value of `--password`, which is taken first.
* `EveryWordUsed`: `encrylib --password P` with nothing else does read past the end
  of an empty vector; the property says that no other line does.  A flag that the
  command does not have counts as an operand.
* `EchoRestored`: no signal ends the program at the prompt.
* `LeavesNoVaultKey`: memory does not run out.

## The proofs

| theorem | says | assumes |
|---|---|---|
| `VaultProofs!TypeCorrect` | types | - |
| `VaultProofs!ManifestAlwaysReadable`, `NamesAndIdsAlwaysUnique`, `MemoryAlwaysMatchesDisk`, `EntriesStayUntilRequest` | the vault's own files and list | `SingleWriter` |
| `VaultObjectProofs!ObjectInvHolds`, `EntriesAlwaysRecoverable` | the inductive invariant; every listed entry can be extracted | `SingleWriter`, `LeftAlone` |
| `VaultObjectProofs!NoObjectLeftBehind` | no object without an entry | `SingleWriter`, `NothingIsLeft`: no kills, and `unlink` works |
| `VaultObjectProofs!VaultImplementsSafeTransfer` | `Vault` implements `SafeTransfer` | `OneRun` (one run, which may write), `LeftAlone` |
| `VaultInitProofs!VaultInitTypes`, `EntriesKeepTheirKey` | types; one key per entry in every interleaving | - |
| `VaultInitProofs!VaultsOpen`, `KeyIsKept` | a vault that opens, under a key that stays, until two commands overlap | - |
| `VaultInitProofs!NothingForgotten` | no save forgets a listed entry, until two commands overlap | `OneUser`: one run that adds, next to any number of inits |
| `CtrProofs!CtrTypeCorrect`, `CtrInvHolds`, `CtrImplemented` | the inductive invariant; `CtrParallel` implements `CtrStream` | - |
| `CtrProofs!CountersAreRight` | the byte arrays of `BlockCounter` add as the numbers of `CtrParallel` do | - |
| `Sm3Proofs!Sm3Types`, `MessageKept`, `HashImplemented` | types; `Sm3` implements `HashStream` | - |
| `Sm3Proofs!EveryMacIsHmac` | every MAC is RFC 2104's | - |
| `SealingProofs!TagInputInjective` | what a tag covers is never ambiguous | - |
| `SealingProofs!OpensOnlyWhatWasSealed` | a blob with the tag of one that was sealed opens under the same MAC key only as that one, to what was sealed | HMAC as in `Blob` |
| `SealingProofs!EveryDamageRefused`, `NoDataShared`, `AlteredNeverOpens` | a torn, extended, altered or spliced file is refused; no two blobs share their authenticated data | `Fitting` |
| `SealingProofs!SavedIsLoaded`, `SealedIsOpened` | what was saved loads, and what was sealed opens, as it was | `Fitting`, `FilesFit` |
| `PrimitiveProofs!Sm4RoundTrip` | decryption undoes encryption | - |
| `PrimitiveProofs!RandomTypes`, `EveryByteDrawn` | every returned byte has been filled | - |
| `PrimitiveProofs!KdfTypes`, `HkdfDerives`, `Pbkdf2Derives` | outputs are those of the RFCs | - |
| `PrimitiveProofs!NothingLeftBehind`, `EachSecretHasOneOwner` | no memory given back holds a byte of a secret, but what `resize` gives back or made smaller, and the own cells of a string out of which a short string was moved; moves neither lose nor double a secret | - |
| `PrimitiveProofs!NoWordIgnored`, `FlagsObeyed`, `TerminalRestored` | the command line: words, flags that keep a file, the echo | - |
| `PrimitiveProofs!LinesUnderstood` | a line that the usage text allows reaches `Vault` without an error, and as it says | - |

"-": only the assumptions that the modules put on their constants.  All hold for any
number of runs, names, ids, contents, threads, rounds, block sizes, bytes of a counter,
secrets and lines, and any faults.  `CounterAssumption` says that `Period` is the number
of counters that so many bytes hold, and that an input's length fits the `uint64_t` in
which `add_counter` gets a number of blocks; `CliAssumption`, that `std::stoul` of a
word is a natural number or throws.

`Fitting` says that no length is cut to its 32-bit field (`LengthsFit`, `ListsFit`),
that what is encrypted is made of cells (`CellsFit`), and that each key has a keystream
of numbers (`Keystreams`); `FilesFit`, that no file is longer than `read_file` admits.
The code checks none of this when it writes: `large_file` is the run in which lengths
do not fit, and `LoadsWhatWasSaved` fails there.  TLC evaluates all of them but
`Keystreams` on the instance of `formats` (`RoomForLengths` in `MCFormat`).

*Vault.* None of the invariants is inductive by itself: that the manifest is whole
rests on the temporary file being whole at the rename, which rests on no other stream
writing to it.  `WriterInv` (in `Vault`) therefore says of every phase of a command
which file it saves and what its bytes are (`PhaseInv`, `SaveInv`), that an open
stream leads to its own temporary file (`StreamInv`), that `entries_` is the list on
disk but for the change being saved (`ListInv`), that the entry being added is new
and the one being deleted listed (`EntryInv`), and that listed objects exist
(`PresentInv`).  It survives anything done to user files.  `ObjectInv` adds which
user files are in use (`UseInv`) and that a source keeps its length until it is read
(`SourceInv`); that is where `LeftAlone` is needed, as `source_changes` shows.

*SafeTransfer.* A content changes sides at the step that makes its second copy, or its
only one, permanent, and a command that is over must have left it on one side.
`TransferInv` adds to `ObjectInv` what a command knows at each of its calls: while a
content is on both sides (`BothSides`), the user's file holds exactly what the object
opens to (`Copied`), so either may be removed; and before the source is removed, the
entry is listed.

*CtrParallel.* `CtrInv` gives the run of blocks of each share and the counter of a
thread as a function of its offset (`JobInv`), says that what is written is what the
threads have done (`OutInv`), and which shares have a thread at which point of the
caller (`CallerInv`).  Lemmas `SharesDisjoint` and `SharesCover` do the arithmetic of
rounding up.  The refinement follows step by step.

*BlockCounter.* The value of an array is a recursive function over its bytes, and every
number below `Period` has one array (`DigitsOf`).  For both operations the lemma
`Carried` goes along two arrays from the first byte: if one is the other with a carry
coming in at each byte and going out at the one before, their values differ by the carry
into the last, up to a multiple of `Period`.  In `increment_counter` the carry is
whether all later bytes are full, in `add_counter` what is left of `blocks`.

*Sm3.* `StreamInv` says that compressed plus buffered bytes are the message;
`FinalPads` that one or two last blocks are the fewest that hold the padding.

*NoOrphanObject.* `AccountedFor` says that an object is listed or in the hands of a
command that has yet to list it, to take it back, or to remove it.  It rests on
`WriterInv`, since what is in hand depends on the phase of the command.

*VaultInit.* `InitInv`: each entry is named under one key only (`OneKey`), in
whatever file, temporary ones included, and in the memory of any run; and a run that
has not loaded a manifest knows no entry.  `Quiet`, until two commands
overlap: at most one command writes, the temporary files are its own, and what it
writes is under the key that is on disk.  `Remembers` adds that an init saves its empty
list while there is none, and that the run that adds knows at every step, from its load
to its save and in the rollback of one that failed, all that the vault lists.

*Hmac.* `HmacInv`: between construction and `final`, the inner object has been given
the inner pad and then the message, in whatever pieces.  With `MessageKept`, the digest
is that of both.

*Blob.* The lengths in front of the fields make `TagInput` injective field by field;
a tag in the list then has one input.

*Format.* Each parser is shown to be the inverse of its writer in both directions: it
reads back what was written, and what it reads from any cells is what would have been
written there.  Of a file that lost or gained an end, the second direction gives a value
whose file would be of another length.  A list goes through a recursive function over
its entries; the induction is done on sets of numbers (`Arithmetic!InductionTo`, from
the least element that is missing).

*Sealing.* `SealingInv`: the value has been sealed from the goal, under the keys of its
purpose (`SealedFrom`), with each tag issued once (`NoneTwice`); the file is the value's,
or what the damage made of it (`FileIs`); and what was read is what the parser gives.
A blob that opens has a tag that was issued, hence is the blob that was sealed with it;
so an altered file would have to be the one that was saved.  For spliced files it takes
that the two objects differ in their authenticated data or their keys.

*SecureBuffer.* `SecretInv`: the cells that hold a secret are those an object shows.
None lies beyond its size on the heap, unless `resize` made that heap smaller, nor in the
room inside the object, unless a short string was moved out of that object; so what
`clear` wipes, which is as much as the size says, is all there is in any other memory
(`WipedBeyond`).  Which of the two it was is kept for each memory, so that one such move
excuses no other object.

*Cli.* `CliInv`: at each place of `main` the words of the line are the ones taken so far
and the ones left, and a flag that keeps a file is among what is left, has been taken,
or is the password.  `UnderstandingInv` adds, for a line that is allowed, that `args` is
the line at certain places, in their order (`Sub`): without `--password` and its value,
then without the command, its flag, its option and the option's value.  As no option
stands twice or in another's place, a step takes out the places it should
(`FlagDropped`, `OptionDropped`), the places that remain are those of the operands
(`UnreadIsBare`), and listing them in order gives what `Words` picks by counting
(`Rank`).

*Sm4Block.* `Sm4Inv`: while encrypting, `words` satisfies the recurrence of the rounds
as far as they have gone, and the round keys no longer change; while decrypting, `x`
is the last four words that have not been undone, backwards.

*RandomBytes.* `RandomInv`: all in front of what is left has been filled.

*Kdf.* `KdfInv`: what has been written is right up to `written`, `last` is the previous
block and `t` the XOR of the iterations so far.  It also covers the wrap of PBKDF2's
counter, after which every block is cut to nothing.

The type invariants of `VaultInit`, `CtrParallel`, `Sm3`, `Kdf` and `RandomBytes` are
proved and not listed in a run; TLC checks `Vault`'s, and `CtrParallel`'s as a part of
`CtrInv`.

### What is only model-checked

* Liveness: `MoveInCompletes`, `MoveOutCompletes`, `Terminates`, `Answered`, `Answers`.
  It is out of the prover's reach.
* `LeavesNoVaultKey`: `Secrets` has no parameters, so that TLC visits all of it.

## What is not modelled

* The tables and rotations in SM4's substitutions, and SM3's compression: fixed
  arithmetic that test vectors cover.
* `xor_stream`, which XORs eight bytes at a time; the moves of `Sm4` and `HmacSm3`,
  which nothing uses.
* The disk's cache: nothing is flushed before a source is removed (no `fsync`).
  `Vault` models kills of the program, after which what it wrote is there; after a
  power failure any part of it may be, and no property of the vault would hold.
* A user file called `<destination>.tmp` (`MaxTmp` is 0 in the instances).
* What is printed, `format_time`, `sanitize_name`, a `tcsetattr` that fails to restore
  the terminal, memory that runs out.
* The tests and the benchmark.

## Plan

Done, in this order: `Vault` with `SafeTransfer` and its proofs; `CtrParallel` with
`CtrStream`, `BlockCounter` and its proofs; `Sm3` with `HashStream` and its proofs;
`VaultInit`, `Kdf`, `RandomBytes`, `Format`; `Blob` and `Sealing`, `Hmac`,
`SecureBuffer`, `Sm4Block`, `Cli`, `Secrets`; the proofs about `VaultInit`, `Blob`,
`Sm4Block`, `Kdf`, `RandomBytes` and orphan objects; the refinement of `SafeTransfer`;
the proofs about `Format`, `Sealing`, `Hmac`, `SecureBuffer`, `Cli` and `VaultInit`'s
listed entries; those about the counters' bytes and the lines that are allowed.

To extend the model: `sanitize_name` with the names that reach `extract_file`'s
destination; the moves of `HmacSm3`.

To prove more: `VaultInit` as an instance of one abstract vault with `Vault`.
