----------------------------- MODULE SafeTransfer -----------------------------
(***************************************************************************)
(* What an ENCRY_LIB vault promises its user: add moves a file into the    *)
(* vault, extract moves it out, and at every instant, of every interrupted *)
(* or failed command too, the content is on at least one side unless its   *)
(* owner asked for its removal.                                            *)
(*                                                                         *)
(* A path or a stored name denotes a set of contents: empty, or one.  The  *)
(* users leave alone a file that a running command was given.              *)
(***************************************************************************)
CONSTANTS Path, Content, Proc

VARIABLES
  inside,    \* what the vault stores under a name
  outside,   \* the user's files
  held,      \* what a run of extract has decrypted
  asked,     \* the names whose removal a user asked for
  used       \* the users' files that commands run on

vars == <<inside, outside, held, asked, used>>

None == {}

TypeOK ==
  /\ inside \in [Path -> SUBSET Content]
  /\ outside \in [Path -> SUBSET Content]
  /\ held \in [Proc -> SUBSET Content]
  /\ asked \subseteq Path
  /\ used \subseteq Path

Init ==
  /\ inside = [n \in Path |-> None]
  /\ outside \in [Path -> {None} \cup {{c} : c \in Content}]
  /\ held = [p \in Proc |-> None]
  /\ asked = {}
  /\ used = {}

\* A file's content enters the vault under a free name.
Deposit(q, n) ==
  /\ inside[n] = None /\ outside[q] # None
  /\ inside' = [inside EXCEPT ![n] = outside[q]]
  /\ UNCHANGED <<outside, held, asked>>

\* The source goes only when its content is stored.
DropSource(q) ==
  /\ \E n \in Path : outside[q] # None /\ inside[n] = outside[q]
  /\ outside' = [outside EXCEPT ![q] = None]
  /\ UNCHANGED <<inside, held, asked>>

\* An extraction decrypts what is stored, and puts it out.
Hold(p, n) ==
  /\ held[p] = None /\ inside[n] # None
  /\ held' = [held EXCEPT ![p] = inside[n]]
  /\ UNCHANGED <<inside, outside, asked>>

Release(p, q) ==
  /\ held[p] # None
  /\ outside' = [outside EXCEPT ![q] = held[p]]
  /\ UNCHANGED <<inside, held, asked>>

Forget(p) ==
  /\ held' = [held EXCEPT ![p] = None]
  /\ UNCHANGED <<inside, outside, asked>>

\* A stored content goes only when it is outside, or on request.
Withdraw(n) ==
  /\ n \in asked \/ \E q \in Path : inside[n] # None /\ outside[q] = inside[n]
  /\ inside' = [inside EXCEPT ![n] = None]
  /\ UNCHANGED <<outside, held, asked>>

\* The user's own doing.
Edit(q) ==
  /\ q \notin used
  /\ \E d \in {None} \cup {{c} : c \in Content} : outside' = [outside EXCEPT ![q] = d]
  /\ UNCHANGED <<inside, held, asked>>

\* Commands begin and end: at any time, also with one of the steps above.
Commands ==
  /\ asked' \in SUBSET Path
  /\ UNCHANGED <<inside, outside, held>>

Next ==
  /\ used' \in SUBSET Path
  /\ \/ \E q, n \in Path : Deposit(q, n)
     \/ \E q \in Path : DropSource(q) \/ Edit(q)
     \/ \E p \in Proc, n \in Path : Hold(p, n) \/ Release(p, n)
     \/ \E p \in Proc : Forget(p)
     \/ \E n \in Path : Withdraw(n)
     \/ Commands

Spec == Init /\ [][Next]_vars
=============================================================================
