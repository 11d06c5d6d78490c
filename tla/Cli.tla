---------------------------------- MODULE Cli ----------------------------------
(***************************************************************************)
(* The command line (src/src/main.cpp): how main reads its arguments, where *)
(* the password comes from, and what the terminal is left like.  What a    *)
(* call of Vault does is in other modules; here it succeeds or throws.     *)
(***************************************************************************)
EXTENDS Integers, Sequences, FiniteSets

CONSTANTS
  Line,          \* argv from argv[1] on, as sequences of words
  Stoul(_),      \* std::stoul of a word: a number, or -1 where it throws
  UInt32Max,     \* UINT32_MAX
  Default        \* VaultConfig's kdf_iterations, as a word

ASSUME CliAssumption ==
  /\ Line \subseteq Seq(STRING)
  /\ UInt32Max \in Nat
  /\ Stoul(Default) \in 0 .. UInt32Max
  /\ \A l \in Line : \A i \in DOMAIN l : Stoul(l[i]) \in Nat \cup {-1}

VARIABLES
  line,          \* the words main was called with
  args, command, \* as in main
  cli_password,  \* the value of --password, if any: a set of at most one word
  value,         \* that of --iterations or --name
  flag,          \* keep_source or keep_in_vault
  at,            \* where main is: "called" and "returned" once Vault has been, and
                 \* "end" where the process ends before it has
  echo,          \* ECHO is set in the terminal
  old_term,      \* what it was
  status         \* "running", the exit status, or how else the process ended

cliVars == <<line, args, command, cli_password, value, flag, at, echo, old_term, status>>

Help == {"-h", "--help", "help"}
Commands == {"init", "list", "add", "extract", "remove", "delete"}

\* The option with a value and the flag of each command, and its operands.
OptionOf(c) == CASE c = "init" -> {"--iterations"} [] c = "add" -> {"--name"} [] OTHER -> {}
FlagOf(c)   == CASE c = "add" -> {"--keep-source"} [] c = "extract" -> {"--keep-in-vault"}
                 [] OTHER -> {}
Arity(c)    == CASE c \in {"init", "list"} -> {1} [] c = "extract" -> {2, 3} [] OTHER -> {2}

-----------------------------------------------------------------------------
Places(s, w)    == {i \in DOMAIN s : s[i] = w}
FirstPlace(s, w) == CHOOSE i \in Places(s, w) : \A j \in Places(s, w) : i <= j
Removed(s, i, n) == SubSeq(s, 1, i - 1) \o SubSeq(s, i + n, Len(s))

\* take_option: the value behind the first occurrence, which may be any word.
NoValue(s, w) == Places(s, w) # {} /\ FirstPlace(s, w) = Len(s)
Option(s, w) == IF Places(s, w) = {} THEN {} ELSE {s[FirstPlace(s, w) + 1]}
AfterOptionKept(s, w) == IF Places(s, w) = {} THEN s ELSE Removed(s, FirstPlace(s, w), 1)
AfterOption(s, w) == IF Places(s, w) = {} THEN s ELSE Removed(s, FirstPlace(s, w), 2)

\* take_flag
AfterFlagAll(s, w) == SelectSeq(s, LAMBDA v : v # w)
AfterFlag(s, w) == IF Places(s, w) = {} THEN s ELSE Removed(s, FirstPlace(s, w), 1)

\* The same for an option or a flag that the command has or does not have.
Each(words, s, F(_, _)) == IF words = {} THEN s ELSE F(s, CHOOSE w \in words : TRUE)

\* add takes its flag before its option, so that a name cannot swallow it.
ReadFlagLast(c, s) ==
  LET words == Each(OptionOf(c), s, AfterOption)
  IN  [flag |-> \E w \in FlagOf(c) : Places(words, w) # {},
       fails |-> \E w \in OptionOf(c) : NoValue(s, w),
       value |-> UNION {Option(s, w) : w \in {o \in OptionOf(c) : ~ NoValue(s, o)}},
       operands |-> Each(FlagOf(c), words, AfterFlag)]
Read(c, s) ==
  LET words == Each(FlagOf(c), s, AfterFlag)
  IN  [flag |-> \E w \in FlagOf(c) : Places(s, w) # {},
       fails |-> \E w \in OptionOf(c) : NoValue(words, w),
       value |-> UNION {Option(words, w) : w \in {o \in OptionOf(c) : ~ NoValue(words, o)}},
       operands |-> Each(OptionOf(c), words, AfterOption)]

\* The number that is refused, and the one that init is called with.
NotANumber(w) == Stoul(w) = -1 \/ Stoul(w) > UInt32Max
Iterations == IF value = {} THEN Stoul(Default)
              ELSE Stoul(CHOOSE w \in value : TRUE) % (UInt32Max + 1)

-----------------------------------------------------------------------------
CliInit ==
  /\ line \in Line /\ echo \in BOOLEAN
  /\ args = line /\ command = "" /\ cli_password = {} /\ value = {} /\ flag = FALSE
  /\ at = "start" /\ old_term = echo /\ status = "running"

Exit(s) == at' = "end" /\ status' = s

NoArguments == line = <<>>

\* argc is checked before the arguments are, and --password comes first of all.
TakePassword ==
  /\ at = "start"
  /\ \/ NoArguments /\ Exit("1") /\ UNCHANGED <<args, cli_password>>
     \/ ~ NoArguments /\ NoValue(args, "--password") /\ Exit("2")
        /\ UNCHANGED <<args, cli_password>>
     \/ /\ ~ NoArguments /\ ~ NoValue(args, "--password")
        /\ cli_password' = Option(args, "--password")
        /\ args' = AfterOption(args, "--password")
        /\ at' = "command" /\ UNCHANGED status
  /\ UNCHANGED <<line, command, value, flag, echo, old_term>>

\* front() and erase() of an empty vector have no defined effect.
TakeCommand ==
  /\ at = "command"
  /\ \/ args = <<>> /\ at' = "end" /\ status' = "undefined" /\ UNCHANGED <<args, command>>
     \/ /\ args # <<>> /\ command' = Head(args) /\ args' = Tail(args)
        /\ \/ command' \in Help /\ Exit("0")
           \/ command' \in Commands /\ at' = "arguments" /\ UNCHANGED status
           \/ command' \notin Help \cup Commands /\ Exit("1")
  /\ UNCHANGED <<line, cli_password, value, flag, echo, old_term>>

TakeArguments ==
  /\ at = "arguments"
  /\ LET r == Read(command, args)
     IN  /\ flag' = r.flag /\ value' = r.value
         /\ args' = IF r.fails THEN args ELSE r.operands
         /\ \/ r.fails /\ Exit("2")
            \/ ~ r.fails /\ Len(r.operands) \notin Arity(command) /\ Exit("1")
            \/ /\ ~ r.fails /\ Len(r.operands) \in Arity(command)
               /\ IF command = "init" /\ \E w \in r.value : NotANumber(w)
                  THEN Exit("2") ELSE at' = "password" /\ UNCHANGED status
  /\ UNCHANGED <<line, command, cli_password, echo, old_term>>

\* obtain_password: the option's, that of ENCRYLIB_PASSWORD if it is set, or
\* else one that is typed.
ObtainPassword ==
  /\ at = "password"
  /\ at' \in {"call"} \cup (IF cli_password = {} THEN {"prompt"} ELSE {})
  /\ UNCHANGED <<line, args, command, cli_password, value, flag, echo, old_term, status>>

\* read_password_from_tty: standard input is no terminal, or its attributes
\* cannot be read or set, and the line is read as it is.
PromptPlainly ==
  /\ at = "prompt"
  /\ at' = "call"
  /\ UNCHANGED <<line, args, command, cli_password, value, flag, echo, old_term, status>>

PromptHidden ==
  /\ at = "prompt"
  /\ old_term' = echo /\ echo' = FALSE
  /\ at' = "typing"
  /\ UNCHANGED <<line, args, command, cli_password, value, flag, status>>

\* The line is complete, or standard input has ended.
EchoOn == TRUE
EchoAsBefore == old_term
Typed ==
  /\ at = "typing"
  /\ echo' = EchoAsBefore
  /\ at' = "call"
  /\ UNCHANGED <<line, args, command, cli_password, value, flag, old_term, status>>

\* A signal ends the process at the prompt; none is handled.
Interrupt ==
  /\ at = "typing"
  /\ at' = "end" /\ status' = "signal"
  /\ UNCHANGED <<line, args, command, cli_password, value, flag, echo, old_term>>

CallVault ==
  /\ at = "call"
  /\ at' = "called"
  /\ UNCHANGED <<line, args, command, cli_password, value, flag, echo, old_term, status>>

ReturnOrThrow ==
  /\ at = "called"
  /\ at' = "returned" /\ status' \in {"0", "2"}
  /\ UNCHANGED <<line, args, command, cli_password, value, flag, echo, old_term>>

CliNext == \/ TakePassword \/ TakeCommand \/ TakeArguments \/ ObtainPassword
           \/ PromptPlainly \/ PromptHidden \/ Typed \/ Interrupt
           \/ CallVault \/ ReturnOrThrow

CliSpec == CliInit /\ [][CliNext]_cliVars

-----------------------------------------------------------------------------
\* How the usage text reads a line, from left to right: behind an option comes
\* its value, and the first of the other words is the command.
Options == {"--password", "--iterations", "--name"}
Flags   == {"--keep-source", "--keep-in-vault"}
IsValue(l, i) == i > 1 /\ l[i - 1] \in Options
Words(l) ==
  LET places == {i \in DOMAIN l : l[i] \notin Options \cup Flags /\ ~ IsValue(l, i)}
  IN  [n \in 1 .. Cardinality(places) |->
         l[CHOOSE i \in places : Cardinality({j \in places : j < i}) = n - 1]]
ValueOf(l, w) == {l[i] : i \in {j \in DOMAIN l : j > 1 /\ l[j - 1] = w}}

\* Lines that it allows: no option twice, none that the command does not have,
\* none but --password in front of it, none in the place of a value, and as
\* many operands as the command takes.
Allowed(l) ==
  /\ Words(l) # <<>> /\ Words(l)[1] \in Commands
  /\ l[1] = Words(l)[1] \/ (l[1] = "--password" /\ l[3] = Words(l)[1])
  /\ \A w \in Options \cup Flags :
       /\ Cardinality(Places(l, w)) <= 1
       /\ Places(l, w) # {} =>
            w \in {"--password"} \cup OptionOf(Words(l)[1]) \cup FlagOf(Words(l)[1])
  /\ \A i \in DOMAIN l : l[i] \in Options =>
       i < Len(l) /\ l[i + 1] \notin Options \cup Flags
  /\ Len(Words(l)) - 1 \in Arity(Words(l)[1])
  /\ \A w \in ValueOf(l, "--iterations") : Stoul(w) \in 0 .. UInt32Max

\* A line that the usage text allows is never refused, neither by the usage text
\* nor by an error on the way to Vault, and calls the command it names with the
\* operands, password, value and flag it gives, wherever among the operands they
\* stand.  Whatever the line, init gets the number that was asked for, not what 32
\* bits keep of it.
Understood ==
  /\ Allowed(line) =>
       /\ at = "end" => status = "signal"
       /\ at = "called" =>
            /\ <<command>> \o args = Words(line)
            /\ cli_password = ValueOf(line, "--password")
            /\ value = UNION {ValueOf(line, w) : w \in OptionOf(command)}
            /\ flag <=> \E w \in FlagOf(command) : Places(line, w) # {}
  /\ at = "called" /\ command = "init" => \A w \in value : Iterations = Stoul(w)

\* Whatever the line, Vault is called only once each word of it has been used,
\* and none twice; and the only line that main reads past its end is a lone
\* --password with a value.
EveryWordUsed ==
  /\ at = "called" =>
       Len(line) = 1 + Len(args) + 2 * Cardinality(cli_password) + 2 * Cardinality(value)
                   + (IF flag THEN 1 ELSE 0)
  /\ status = "undefined" => Len(line) = 2 /\ line[1] = "--password"

\* A file that was to be kept is: a line with the command's flag in it, however
\* mangled, does not reach Vault without it, unless it is --password's value.
KeptIfAsked ==
  (at = "called" /\ \E w \in FlagOf(command) : Places(line, w) # {}) =>
    flag \/ \E p \in cli_password : p \in FlagOf(command)

\* The terminal echoes after the prompt if and only if it did before, however
\* main goes on, unless a signal ended it there.
EchoRestored == at # "typing" /\ status # "signal" => echo = old_term
=============================================================================
