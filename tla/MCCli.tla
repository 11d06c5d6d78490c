--------------------------------- MODULE MCCli ---------------------------------
(***************************************************************************)
(* Command lines for TLC, and beside them the keys of the commands; a part *)
(* of MCLibrary's runs.                                                    *)
(***************************************************************************)
EXTENDS Cli, Secrets

-----------------------------------------------------------------------------
\* An unsigned long of 64 values, 16 of which are in 32 bits.  A negative number wraps,
\* and what follows the digits is ignored.
MCStoul(w) == CASE w = "7" -> 7 [] w = "7x" -> 7 [] w = "16" -> 16 [] w = "-1" -> 63 [] OTHER -> -1

\* Every line of up to three of these words.
MCWord == {"init", "add", "extract", "help", "v", "7", "16",
           "--password", "--iterations", "--name", "--keep-source", "--keep-in-vault"}
Short == UNION {[1 .. n -> MCWord] : n \in 0 .. 3}

\* Longer ones: all that a command takes, the options at any place between its
\* name and its operands or before them; and those with a word left out.
Chunks(words, options) == [words |-> words, options |-> options]
Full ==
  {Chunks(<<"init", "v">>, {<<"--iterations", n>>, <<"--password", "p">>}) :
     n \in {"7", "7x", "16", "-1", "v"}}
  \cup {Chunks(<<c, "v">>, {<<"--password", p>>}) : c \in {"list", "help"}, p \in {"p", "list"}}
  \cup {Chunks(<<c, "v", "n">>, {<<"--password", "p">>}) : c \in {"remove", "delete"}}
  \cup {Chunks(<<"add", "v", "s">>, {<<"--name", n>>, <<"--keep-source">>, <<"--password", p>>}) :
          n \in {"n", "--keep-source", "--password"}, p \in {"p", "--keep-source", "--name"}}
  \cup {Chunks(<<"extract", "v", "n", d>>, {<<"--keep-in-vault">>, <<"--password", "p">>}) :
          d \in {"d", "--keep-in-vault", "--keep-source"}}

\* A line with chunk c put in at some place, not inside another.
PutIn(ls, c) ==
  UNION {{Append(SubSeq(l, 1, k), c) \o SubSeq(l, k + 1, Len(l)) : k \in 0 .. Len(l)} : l \in ls}
Chunked(f) ==
  LET single == [k \in DOMAIN f.words |-> <<f.words[k]>>]
      over[cs \in SUBSET f.options] ==
        IF cs = {} THEN {single}
        ELSE LET c == CHOOSE x \in cs : TRUE IN PutIn(over[cs \ {c}], c)
  IN  over[f.options]
Joined(chunks) ==
  LET from[n \in 0 .. Len(chunks)] == IF n = 0 THEN <<>> ELSE from[n - 1] \o chunks[n]
  IN  from[Len(chunks)]
Long == UNION {{Joined(c) : c \in Chunked(f)} : f \in Full}

MCLine == Short \cup Long \cup UNION {{Removed(l, k, 1) : k \in DOMAIN l} : l \in Long}

-----------------------------------------------------------------------------
LineIdle ==
  /\ line = <<>> /\ args = <<>> /\ command = "" /\ cli_password = {}
  /\ value = {} /\ flag = FALSE /\ at = "end" /\ echo = TRUE /\ old_term = TRUE
  /\ status = "0"
KeysIdle == rest = <<>> /\ keys = {} /\ built = FALSE /\ failed = "" /\ outcome = "returned"
=============================================================================
