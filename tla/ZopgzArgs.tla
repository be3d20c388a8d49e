------------------------------ MODULE ZopgzArgs ------------------------------
(***************************************************************************)
(* The arguments of the command are read twice: by parse_args for the      *)
(* options, and by main for the operands. Each loop decides for itself     *)
(* which arguments are options, and which is the value of -S. Zopgz says   *)
(* what becomes of an operand.                                             *)
(*                                                                         *)
(* An argument is one of: a name; "-"; "--"; "-S", whose value is the next *)
(* argument; "-kS", a cluster that ends in S, whose value is also the next *)
(* argument; and "-k", any other options.                                  *)
(***************************************************************************)
EXTENDS Integers, Sequences

VARIABLES
  argv,         \* the arguments, which never change
  pc,
  i,
  end_of_opts,
  use_stdin,    \* g_use_stdin
  seen,         \* the arguments that parse_args takes for names
  processed     \* those that main gives to process_one
vars == <<argv, pc, i, end_of_opts, use_stdin, seen, processed>>

Kinds == {"name", "-", "--", "-S", "-kS", "-k"}

a == argv[i]

Init ==
  /\ pc = "parse_args" /\ i = 1 /\ end_of_opts = FALSE /\ use_stdin = -1
  /\ seen = {} /\ processed = {}
-----------------------------------------------------------------------------
(* parse_args *)

Parsing == pc = "parse_args" /\ i <= Len(argv)

ParseName ==
  /\ Parsing /\ (a = "name" \/ end_of_opts)
  /\ IF use_stdin = 1
       THEN pc' = "usage" /\ UNCHANGED <<i, use_stdin, seen>>
       ELSE use_stdin' = 0 /\ seen' = seen \cup {i} /\ i' = i + 1 /\ UNCHANGED pc
  /\ UNCHANGED <<argv, end_of_opts, processed>>

ParseStdin ==
  /\ Parsing /\ a = "-" /\ ~end_of_opts
  /\ IF use_stdin # -1
       THEN pc' = "usage" /\ UNCHANGED <<i, use_stdin>>
       ELSE use_stdin' = 1 /\ i' = i + 1 /\ UNCHANGED pc
  /\ UNCHANGED <<argv, end_of_opts, seen, processed>>

EndsOptionsSlip == end_of_opts  \* slip: -- is an option like others
EndsOptions == a = "--" \/ end_of_opts

ParseOption ==
  /\ Parsing /\ a \in {"--", "-k"} /\ ~end_of_opts
  /\ end_of_opts' = EndsOptions /\ i' = i + 1
  /\ UNCHANGED <<argv, pc, use_stdin, seen, processed>>

ParseSuffix ==
  /\ Parsing /\ a \in {"-S", "-kS"} /\ ~end_of_opts
  /\ IF i = Len(argv)
       THEN pc' = "usage" /\ UNCHANGED i
       ELSE i' = i + 2 /\ UNCHANGED pc
  /\ UNCHANGED <<argv, end_of_opts, use_stdin, seen, processed>>

\* With no name the input is stdin, as it is with "-".
Parsed ==
  /\ pc = "parse_args" /\ i > Len(argv)
  /\ pc' = IF use_stdin = 0 THEN "main" ELSE "stdin"
  /\ i' = 1 /\ end_of_opts' = FALSE
  /\ UNCHANGED <<argv, use_stdin, seen, processed>>
-----------------------------------------------------------------------------
(* main *)

InMain == pc = "main" /\ i <= Len(argv)

SkipEnd ==
  /\ InMain /\ a = "--" /\ ~end_of_opts
  /\ end_of_opts' = TRUE /\ i' = i + 1
  /\ UNCHANGED <<argv, pc, use_stdin, seen, processed>>

SkipOption ==
  /\ InMain /\ a \in {"-", "-S", "-kS", "-k"} /\ ~end_of_opts
  /\ i' = IF a = "-S" /\ i < Len(argv) THEN i + 2 ELSE i + 1
  /\ UNCHANGED <<argv, pc, end_of_opts, use_stdin, seen, processed>>

ProcessOne ==
  /\ InMain /\ (a = "name" \/ end_of_opts)
  /\ processed' = processed \cup {i} /\ i' = i + 1
  /\ UNCHANGED <<argv, pc, end_of_opts, use_stdin, seen>>

Finished ==
  /\ pc = "main" /\ i > Len(argv)
  /\ pc' = "done"
  /\ UNCHANGED <<argv, i, end_of_opts, use_stdin, seen, processed>>

Parse == ParseName \/ ParseStdin \/ ParseOption \/ ParseSuffix \/ Parsed

\* A cluster of options that ends in S and takes the next argument.
EndsCluster == \E k \in DOMAIN argv : argv[k] = "-kS"
=============================================================================
