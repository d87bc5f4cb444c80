------------------------------- MODULE Arguments ------------------------------
(***************************************************************************)
(* What the commands make of their arguments: the options that each of     *)
(* their constructors declares, Command::ParseArgs and EnsureArgument of   *)
(* src/cli.{cc,h}, and the files each LoadArgs finds in the outcome.       *)
(*                                                                         *)
(* An argument is its text.  Abbreviated options, and values joined to     *)
(* their option as in --input=a, are other spellings of the same arguments.*)
(***************************************************************************)
EXTENDS Naturals, Sequences, FiniteSets, SequencesExt

CONSTANTS
  Dashed,    \* the texts that begin with a dash
  NotGiven   \* "the variables map has no such option", or no variables map

\* The elements of a sequence that are at the positions of S, in their order.
Place(S, n)     == Cardinality({m \in S : m <= n})
InOrder(seq, S) == [k \in 1..Cardinality(S) |-> seq[CHOOSE n \in S : Place(S, n) = k]]

\* The topics main registers, each with the commands it has.
NewDumpTopic     == {"extract"}
NewOpenalexTopic == {"process"}
NewPbfTopic      == {"cat", "meta", "combine"}

Topics == [dump |-> NewDumpTopic, openalex |-> NewOpenalexTopic, pbf |-> NewPbfTopic]

Flag(texts)     == [texts |-> texts, takes |-> FALSE, required |-> FALSE, many |-> FALSE]
Optional(texts) == [Flag(texts) EXCEPT !.takes = TRUE]
Required(texts) == [Optional(texts) EXCEPT !.required = TRUE]

\* cli_options_ of each command.  A second name of two letters is a long one.
CatOptions  == [file |-> Required({"--file"})]
MetaOptions == [file |-> Required({"--file"}), pretty |-> Flag({"--pretty", "-p"})]
CombineOptions ==
  [input  |-> [Required({"--input", "-i"}) EXCEPT !.many = TRUE],
   output |-> Required({"--output", "-o"})]
ExtractOptions ==
  [input     |-> Optional({"--input", "-i"}),
   pages     |-> Required({"--pages", "-p"}),
   revisions |-> Required({"--revisions", "-r"}),
   stdin     |-> Flag({"--stdin", "--si"}),
   wiki      |-> Required({"--wiki"}),
   bz2       |-> Flag({"--bz2"})]
ProcessOptions ==
  [input        |-> Optional({"--input", "-i"}),
   stdin        |-> Flag({"--stdin", "--si"}),
   authors      |-> Required({"--authors", "-a"}),
   institutions |-> Required({"--institutions", "-I"}),
   works        |-> Required({"--works", "-w"})]

Options == [cat |-> CatOptions, meta |-> MetaOptions, combine |-> CombineOptions,
            extract |-> ExtractOptions, process |-> ProcessOptions]

ASSUME ArgumentsAssumption ==
  \A command \in DOMAIN Options : \A name \in DOMAIN Options[command] :
    Options[command][name].texts \subseteq Dashed

\* Mutant: the last word is the output, as `cp` has it, when there are two.
PositionalName_InputFirst(command, n) ==
  CASE command \in {"cat", "meta"} /\ n = 1 -> "file"
    [] command = "combine" /\ n = 2         -> "output"
    [] command = "combine" /\ n # 2         -> "input"
    [] OTHER                                -> NotGiven

\* positional_options_: the option that the n-th word is a value of.
PositionalName(command, n) ==
  CASE command \in {"cat", "meta"} /\ n = 1 -> "file"
    [] command = "combine" /\ n = 1         -> "output"
    [] command = "combine" /\ n > 1         -> "input"
    [] OTHER                                -> NotGiven

Named(command, text) == {name \in DOMAIN Options[command] : text \in Options[command][name].texts}
Takes(command, text) == \E name \in Named(command, text) : Options[command][name].takes

\* Whether an argument is the value of the option before it; one more shows whether the
\* last option lacks its own.
IsValue(command, args) ==
  LET Value[n \in 0..(Len(args) + 1)] == n > 1 /\ ~Value[n - 1] /\ Takes(command, args[n - 1])
  IN  Value

WordsOf(command, args) ==
  LET Value == IsValue(command, args)
  IN  {n \in DOMAIN args : ~Value[n] /\ args[n] \notin Dashed}

\* The positions of what an option is given, as its value, by itself or as a word.
GivenTo(name, command, args) ==
  LET Value == IsValue(command, args)
      words == WordsOf(command, args)
  IN  {n \in DOMAIN args :
         \/ Value[n] /\ name \in Named(command, args[n - 1])
         \/ ~Value[n] /\ ~Takes(command, args[n]) /\ name \in Named(command, args[n])
         \/ n \in words /\ name = PositionalName(command, Place(words, n))}

\* ParseArgs throws on an option the command does not have, a word too many, an option
\* without its value, one that is given twice or one that is required and missing.
Throws(command, args) ==
  LET Value == IsValue(command, args)
      words == WordsOf(command, args)
      Has(n) == Named(command, args[n]) # {}
  IN  \/ Value[Len(args) + 1]
      \/ \E n \in DOMAIN args : IF Value[n] THEN Has(n) ELSE args[n] \in Dashed /\ ~Has(n)
      \/ \E n \in words : PositionalName(command, Place(words, n)) = NotGiven
      \/ \E name \in DOMAIN Options[command] :
           LET given == GivenTo(name, command, args)
           IN  \/ Cardinality(given) > 1 /\ ~Options[command][name].many
               \/ given = {} /\ Options[command][name].required

\* Command::ParseArgs: the values of every option, in the order typed.
ParseArgs(command, args) ==
  IF Throws(command, args) THEN NotGiven
  ELSE [name \in DOMAIN Options[command] |-> InOrder(args, GivenTo(name, command, args))]

\* Without --stdin there has to be an --input: EnsureArgument throws.
LacksInput(values) == "stdin" \in DOMAIN values /\ values.stdin = <<>> /\ values.input = <<>>

\* The files a command opens to read, and those it truncates.
FilesRead(command, values) ==
  CASE command \in {"cat", "meta"} -> values.file
    [] command = "combine"         -> values.input
    [] command \in {"extract", "process"} ->
         IF values.stdin = <<>> THEN values.input ELSE <<>>

FilesWritten(command, values) ==
  CASE command \in {"cat", "meta"} -> <<>>
    [] command = "combine"         -> values.output
    [] command = "extract"         -> values.pages \o values.revisions
    [] command = "process"         -> values.authors \o values.institutions \o values.works
=============================================================================
