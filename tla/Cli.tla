---------------------------------- MODULE Cli ---------------------------------
(***************************************************************************)
(* The command line front end (src/main.cc, src/cli.cc, src/help.cc): from *)
(* the tokens of a command line to the one command that runs, the files it *)
(* opens, and the process's exit code.                                     *)
(*                                                                         *)
(* A token is a record [kind, text].  A "word" is a positional argument, an*)
(* "unknown" one an option only the command knows, such as --input; the    *)
(* value that follows such an option is a word to the front end.  Every    *)
(* other kind is a global option, its value in text.  --subargs, which     *)
(* names the place of all words after the second, can also be typed: it is *)
(* then an option like the others, except that it may be given many times, *)
(* and nothing reads its values.                                           *)
(***************************************************************************)
EXTENDS Arguments

CONSTANTS
  Lines,      \* the command lines a user can type
  LogLevels   \* the names spdlog has for its levels

Kinds == {"word", "unknown", "help", "version", "log-level", "topic", "command", "subargs"}

TopicNames == DOMAIN Topics \cup {"help"}

ASSUME CliAssumption ==
  /\ Lines \subseteq Seq([kind : Kinds, text : STRING])
  /\ \A typed \in Lines : \A n \in DOMAIN typed :
       /\ typed[n].kind = "unknown" => typed[n].text \in Dashed
       /\ typed[n].kind = "word" => typed[n].text \notin Dashed
  /\ (TopicNames \cup UNION {Topics[name] : name \in DOMAIN Topics}) \cap Dashed = {}
  /\ NotGiven \notin STRING \cup TopicNames

VARIABLES
  line,      \* argv
  pc,
  topic, command,
  args,      \* command_args
  level,     \* the level spdlog logs at
  ran,       \* the commands that were run, each [topic, command, args]
  values,    \* what the last of them made of its arguments, or NotGiven
  shown,     \* the help and version texts printed
  exit       \* the exit code, or "terminated"

found   == <<topic, command, args>>
results == <<ran, values, shown>>
vars    == <<line, pc, found, level, results, exit>>

Return(code) == pc' = "ended" /\ exit' = code
Throw == Return("terminated") /\ UNCHANGED <<line, found, level, results>>
Goto(step) == pc' = step /\ UNCHANGED exit
ArgsError == Return("kCliArgsError") /\ UNCHANGED <<line, command, args, level, results>>

Texts            == [n \in DOMAIN line |-> line[n].text]
Positions(kinds) == {n \in DOMAIN line : line[n].kind \in kinds}
Of(kind)         == InOrder(Texts, Positions({kind}))
Has(kind)        == Of(kind) # <<>>

\* The variables map: what a named option, or the n-th word, gives a name.
Given(name, n) ==
  LET words == Of("word")
  IN  Of(name) \o (IF n <= Len(words) THEN <<words[n]>> ELSE <<>>)

Shows(text) == shown' = Append(shown, text)

Lookup(given) == IF given = <<>> THEN NotGiven ELSE given[1]

-----------------------------------------------------------------------------
\* DEBUG counts when it is "true", in lower case.  Nothing is extracted from a blank
\* one, and debug stays as it was: uninitialised.
SetDebug ==
  /\ pc = "SetDebug"
  /\ \E debug \in {NotGiven, "true", "TRUE", ""} :
       level' \in CASE debug = "true"                -> {"trace"}
                   [] debug = ""                    -> {"off", "trace"}
                   [] debug \in {NotGiven, "TRUE"}   -> {"off"}
  /\ Goto("ParseGlobalArgs")
  /\ UNCHANGED <<line, found, results>>

\* GlobalArgsToStruct; spdlog turns off what it has no name for.
LogLevel(given) ==
  CASE given = NotGiven       -> "warn"
    [] given \in LogLevels    -> given
    [] OTHER                  -> "off"

\* Cli::Run up to the first flag.  store throws on an option that is given twice, a
\* topic or a command by name and by position included.
ParseGlobalArgs ==
  /\ pc = "ParseGlobalArgs"
  /\ LET twice == \/ \E kind \in {"help", "version", "log-level"} : Len(Of(kind)) > 1
                  \/ Len(Given("topic", 1)) > 1
                  \/ Len(Given("command", 2)) > 1
     IN  \/ twice /\ Throw
         \/ /\ ~twice
            /\ level' = LogLevel(Lookup(Of("log-level")))
            /\ Goto("HandleImmediateExecutionFlags")
            /\ UNCHANGED <<line, found, results>>

\* Mutant: no `return true` after PrintVersion.
HandleImmediateExecutionFlags_VersionGoesOn ==
  /\ pc = "HandleImmediateExecutionFlags"
  /\ LET helps == \/ Has("help")
                  \/ Lookup(Given("topic", 1)) = "help" /\ Given("command", 2) = <<>>
     IN  \/ helps /\ Shows("global help") /\ Return("kOk")
         \/ ~helps /\ Has("version") /\ Shows("version") /\ Goto("GetTopic")
         \/ ~helps /\ ~Has("version") /\ UNCHANGED shown /\ Goto("GetTopic")
  /\ UNCHANGED <<line, found, level, ran, values>>

HandleImmediateExecutionFlags ==
  /\ pc = "HandleImmediateExecutionFlags"
  /\ LET helps == \/ Has("help")
                  \/ Lookup(Given("topic", 1)) = "help" /\ Given("command", 2) = <<>>
     IN  \/ helps /\ Shows("global help") /\ Return("kOk")
         \/ ~helps /\ Has("version") /\ Shows("version") /\ Return("kOk")
         \/ ~helps /\ ~Has("version") /\ UNCHANGED shown /\ Goto("GetTopic")
  /\ UNCHANGED <<line, found, level, ran, values>>

GetTopic ==
  /\ pc = "GetTopic"
  /\ topic' = Lookup(Given("topic", 1))
  /\ \/ topic' \notin TopicNames /\ ArgsError
     \/ /\ topic' \in TopicNames
        /\ Goto("GetCommand")
        /\ UNCHANGED <<line, command, args, level, results>>

GetCommand ==
  /\ pc = "GetCommand"
  /\ command' = Lookup(Given("command", 2))
  /\ \/ command' = NotGiven /\ Return("kCliArgsError")
     \/ command' # NotGiven /\ Goto("RemoveUsedArgs")
  /\ UNCHANGED <<line, topic, args, level, results>>

\* Mutant: every argument that is spelled like the topic or the command goes.
WithoutFirst_All(tokens, text) == SelectSeq(tokens, LAMBDA token : token # text)

\* find, then erase what was found.
WithoutFirst(tokens, text) == RemoveFirst(tokens, text)

\* collect_unrecognized keeps the words and the unknown options, in their order; the
\* values of --subargs are neither.
RemoveUsedArgs ==
  /\ pc = "RemoveUsedArgs"
  /\ LET unrecognized == InOrder(Texts, Positions({"word", "unknown"}))
     IN  args' = WithoutFirst(WithoutFirst(unrecognized, topic), command)
  /\ Goto("Dispatch")
  /\ UNCHANGED <<line, topic, command, level, results>>

\* Topic::Run.
RunTopic ==
  /\ pc = "Dispatch" /\ topic # "help"
  /\ \/ /\ command \notin Topics[topic]
        /\ UNCHANGED topic /\ ArgsError
     \/ /\ command \in Topics[topic]
        /\ ran' = Append(ran, [topic |-> topic, command |-> command, args |-> args])
        /\ Goto("LoadArgs")
        /\ UNCHANGED <<line, found, level, values, shown>>

\* LoadArgs of the command; nobody catches what it throws.
LoadArgs ==
  /\ pc = "LoadArgs"
  /\ LET parsed == ParseArgs(command, args)
         throws == IF parsed = NotGiven THEN TRUE ELSE LacksInput(parsed)
     IN  \/ throws /\ Throw
         \/ /\ ~throws
            /\ values' = parsed
            /\ Goto("Run")
            /\ UNCHANGED <<line, found, level, ran, shown>>

\* The rest of its Run, for which see the module of the command.
RunCommand ==
  /\ pc = "Run"
  /\ \E code \in {"kOk", "kGeneralError", "terminated"} : Return(code)
  /\ UNCHANGED <<line, found, level, results>>

\* Mutant: the command named in args is looked up in the topic help.
HelpText_OfHelp ==
  IF args = <<>> THEN <<"topic", command>> ELSE <<"command", "help", args[1]>>

\* What PrintHelp prints; for a command the topic does not have, its commands.
HelpText ==
  CASE args = <<>>                                                  -> <<"topic", command>>
    [] args # <<>> /\ command # "help" /\ args[1] \in Topics[command]
         -> <<"command", command, args[1]>>
    [] OTHER                                                        -> <<"commands", command>>

\* Help::Run: its command is the topic that help is asked for.  Its own parser
\* takes one word and no option.
RunHelp ==
  /\ pc = "Dispatch" /\ topic = "help"
  /\ LET parses == Len(args) <= 1 /\ Of("unknown") = <<>>
     IN  \/ ~parses /\ Throw
         \/ parses /\ command \notin TopicNames /\ UNCHANGED topic /\ ArgsError
         \/ /\ parses /\ command \in TopicNames
            /\ Shows(HelpText)
            /\ Return("kOk")
            /\ UNCHANGED <<line, found, level, ran, values>>

Init ==
  /\ line \in Lines
  /\ pc = "SetDebug" /\ level = "info"
  /\ topic = NotGiven /\ command = NotGiven /\ args = <<>>
  /\ ran = <<>> /\ values = NotGiven /\ shown = <<>> /\ exit = "none"

Next == \/ SetDebug \/ ParseGlobalArgs \/ HandleImmediateExecutionFlags \/ GetTopic
        \/ GetCommand \/ RemoveUsedArgs \/ RunTopic \/ LoadArgs \/ RunCommand \/ RunHelp

Spec == Init /\ [][Next]_vars

-----------------------------------------------------------------------------
(* Properties, of the command line and not of the steps.                   *)

Words == Of("word")

\* The positions of the tokens that name the topic and the command.
NamingPositions == {n \in Positions({"word"}) : Place(Positions({"word"}), n) <= 2}

\* The words and options of the line that are the command's own.  --subargs is no
\* option of the command.
Rest == InOrder(Texts, Positions({"word", "unknown"}) \ NamingPositions)

\* The options the command has for a file it reads, and for one it writes.
TextsOf(names) == UNION {Options[command][name].texts : name \in names \cap DOMAIN Options[command]}
ToRead  == TextsOf({"file", "input"})
ToWrite == TextsOf({"output", "pages", "revisions", "authors", "institutions", "works"})

\* The name given by an option, or else by the n-th word.
NameTyped(kind, n) == IF Has(kind) THEN Of(kind)[1] ELSE Words[n]

(***************************************************************************)
(* The command named runs, with every word the user typed and every option *)
(* the front end does not know, in the order typed, less the words that    *)
(* named it: a file called like the topic or the command is not lost,      *)
(* wherever global options stand and whether the topic and the command are *)
(* named by word or by option.  Only what was typed as --subargs x is lost *)
(* to the command, although the help text of that option calls its values  *)
(* "Arguments for command".  The run logs at the level asked for, whatever *)
(* the environment left behind.                                            *)
(***************************************************************************)
RunsWhatWasTyped ==
  \A run \in Range(ran) :
    /\ run.topic = NameTyped("topic", 1) /\ run.command = NameTyped("command", 2)
    /\ run.args = Rest
    /\ level = LogLevel(IF Has("log-level") THEN Of("log-level")[1] ELSE NotGiven)

(***************************************************************************)
(* No file is taken for another.  What follows an option that names a file *)
(* on the line, global options aside, is what the command does with it; and*)
(* a file that is truncated was typed after an option for an output, or is *)
(* the first word of combine that is no option's value.                    *)
(***************************************************************************)
FilesAreAsTyped ==
  values # NotGiven =>
    LET typed   == Rest
        After(n, options) == n > 1 /\ typed[n - 1] \in options
        IsWord(n) == typed[n] \notin Dashed /\ ~After(n, ToRead \cup ToWrite)
        read    == Range(FilesRead(command, values))
        written == Range(FilesWritten(command, values))
        stdin   == \E n \in DOMAIN typed : typed[n] \in {"--stdin", "--si"}
    IN  /\ \A n \in DOMAIN typed :
             /\ After(n, ToWrite) => typed[n] \in written
             /\ After(n, ToRead) => typed[n] \in read \/ stdin
        /\ \A file \in written : \E n \in DOMAIN typed :
             /\ typed[n] = file
             /\ \/ After(n, ToWrite)
                \/ command = "combine" /\ IsWord(n) /\ \A m \in 1..(n - 1) : ~IsWord(m)

\* A command line that asks for help or the version in any place runs no command,
\* and neither does one whose topic or command does not exist, which does not
\* exit with kOk unless help was what it asked for.
NothingElseRuns ==
  pc = "ended" /\ exit # "terminated" =>
    /\ Has("help") \/ Has("version") => ran = <<>> /\ exit = "kOk"
    /\ Len(ran) <= 1 /\ Len(shown) <= 1
    /\ ran = <<>> => exit = "kOk" <=> shown # <<>>
    /\ exit = "kCliArgsError" => ran = <<>> /\ shown = <<>>

\* `help T C` shows the help of command C of topic T, whatever else is named C.
HelpIsOfTheTopic ==
  pc = "ended" /\ exit = "kOk" /\ topic = "help" /\ Len(Words) = 3
    /\ Words[2] \in DOMAIN Topics /\ Words[3] \in Topics[Words[2]] =>
      shown = << <<"command", Words[2], Words[3]>> >>
=============================================================================
