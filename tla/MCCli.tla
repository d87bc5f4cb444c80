--------------------------------- MODULE MCCli --------------------------------
(* All command lines of up to four tokens over a small vocabulary, and longer *)
(* ones that name a command first.                                            *)
EXTENDS Cli

Token(kind, text) == [kind |-> kind, text |-> text]
Word(text)   == Token("word", text)
Option(text) == Token("unknown", text)

\* "pbf" and "cat" can also be file names; "pdf" is neither topic nor command.
Vocabulary ==
  {Word(text) : text \in {"pbf", "cat", "help", "pdf"}} \cup
  {Option("--file"), Token("help", "--help"), Token("version", "--version"),
   Token("log-level", "loud"), Token("topic", "pbf"), Token("command", "cat"),
   Token("subargs", "x")}

Short == UNION {[1..n -> Vocabulary] : n \in 0..4}

\* combine with options and words in any order, an option of others and words spelled like the topic or command.
Combining ==
  {<<Word("pbf"), Word("combine")>> \o rest :
     rest \in UNION {[1..n -> {Option("--output"), Option("--input"), Option("--file"),
                               Word("pbf"), Word("combine"), Word("x")}] : n \in 1..5}}

\* extract and process with four of their options in any order, one left out or given
\* twice among them.
With(option, value) == <<Option(option), Word(value)>>
Extracting ==
  {<<Word("dump"), Word("extract")>> \o FlattenSeq(items) :
     items \in [1..4 -> {With("--pages", "extract"), With("-r", "dump"), With("--wiki", "enwiki"),
                         With("--input", "x"), <<Option("--stdin")>>}]}
Processing ==
  {<<Word("openalex"), Word("process")>> \o FlattenSeq(items) :
     items \in [1..4 -> {With("-a", "process"), With("-I", "openalex"), With("--works", "y"),
                         With("-i", "x"), <<Option("--si")>>}]}

MCLines == Short \cup Combining \cup Extracting \cup Processing
=============================================================================
