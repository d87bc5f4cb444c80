------------------------------ MODULE MCCombine ------------------------------
(* Small instances of Combine for TLC. *)
EXTENDS Combine

CONSTANTS a, b, o  \* three paths

Work(id, body) == [id |-> id, body |-> body]
Dump(body)     == [id |-> NoId, body |-> body]
PbfFile(type, count, lang, messages) ==
  [header   |-> [type |-> type, count |-> count, language |-> lang],
   messages |-> messages]

Works(count, messages)           == PbfFile("WORKS", count, LANGUAGE_UNSPECIFIED, messages)
Pages(lang, count, messages)     == PbfFile("PAGES", count, lang, messages)
Odd(type, count)                 == PbfFile(type, count, LANGUAGE_UNSPECIFIED, <<>>)

\* The same id with two bodies, a message without an id, a file shorter than its
\* count, one longer, no messages at all, types that do not mix, languages that
\* do not mix, unreadable headers of each kind, and no file.
WorksFiles == {
  Works(2, <<Work("W1", "x"), Work("W2", "x")>>),
  Works(2, <<Work("W2", "y"), Work("", "x")>>),
  Works(2, <<Work("W1", "y")>>),
  Works(0, <<Work("W1", "x")>>)}
PagesFiles == {
  Pages("en", 1, <<Dump("x")>>),
  Pages("de", 1, <<Dump("x")>>),
  Pages(LANGUAGE_UNSPECIFIED, 1, <<Dump("y")>>)}
OddFiles == {
  PbfFile("AUTHORS", 1, LANGUAGE_UNSPECIFIED, <<Work("W1", "x")>>),
  Odd("OTHER", 0), Odd("OTHER", 1), Odd("UNSPECIFIED", 0), Odd("UNNAMED", 0),
  EmptyFile, Absent}

AllContents == WorksFiles \cup PagesFiles \cup OddFiles

\* For sessions of several runs: one run's output is the next run's input.
SessionContents == {
  Works(2, <<Work("W1", "x"), Work("W2", "x")>>),
  Works(2, <<Work("W2", "y")>>),
  Works(0, <<>>),
  Pages("en", 1, <<Dump("x")>>),
  Odd("OTHER", 1),
  Absent}

Command(ins, out) == [inputs |-> ins, output |-> out]

OneRun == {
  Command(<<a, b>>, o), Command(<<a, a>>, o), Command(<<a>>, o),
  Command(<<a, b, a>>, o),
  Command(<<a, b>>, a), Command(<<a, b>>, b), Command(<<>>, o)}

Session == {Command(<<a, b>>, o), Command(<<o, b>>, a), Command(<<a>>, a)}
=============================================================================
