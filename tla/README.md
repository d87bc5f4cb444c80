# A TLA+ verification of citescoop-cli

citescoop-cli is a sequential command line program over PBF files (a header
that counts the messages, then length-prefixed protobuf messages). It has no
threads; what is hard in it is what several streams, buffers and files look like
at every moment: when the process is killed, when a run follows a run that was
killed, when a reader looks at a file that is still being written, when a header
counts what is not there, and which of two exceptions is caught.

Paths below are relative to the `src/` directory of the repository.

## Inventory

| Component | State | Operations | What makes it correct |
|---|---|---|---|
| `pbf combine` (`pbf/combine.cc`) | arguments, input streams, output and temporary streams, `file_type_`, `language_`, `message_counts_`, the ids seen | load arguments, open, validate one header per input, copy messages to `OUTPUT.tmp`, write header, append, clean up; a handler for one exception | the output is a complete combination, or gives away that it is not; inputs survive; no id twice; a run that returns leaves no temporary file |
| `dump extract`, `openalex process` | one temporary and one final stream per output, the counts the library returns | open temporaries, extract, close, reopen temporaries, truncate finals, prepend headers, close, remove temporaries | no message is lost once finals are truncated; outputs of two runs stand together only where a final file did not open; each header counts its own file |
| `pbf cat`, `pbf meta` | input stream, header, sizes | read the header, then as many messages as it counts; print; round sizes | nothing is skipped in a file that is still growing; kOk accounts for every message; a larger size is not shown as a smaller one |
| `io.cc`, `exceptions.h` | none | open, read header, read message by type, prepend header; exit code of an exception | used by all commands |
| front end (`main.cc`, `cli.cc`, `help.cc`) | topics, parsed options, log level | set the log level, parse global options, help and version, find topic and command, remove used arguments, dispatch; parse a command's own options | the command typed runs with the arguments and files typed, and nothing else does |
| language codes (`langmap.cc`, `languages.gperf`, `ExtractLangCode`) | a constant table | lookup by code, by domain; strip the suffix `wiki` | the code of a wiki and its database name give its language, no other name does |
| topic factories | none | register commands | one entry per command |
| citescoop, protobuf, Boost, spdlog | external | | |

How they interact: `main` registers topics; `Cli::Run` hands the remaining
arguments to one command; the commands call `io.cc`, which calls the citescoop
library's reader and writer. Commands interact with one another only through
files: what `extract` and `process` publish is what `combine` reads, what
`combine` publishes is what `cat` and `meta` (and `combine` again) read, and a
killed command leaves its files to the next one.

`PROJECT.json` lists the hazards at their lines; each has a property below or a
note that says what keeps it out.

## Modules

Files and reading:

- **PbfIo** - files as data (a header or none, and the messages that are wholly
  in the file), what is on the disk of a stream that is being written (`Parts`,
  `Beginnings`), and each call of `io.cc` as the set of ways it can end. A short
  read has two outcomes, a default message or an exception nobody catches,
  because the library is external. `UNNAMED` file types stand for numbers the
  enum does not name (`FindValueByNumber` returns a null pointer).

Combining:

- **Combine** EXTENDS PbfIo - the combine command. One action per step of the
  code (`LoadArgs`, `OpenStreams`, `ReadHeaders` for one input, `CopyMessages`
  for one message, `CloseTemp`, `WriteHeader`, `CopyTemp`, `CleanupTempFile`,
  `CloseStreams`, and `Rescue` for the handler in `Run`). The environment starts
  runs (`Invoke`), lets a full buffer reach the disk (`SpillTemp`,
  `SpillOutput`) and kills the process (`Kill`). `disk` and `temp` survive a
  run; everything else belongs to the run. `before` and `failed` are history
  variables.
- **PbfMerge** - the promise of a combining command, with no streams, loops or
  temporary files. The combination is defined on whole files, by positions: a
  message is kept unless its id is at an earlier position, and the n-th message
  of the combination is at the position before which n - 1 are kept. Combine
  implements it under the mapping at the end of Combine (`Promise`: `request` and
  `outcome` come from the run's arguments and its program counter; `disk` is the
  same).

Publishing:

- **Publish** EXTENDS PbfIo - the state of a command with several outputs and
  what it does to its streams, one output at a time in a given order.
- **PublishSet** - the promise of a publishing command, with no streams,
  temporary files or counters: a set of files is touched only when all of it
  was found, none of it has content until no older file is left, and each file
  only grows, as a header that counts all and a beginning of the messages. The
  mapping is `Promise` at the end of Publish (`product` is what was written to
  the temporary streams, `fresh` the outputs truncated by this run).
- **Extract**, **Process** EXTEND Publish - each with its files, orders, counts
  and headers as in `dump/extract.cc` and `openalex/process.cc`.
- **LangMap** - from the name of a wiki to a language: `ExtractLangCode` and
  `WikipediaCodeToLanguage`. A name is a sequence of pieces, so that `rfind`,
  the suffix and a "wiki" in the middle stay apart. `CodesOf` and
  `DatabaseName` say what wikis are called.
- **WikiExtract** EXTENDS Extract, LangMap - the composition: the language of a
  run's files is the one `--wiki` stands for.

Reading:

- **FileSize** - `FormatFileSize`, digit by digit in base 1024, with the
  rounding of `std::fixed` (nearest, ties to even). A size has up to five digits,
  one for each unit, the last without a limit, as the code divides four times at
  most. `Accurate` and `AtMost` are the reference to compare it with.
- **Reader** EXTENDS PbfIo, FileSize - cat and meta beside a writer that may not
  be done (`Write`), or a second command that truncates the file while it is
  read (`Rewrite`). After that, `torn`, the position of the stream can be
  anywhere in the new bytes, and what is read is any message of the target, a
  default message or an exception.

Command line:

- **Arguments** - the options and words that each command declares, and
  `ParseArgs`: which arguments are values (`IsValue`), words (`WordsOf`), what an
  option is given (`GivenTo`) and every way it throws (`Throws`); which files a
  command would open to read and which it would truncate. A part of a line is
  the set of its positions; `InOrder` lists what is at them.
- **Cli** EXTENDS Arguments - from the environment and a line of tokens to the
  one command that runs; `ran` and `shown` are histories of the commands run and
  the texts shown.

Proofs and instances:

- **PbfIo_proofs** (lemmas on Parts and Beginnings, and on what the reading
  calls return), **Combine_proofs**, **Merge_proofs** (Combine and PbfMerge),
  **Publish_proofs** (for any set of roles and any orders), **Extract_proofs**
  (with LangMap), **Process_proofs**, **Reader_proofs** (with FileSize),
  **Cli_proofs** (with Arguments).
- **MCCombine, MCExtract, MCProcess, MCReader, MCCli** - instances for TLC.

**What can go wrong.** The file system can refuse three things, the constant
`Failures` says which: a stream does not open (`"open"`; what the path held
stays), a disk takes only a part of what a stream still has to write
(`"write"`), a removal fails (`"remove"`; `combine` only logs it, the others
throw). No command asks its streams, so a run goes on, and `failed` and
`unopened` remember what the code does not. The process can be killed at any
step, with its buffers written up to any message. Undefined behaviour is a
choice: `SetAdditionalAttributes` leaves the header with a pointer to a dead
local, so `WriteHeader` writes any language or dies, and `CleanupTempFile` may
die of the invalid free; in `SetDebug` an empty `DEBUG` leaves the
level to chance. An exception nobody catches does not unwind the stack
(`main` has no handler), so no buffer is flushed.

Operators named `X_Y` next to a definition `X`, commented "Mutant", are the
ways the code could plausibly be wrong; the specifications do not use them.
`PROJECT.json` names the property that finds each of them.

## Runs

| Run | Question | Bounds |
|---|---|---|
| `combine_single` | what one run leaves, at every moment, for every kind of input | three paths, fourteen kinds of file at every path, seven command lines (the same file twice, the output among the inputs, no input), one run, all failures |
| `combine_rerun` | does Combine implement PbfMerge over several runs; does every run end, and do sound requests succeed | two runs, three command lines where one run's output is the next run's input; failing writes and removals |
| `extract` | is anything lost or mixed, do the headers count the whole, which names of a wiki give the files its language | two runs over the same paths, two messages in an input, present or absent older files, all failures; a wiki whose code is one of two for its language and one whose code has hyphens; every name of up to two pieces out of seven, and longer ones |
| `process` | the same for three outputs, and does Process implement PublishSet | two runs, two messages; failing writes and removals |
| `reader` | what cat and meta see of a growing or rewritten file, and how sizes are rounded | ten kinds of file, each absent, empty or complete at first; sizes at every change of unit and of decimals and at ties; at most one `Rewrite` |
| `cli` | what runs for which line, with which files | all lines of up to four tokens out of eleven; `pbf combine` with up to five options and words in any order; `dump extract` and `openalex process` with any four of five options |
| `combine_language`, `combine_header`, `combine_exitcode`, `extract_diskfull`, `extract_mixed`, `meta_pretty` | statements of the sources that the code does not keep | as above; `extract_mixed` with one run, of which only `"open"` is refused |

Why these are enough. A property of combine relates at most two inputs and two
messages, so two files with two messages each, in every arrangement, with one
id in common and one message without an id, meet every case of the predicate; a
third input only repeats the second's step (`<<a, b, a>>` is there for it). A
second run is what a leftover of a killed run needs. In `extract` two messages
make unequal counts, which is what a mixed-up header needs. Four tokens are a
topic, a command, and two arguments that may be spelled like them; the longer
lines are what a required option that is left out, given twice or given its
value by another needs. `FormatFileSize` is piecewise linear between the sizes
listed. (For combine, the publishing commands, the reader's safety, the sizes,
the names of wikis and the lines of the front end the proofs below do without
these bounds.) The named bounds are `MaxRuns` and `MaxMessages`; `Write` stops once
nothing can be told apart any more (the reader has ended, or the file is
`torn`), and a second `Rewrite` would meet the reader where the first did.
Deadlock checking is off because every program stops: a state without a running
command and without runs left is final.

`combine_rerun` and `process` leave out `"open"`: PbfMerge and PublishSet speak
of the paths a request names, and a stream that did not open leaves there what
nobody asked for. `combine_single` and `extract` have it.

One message is the unit of buffering. A message cut short at the end of a file
is the same to every reader as no message at all: a short read.

**Fairness.** `FairSpec` of Combine has weak fairness of `Step`, the actions of
the process itself: it is one thread that the operating system keeps running.
Nothing else is fair: nobody has to start a run, kill one or flush early. With
it, `EveryRunEnds` (counts in headers are finite, whatever the files hold) and
`SoundRequestsSucceed` (nothing refuses or kills a run with nothing wrong in
its request) hold. `SoundRequestsSucceed` speaks of OpenAlex files only: for
dump files the undefined behaviour above may end any run. `FairSpec` of Reader
has weak fairness of the reader's `Step` for the same reason, and none of the
writer: a reader of a file nobody finishes still ends (`EveryReaderEnds`).

## What the runs show

Holding: the count in a combined file's header is always the number of messages
the combination has, so a file cut short by a kill or a full disk is
recognisable, and kOk means nothing is missing if the disk took everything; ids
are unique across inputs; a run never reports success when its output was one of
its inputs (the truncated input fails header validation - but it is destroyed);
a refused run leaves an empty output, not a partial one; a temporary file of a
killed run is never read. `extract` and `process` keep every message in a
temporary or a final file from the first truncation on, also when a removal
fails between the two, and truncate all finals before the first header, so that
old and new outputs cannot be taken for a set, unless a final file could not be
opened (`NeverMixed` says of each older file beside a new one that it was
refused; disagreement 5 is what comes of it). cat and meta never skip a message
of a file that grows under them; of a file that is truncated under them they may
print messages of both runs, but as many as the header they read counts. Sizes
are within half a per cent (1024K for 1048575 bytes is ugly, not wrong) and in
order. `--wiki` finds a wiki by its code, and by its database name if the code
has no hyphen: the database of `zh-min-nan` is `zh_min_nanwiki`, and the files
of a run that names it state no language (`NamesFound` says exactly this; no
document of the repository says which names should be found). No name but a code
and a code with "wiki" after it gets the code's language. The front end
removes the first argument spelled like the topic and the first spelled like the
command, and these always are the tokens that named them: a line that names them
by option and has words besides names them twice, and is rejected; the file
`combine` truncates is the first word or the value of `--output`. What is typed as
`--subargs x` reaches no command (`RunsWhatWasTyped`): the option is there to give
words a place, but the front end also accepts it by name, and reads it nowhere.
(A remark, not a run: `cli.h:194-195` says "If the command specified does not
exist, an exception will be thrown"; `cli.cc:82-85` returns a code.)

Not holding (each a `violation` run with a counterexample):

1. `pbf/combine.h:71`, "Validate that all input files share the same language":
   an input without a language is accepted before one with a language, and
   refused after it (`combine.cc:157`).
2. `pbf/combine.h:87`, "Set additional attributes for the output file": the
   language of a combined dump is read through a dangling pointer
   (`combine.cc:269`).
3. `exceptions.h:41`, `kExitCode = ExitCode::kInputError`: the member is hidden,
   not overridden, so the code returned is `kGeneralError`; a language mismatch
   is not caught at all (`combine.cc:73`).
4. `pbf/meta.cc:93-94`, `--pretty`: an option with a default value is always in
   the variables map (`meta.cc:146`).
5. `cli.h:73-74`, "Any non-zero value indicates failure": where the revisions
   file of an earlier run cannot be opened for writing, it stays as it was beside
   the new pages file, and the run returns kOk (`dump/extract.cc:170`; the same
   of the pages, and in `openalex/process.cc:94-99`).
6. The same sentence, with a full disk: the final files are short, the temporary
   files are removed all the same and the run returns kOk
   (`dump/extract.cc:192`; `openalex/process.cc` and `pbf/combine.cc` do the
   same).

## What is proved

Every safety property that a run checks, and both refinements: for every set of
files, languages, ids and bodies, every set of command lines, initial contents
and failures, and any number of runs. Assumed are only the named assumptions on
constants; TLC evaluates them in the runs.

- `PbfIoAssumption`: the "none" values are not values.
- `CombineAssumption`, `PublishAssumption`, `ExtractAssumption`,
  `ProcessAssumption`, `ReaderAssumption`: the constants have their types, and
  the outputs of a command line are different paths.
- `LangMapAssumption`: a code of the table is a sequence of pieces without
  "wiki", "." and "_" (no code of `languages.gperf` has any), and none is empty.
- `ArgumentsAssumption`, `CliAssumption`: what a line is made of. The texts of
  options begin with a dash, words and the names of topics and commands do not.

**Combine_proofs.**

- `TypeCorrect`: `Spec => []TypeOK`.
- `StreamsInv` relates the streams to each other: the count never parts from
  the messages written, and the output stream holds nothing before the header.
  It is inductive with `TypeOK`.
- `DiskInv` relates disk and streams: the output is empty until there is a
  header, then a beginning of the output stream; it needs `StreamsInv`, because
  a spill writes a beginning of the stream, and that has to be a beginning of
  the messages. From both follow `OutputBeginnings` (OutputIsBeginning),
  `TempRemoved` (NoTempAfterReturn) and `RefusalEmpties`
  (RefusedRunLeavesEmptyOutput).
- `IdsInv`: what was written is among the ids seen, and apart. NoRepeatedIds by
  itself is not inductive - the ids seen are what keeps the next message from
  repeating one. With `DiskInv` it gives `IdsNotRepeated`.
- `InputsInv`: what ReadHeaders knows of the inputs before `i`; an accepted
  input is not the output, because the output was truncated before its header
  is read, so accepted inputs never change. It gives `HeadersAgree`
  (AcceptedHeadersAgree) and `InputsIntact` (OkLeavesInputsIntact).

**Publish_proofs, Extract_proofs, Process_proofs.** The invariant is proved once
for any command whose steps are `Moves(opening, order)`: the steps of Publish,
with an order in which the finals are opened and one for everything else, over
any finite set of roles. `PublishInv` is the conjunction of

- `ProgressInv`: which outputs the present step is over with (`Done`, those
  before index `k` of the order), that a final is one of this run or did not open
  (`Opened`) from its turn in `OpenFinals` on, and that none is one of this run
  before;
- `TempsInv`: a temporary file holds a part of what was written to it, all of
  it once its stream is closed, unless something failed;
- `FilesInv`: a final file is a beginning of its final stream, whose header
  counts what was written; where every stream opened, a part of what was written
  follows, and a closed file is all of its stream;
- `EndInv`, what a run leaves, and `CountsInv`, the tuple of the library.

No property is inductive without them: that nothing is lost when the temporaries
go needs that the finals were closed, which is a fact about the order of steps.
Extract_proofs and Process_proofs show that each command is such a command
(`NextMoves`; Process opens works first and takes its counts by position, so
`HeadersCount` has to match tuple and roles) and conclude `NothingIsLost`,
`SetsNeverMixed`, `CountsAreOfTheWhole`, `OkIsPublished` and `TypeCorrect`. `SetsNeverMixed` and the counts of the headers
need no hypothesis on failures, as a header of this run is written only when every
final is `Opened`. `Refinement` in each: where every file can be opened, every step is a step of PublishSet or
leaves its variables alone, `Spec => KeepsPromise`.

**Merge_proofs.** `Refinement`: every step of Combine is a step of PbfMerge or
leaves its variables alone, under `"open" \notin Failures`. The loop of combine
passes the positions of its inputs one by one, and PbfMerge defines the
combination by the positions kept, so nothing has to be computed by recursion:
`CopyInv` says that `tmp_output` lists the kept positions among those passed
(`Passed`), and that the ids seen are those at the positions passed. `MergeInv`
says this and what each step knows of the inputs before and after the loop;
`RunsKnow` has it with the invariants of Combine_proofs, which it needs: an
accepted input is not the output, so that what it held before the run is what is
copied. The hypothesis is needed. If the temporary file cannot be opened, what
an earlier run left at its path is what gets appended to the output, and if the
output cannot be opened an old output stays: PbfMerge speaks of neither.

**Extract_proofs, names of wikis.** `WikisFound` and `NoOtherFound`, for every
table and every set of names: `rfind` is the greatest of the positions of a
piece, which exists because positions are finitely many (`Greatest`); the suffix is
taken off a name that has it once, at its end (`SuffixTakenOff`); and a database
name made of a code with hyphens leaves a low line, which no code has
(`DatabaseFound`).

**Reader_proofs.** `ReaderInv`: what was printed is the header and what was
read (`PrintedInv`), until a read falls short what was read are the first
messages of the target, also while the writer adds to it (`FollowInv`), and what
meta printed is a size and that size formatted (`ToldInv`). It gives
`ReadsInOrder`, `OkIsComplete` and `MetaIsWhole`.

`SizesTold` and `SizesInOrder`, for any sizes. `BelowIs` unfolds the recursive
function of the decimals: a size has at most five digits, so a function with the
four values below the unit is a witness that there is one, and the lemmas go
from digit to digit. Carry and remainder of a digit make up the product
(`MultipliedIs`); so what is shown before it is rounded is off by less than one
in the last place (`ShownIs`), and there are at least a hundred of those
(`ScaleIs`), which is the half per cent. `MultipliedOrdered` keeps the order of
two sizes in the triple of what is carried, what stays and whether anything is
below; equal wholes are then rounded in that order (`DecimalsOrdered`), and
different ones cannot meet (`ShownBetween`: a whole is shown as itself or as the
next), not even where the number of decimals changes (`WholesOrdered`).

**Cli_proofs.** For lines of any length. `Places` to `NoneRemoved` are about
listing positions in order: the place of a position is the number of positions
up to it, removing the first occurrence of a text removes a position. From them
follows that what `RemoveUsedArgs` leaves is what the line has besides the two
words that named topic and command (`LeftIsRest`), although the code removes by
text and not by position. (`--subargs` and its value are neither words nor
options of the command, and the line of the theorem may have them anywhere.)
`IsValueIs` shows that the recursive function of the
parser exists (whether an argument is a value is the parity of the row of options
in front of it), and `ValuesAreTyped` reads off what each option was given.
`CliInv` says for each step what has been found on the line (`FoundInv`), what
has been done (`DoneInv`) and which values the command has (`ValuesInv`). It
gives `TypedRuns`, `OnlyNamedRuns`, `HelpMatches` and `FilesMatch`.

Trying to prove `FilesAreAsTyped` showed it to be imprecise: it took `--file` for
an option for files whatever the command. In `pbf combine --input --file x` it is
the value of `--input`, because Boost takes only an option the command has for
one, and `x` is the output. The property speaks now of the options of the command
that runs, and the `cli` run has such lines.

**Only model-checked** are the liveness properties `EveryRunEnds`,
`SoundRequestsSucceed` and `EveryReaderEnds`: fairness and ENABLED are out of the
prover's reach. So are the six disagreements above, each a counterexample.

## Not modelled, and why

- Wording of help, logs and text output, protobuf encoding: no property is
  about them.
- Abbreviated options and `--name=value`: other spellings of lines the model
  has.
- An input that is some output's `.tmp`, two outputs of one command that name
  one path, two spellings of one path: two streams write bytes over each other
  in one file, which is no longer a sequence of messages; no document says what
  the commands should do, and the model keeps such paths apart
  (`PublishAssumption`; `temp` is a function of its own).
- `WikipediaDomainToLanguage` of `langmap.cc`: no command calls it.
- Whether a short read raises or returns a default message: it is up to the
  library. Both are modelled, and a default message counts as a message read, in
  PbfMerge and in the properties of the reader too; no property says that a
  caller should have asked. Likewise the null descriptor of `io.cc:45` ends the
  run as `terminated`, which no property forbids.
- Which language number a code should have: the table of LangMap is its own
  reference, so that `mn` and `mnw`, which share one, cannot be told from a
  mistake.
- What the library makes of an input that did not open: it is external, and
  may write any number of messages, or throw.
- Build, packaging and documentation: nothing happens there at run time.

## Plan

Done: PbfIo, Combine, PbfMerge, Publish, Extract, Process, Reader, Cli with
their runs; the faults of the file system; PublishSet and the refinement by
both publishing commands; PbfMerge and its refinement; the pure functions
(LangMap, FileSize) in the modules that use them; the options of every command;
the reader of a file that is truncated under it; proofs of every safety property
of the runs.

Left:

1. Byte-level files for outputs that alias each other or a temporary file, if
   the project decides what those command lines mean.
2. Proofs: that a loop of Combine and of Reader makes progress, as a safety
   property (a measure that every step of the process lowers), which is what the
   liveness properties need besides fairness; what PbfMerge promises where a
   stream does not open.
3. One disk for all commands: extract, combine and cat as processes of one
   module. Each pair is covered by what its file can look like (Reader's
   writer, combine's kinds of input), which is why this is last.
