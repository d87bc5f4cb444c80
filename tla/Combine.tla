------------------------------- MODULE Combine -------------------------------
(***************************************************************************)
(* `citescoop-cli pbf combine OUTPUT INPUT...` (src/pbf/combine.cc), one   *)
(* run after another over the same disk.                                   *)
(*                                                                         *)
(* A run validates the headers of all inputs, copies their messages to     *)
(* OUTPUT.tmp without repeating an OpenAlex id, then writes a header that  *)
(* counts them to OUTPUT and appends the temporary file.  What an ofstream *)
(* has buffered reaches the disk when the buffer overflows (the Spill      *)
(* actions) or at close(), and is lost when the process dies.              *)
(*                                                                         *)
(* A run never asks whether a stream opened or a write succeeded: where    *)
(* the file system refuses something, it goes on.                          *)
(***************************************************************************)
EXTENDS PbfIo, FiniteSets

CONSTANTS
  Commands,  \* the command lines that can be run: [inputs, output] records
  Contents,  \* what a path can hold before the first run; an input that cannot be
             \* opened is an absent one
  Failures,  \* what the file system can refuse
  MaxRuns    \* bound on the number of runs

ASSUME CombineAssumption ==
  /\ Commands \subseteq [inputs : Seq(Files), output : Files]
  /\ Contents \subseteq File \cup {Absent}
  /\ Failures \subseteq {"open", "write", "remove"}
  /\ MaxRuns \in Nat

VARIABLES
  disk,            \* the file at each path
  temp,            \* the messages in <path>.tmp, for each path
  pc,              \* where the run is; "ended" between runs
  inputs, output,  \* args_
  opened,          \* streams_.inputs: the inputs whose ifstream is open
  file_type, language, message_counts,  \* the members of Combine
  i, j,            \* the input being read, the messages read of it
  seen_ids,        \* captured by the predicate of PredicateFactory
  total_written,
  tmp_output,      \* everything written to streams_.tmp_output
  out_stream,      \* everything written to streams_.output
  unopened,        \* the output streams that did not open
  exit,            \* how the last run ended
  before,          \* history: the disk as the run found it
  failed,          \* history: what the file system refused this run
  runs             \* number of runs started

args    == <<inputs, output>>
headers == <<opened, file_type, language, message_counts>>
copying == <<i, j, seen_ids, total_written, tmp_output>>
faults  == <<unopened, failed>>
vars    == <<disk, temp, pc, args, headers, copying, out_stream, exit, before, faults, runs>>

Steps == {"LoadArgs", "OpenStreams", "ReadHeaders", "CopyMessages", "Rescue",
          "WriteHeader", "CopyTemp", "CleanupTempFile", "CloseStreams"}

\* kOk and kGeneralError are returned; "terminated" is std::terminate or a
\* fatal signal of the run's own making, "killed" one from outside.
Exits == {"none", "kOk", "kGeneralError", "terminated", "killed"}

Running == pc \in Steps

\* The file system refuses something of this kind.
Refuses(kind) == kind \in Failures /\ failed' = failed \cup {kind}

-----------------------------------------------------------------------------
(* How a run ends.  No destructor runs on std::terminate: no handler       *)
(* matches, so the stack is not unwound and no buffer is flushed.          *)

End(how)  == pc' = "ended" /\ exit' = how
Terminate == /\ End("terminated")
             /\ UNCHANGED <<disk, temp, args, headers, copying, out_stream, before, faults, runs>>
Goto(step) == pc' = step /\ UNCHANGED exit

\* throw UnsupportedFileType inside the try block of Run.
ThrowUnsupported ==
  /\ Goto("Rescue")
  /\ UNCHANGED <<disk, temp, args, headers, copying, out_stream, before, faults, runs>>

\* streams_.output.close(): a stream that did not open, or that nothing was written
\* to, changes nothing.
FlushOutput ==
  disk' = [disk EXCEPT ![output] =
             IF out_stream = EmptyFile \/ "output" \in unopened THEN @ ELSE out_stream]

Content(n) == IF n \in opened THEN disk[inputs[n]] ELSE Absent

-----------------------------------------------------------------------------
\* A user starts the command.  Run resets its members; the Combine object is new.
Invoke(command) ==
  /\ pc = "ended" /\ runs < MaxRuns
  /\ runs' = runs + 1
  /\ pc' = "LoadArgs" /\ exit' = "none"
  /\ inputs' = command.inputs /\ output' = command.output
  /\ opened' = {} /\ message_counts' = <<>>
  /\ file_type' = "UNSPECIFIED" /\ language' = LANGUAGE_UNSPECIFIED
  /\ i' = 1 /\ j' = 0 /\ seen_ids' = {} /\ total_written' = 0
  /\ tmp_output' = <<>> /\ out_stream' = EmptyFile
  /\ unopened' = {} /\ failed' = {}
  /\ before' = disk
  /\ UNCHANGED <<disk, temp>>

\* A command line without inputs stands for every one ParseArgs throws on.
LoadArgs ==
  /\ pc = "LoadArgs"
  /\ \/ inputs = <<>> /\ Terminate
     \/ /\ inputs # <<>>
        /\ Goto("OpenStreams")
        /\ UNCHANGED <<disk, temp, args, headers, copying, out_stream, before, faults, runs>>

\* Mutant: the output is opened without ios::trunc.
OpenStreams_OutputKept ==
  /\ pc = "OpenStreams"
  /\ opened' = {n \in DOMAIN inputs : disk[inputs[n]] # Absent}
  /\ disk' = [disk EXCEPT ![output] = IF @ = Absent THEN EmptyFile ELSE @]
  /\ temp' = [temp EXCEPT ![output] = <<>>]
  /\ Goto("ReadHeaders")
  /\ UNCHANGED <<args, file_type, language, message_counts, copying, out_stream,
                 before, faults, runs>>

\* The inputs are opened before the outputs are truncated.  What an output that
\* cannot be opened held stays.
OpenStreams ==
  /\ pc = "OpenStreams"
  /\ opened' = {n \in DOMAIN inputs : disk[inputs[n]] # Absent}
  /\ \E refused \in SUBSET {"output", "tmp_output"} :
       /\ unopened' = refused
       /\ IF refused = {} THEN UNCHANGED failed ELSE Refuses("open")
       /\ disk' = IF "output" \in refused THEN disk ELSE [disk EXCEPT ![output] = EmptyFile]
       /\ temp' = IF "tmp_output" \in refused THEN temp ELSE [temp EXCEPT ![output] = <<>>]
  /\ Goto("ReadHeaders")
  /\ UNCHANGED <<args, file_type, language, message_counts, copying, out_stream,
                 before, runs>>

-----------------------------------------------------------------------------
(* ReadHeaders: one input's header per step.                               *)

\* Mutants: only dump files are held to one type; UNSPECIFIED is not taken for
\* "no type yet".
TypeMatches_DumpOnly(header) ==
  file_type \in DumpTypes => file_type = header.type
TypeMatches_NoFirst(header) == file_type = header.type

TypeMatches(header) == file_type \in {"UNSPECIFIED", header.type}

LanguageMatches(header) ==
  header.type \in DumpTypes => language \in {LANGUAGE_UNSPECIFIED, header.language}

\* ValidateFileType, ValidateFileSpecificAttributes and the push_back.  Where
\* ValidateFileType leaves file_type_ alone, it equals the header's type.
AcceptHeader(header) ==
  /\ file_type' = header.type
  /\ language' = IF header.type \in DumpTypes /\ language = LANGUAGE_UNSPECIFIED
                 THEN header.language ELSE language
  /\ message_counts' = Append(message_counts, header.count)
  /\ i' = i + 1
  /\ UNCHANGED <<disk, temp, pc, args, opened, j, seen_ids, total_written, tmp_output,
                 out_stream, exit, before, faults, runs>>

ReadHeader(read) ==
  \/ read.raise = Uncaught /\ Terminate
  \/ read.raise = UnsupportedFileType /\ ThrowUnsupported
  \/ /\ read.raise = Nothing
     /\ \/ ~TypeMatches(read.value) /\ ThrowUnsupported
        \/ /\ TypeMatches(read.value) /\ ~LanguageMatches(read.value)
           /\ Terminate  \* UserInputException: Run catches UnsupportedFileType only
        \/ /\ TypeMatches(read.value) /\ LanguageMatches(read.value)
           /\ AcceptHeader(read.value)

ReadHeaders ==
  /\ pc = "ReadHeaders"
  /\ \/ i <= Len(inputs) /\ \E read \in ReadPbfHeader(Content(i)) : ReadHeader(read)
     \/ /\ i > Len(inputs)
        /\ Goto("CopyMessages")
        /\ i' = 1
        /\ UNCHANGED <<disk, temp, args, headers, j, seen_ids, total_written, tmp_output,
                       out_stream, before, faults, runs>>

-----------------------------------------------------------------------------
(* CopyMessagesToTemp: one message per step.                               *)

\* Mutant: the id is inserted before it is tested for being empty.
SeenWith_Empty(message) ==
  IF file_type \in OpenAlexTypes THEN seen_ids \cup {message.id} ELSE seen_ids

\* The predicate of PredicateFactory, IsUniqueOpenAlexId for OpenAlex files.
Copies(message) ==
  file_type \in OpenAlexTypes => message.id = NoId \/ message.id \notin seen_ids

SeenWith(message) ==
  IF file_type \in OpenAlexTypes THEN seen_ids \cup ({message.id} \ {NoId}) ELSE seen_ids

\* Mutant: total_written counts the messages read.
CopyMessage_CountRead(message) ==
  /\ j' = j + 1
  /\ seen_ids' = SeenWith(message)
  /\ total_written' = total_written + 1
  /\ tmp_output' = IF Copies(message) THEN Append(tmp_output, message) ELSE tmp_output
  /\ UNCHANGED <<disk, temp, pc, args, headers, i, out_stream, exit, before, faults, runs>>

CopyMessage(message) ==
  /\ j' = j + 1
  /\ seen_ids' = SeenWith(message)
  /\ \/ /\ Copies(message)
        /\ tmp_output' = Append(tmp_output, message)
        /\ total_written' = total_written + 1
     \/ ~Copies(message) /\ UNCHANGED <<tmp_output, total_written>>
  /\ UNCHANGED <<disk, temp, pc, args, headers, i, out_stream, exit, before, faults, runs>>

\* Mutants: a predicate of its own for every input; an input without messages is
\* never passed.
NextInput_NewPredicate ==
  /\ i' = i + 1 /\ j' = 0 /\ seen_ids' = {}
  /\ UNCHANGED <<disk, temp, pc, args, headers, total_written, tmp_output,
                 out_stream, exit, before, faults, runs>>
NextInput_EmptyStays ==
  /\ i' = IF j = 0 THEN i ELSE i + 1
  /\ j' = 0
  /\ UNCHANGED <<disk, temp, pc, args, headers, seen_ids, total_written, tmp_output,
                 out_stream, exit, before, faults, runs>>

NextInput ==
  /\ i' = i + 1 /\ j' = 0
  /\ UNCHANGED <<disk, temp, pc, args, headers, seen_ids, total_written, tmp_output,
                 out_stream, exit, before, faults, runs>>

CopyMessages ==
  /\ pc = "CopyMessages" /\ i <= Len(inputs)
  /\ \/ /\ j < message_counts[i]
        /\ \E read \in ReadGenericMessage(Content(i), j + 1, file_type) :
             \/ read.raise = Uncaught /\ Terminate
             \/ read.raise = UnsupportedFileType /\ ThrowUnsupported
             \/ read.raise = Nothing /\ CopyMessage(read.value)
     \/ j >= message_counts[i] /\ NextInput

\* Mutant: tmp_output is not closed before the temporary file is read back.
CloseTemp_NotFlushed ==
  /\ pc = "CopyMessages" /\ i > Len(inputs)
  /\ Goto("WriteHeader")
  /\ UNCHANGED <<disk, temp, args, headers, copying, out_stream, before, faults, runs>>

\* CopyMessagesToTemp returns and CopyData closes tmp_output, which flushes it, or
\* as much as the disk takes.
CloseTemp ==
  /\ pc = "CopyMessages" /\ i > Len(inputs)
  /\ \/ "tmp_output" \in unopened /\ UNCHANGED <<temp, failed>>
     \/ /\ "tmp_output" \notin unopened
        /\ temp' = [temp EXCEPT ![output] = tmp_output]
        /\ UNCHANGED failed
     \/ /\ "tmp_output" \notin unopened
        /\ Refuses("write")
        /\ \E part \in Parts(tmp_output) :
             /\ Len(part) >= Len(temp[output])
             /\ temp' = [temp EXCEPT ![output] = part]
  /\ Goto("WriteHeader")
  /\ UNCHANGED <<disk, args, headers, copying, out_stream, before, unopened, runs>>

-----------------------------------------------------------------------------
(* The rest of CopyData, and the end of Run.                               *)

(***************************************************************************)
(* The languages WriteMessage can find in the header.  For dump files      *)
(* SetAdditionalAttributes gives it the address of a local of its own,     *)
(* dead by then: reading it yields any language, or kills the process.     *)
(***************************************************************************)
HeaderLanguages ==
  IF file_type \in DumpTypes THEN Languages \cup {LANGUAGE_UNSPECIFIED}
  ELSE {LANGUAGE_UNSPECIFIED}

WriteHeader ==
  /\ pc = "WriteHeader"
  /\ \/ file_type \in DumpTypes /\ Terminate
     \/ /\ \E lang \in HeaderLanguages :
             out_stream' = [out_stream EXCEPT !.header =
               [type |-> file_type, count |-> total_written, language |-> lang]]
        /\ Goto("CopyTemp")
        /\ UNCHANGED <<disk, temp, args, headers, copying, before, faults, runs>>

\* output << tmp_input.rdbuf(); a temporary file that is gone or cannot be opened
\* contributes nothing.
CopyTemp ==
  /\ pc = "CopyTemp"
  /\ \/ /\ out_stream' = [out_stream EXCEPT !.messages =
             IF temp[output] = Absent THEN <<>> ELSE temp[output]]
        /\ UNCHANGED failed
     \/ Refuses("open") /\ UNCHANGED out_stream
  /\ Goto("CleanupTempFile")
  /\ UNCHANGED <<disk, temp, args, headers, copying, before, unopened, runs>>

\* fs::remove with an error code: a failure is only logged.
RemoveTemp ==
  \/ temp' = [temp EXCEPT ![output] = Absent] /\ UNCHANGED failed
  \/ Refuses("remove") /\ UNCHANGED temp

\* CleanupTempFile, then the end of CopyData: ~FileHeader deletes the dead local,
\* an invalid free the allocator notices (and aborts) or does not.
CleanupTempFile ==
  /\ pc = "CleanupTempFile"
  /\ RemoveTemp
  /\ \/ file_type \in DumpTypes /\ End("terminated")
     \/ Goto("CloseStreams")
  /\ UNCHANGED <<disk, args, headers, copying, out_stream, before, unopened, runs>>

\* The output stream is flushed, or as much of it as the disk takes.
CloseStreams ==
  /\ pc = "CloseStreams"
  /\ \/ FlushOutput /\ UNCHANGED failed
     \/ /\ "output" \notin unopened
        /\ Refuses("write")
        /\ \E part \in Beginnings(out_stream) :
             /\ HasHeader(disk[output]) => HasHeader(part)
             /\ Len(part.messages) >= Len(disk[output].messages)
             /\ disk' = [disk EXCEPT ![output] = part]
  /\ End("kOk")
  /\ UNCHANGED <<temp, args, headers, copying, out_stream, before, unopened, runs>>

\* Mutant: the handler does not call CleanupTempFile.
Rescue_TempKept ==
  /\ pc = "Rescue"
  /\ FlushOutput
  /\ End(UnsupportedFileTypeCode)
  /\ UNCHANGED <<temp, args, headers, copying, out_stream, before, faults, runs>>

\* The handler: close everything, remove the temporary file, return e.code().  What
\* the temporary file is closed with stays when it cannot be removed.
Rescue ==
  /\ pc = "Rescue"
  /\ FlushOutput
  /\ \/ temp' = [temp EXCEPT ![output] = Absent] /\ UNCHANGED failed
     \/ /\ Refuses("remove")
        /\ temp' = IF "tmp_output" \in unopened THEN temp
                   ELSE [temp EXCEPT ![output] = tmp_output]
  /\ End(UnsupportedFileTypeCode)
  /\ UNCHANGED <<args, headers, copying, out_stream, before, unopened, runs>>

-----------------------------------------------------------------------------
(* The environment.                                                        *)

\* The filebuf of tmp_output overflows: more of the stream reaches the disk.
SpillTemp ==
  /\ pc = "CopyMessages" /\ "tmp_output" \notin unopened
  /\ \E n \in 1..Len(tmp_output) :
       /\ n > Len(temp[output])
       /\ temp' = [temp EXCEPT ![output] = SubSeq(tmp_output, 1, n)]
  /\ UNCHANGED <<disk, pc, args, headers, copying, out_stream, exit, before, faults, runs>>

\* The same for the output; the header is the first thing in it.
SpillOutput ==
  /\ pc \in {"CopyTemp", "CleanupTempFile", "CloseStreams"} /\ "output" \notin unopened
  /\ \E n \in 0..Len(out_stream.messages) :
       /\ disk[output].header = NoHeader \/ n > Len(disk[output].messages)
       /\ disk' = [disk EXCEPT ![output] =
            [out_stream EXCEPT !.messages = SubSeq(out_stream.messages, 1, n)]]
  /\ UNCHANGED <<temp, pc, args, headers, copying, out_stream, exit, before, faults, runs>>

Kill ==
  /\ Running
  /\ End("killed")
  /\ UNCHANGED <<disk, temp, args, headers, copying, out_stream, before, faults, runs>>

-----------------------------------------------------------------------------
Init ==
  /\ disk \in [Files -> Contents]
  /\ temp = [f \in Files |-> Absent]
  /\ pc = "ended" /\ exit = "none" /\ runs = 0
  /\ inputs = <<>> /\ output \in {command.output : command \in Commands}
  /\ opened = {} /\ message_counts = <<>>
  /\ file_type = "UNSPECIFIED" /\ language = LANGUAGE_UNSPECIFIED
  /\ i = 1 /\ j = 0 /\ seen_ids = {} /\ total_written = 0
  /\ tmp_output = <<>> /\ out_stream = EmptyFile
  /\ before = disk
  /\ unopened = {} /\ failed = {}

Step == \/ LoadArgs \/ OpenStreams \/ ReadHeaders \/ CopyMessages \/ CloseTemp
        \/ WriteHeader \/ CopyTemp \/ CleanupTempFile \/ CloseStreams \/ Rescue

Next == \/ \E command \in Commands : Invoke(command)
        \/ Step
        \/ SpillTemp \/ SpillOutput \/ Kill

Spec == Init /\ [][Next]_vars

\* A process that can take a step takes it; nobody has to run, spill or kill it.
Fairness == WF_vars(Step)
FairSpec == Spec /\ Fairness

-----------------------------------------------------------------------------
(* Properties.                                                             *)

\* Each variable has its type; seen_ids holds no empty id, and no header whose type
\* the enum does not name is ever accepted.
TypeOK ==
  /\ disk \in [Files -> File \cup {Absent}]
  /\ temp \in [Files -> Seq(Message) \cup {Absent}]
  /\ pc \in Steps \cup {"ended"}
  /\ inputs \in Seq(Files) /\ output \in Files
  /\ opened \subseteq DOMAIN inputs
  /\ file_type \in FileTypes \ {"UNNAMED"}
  /\ language \in Languages \cup {LANGUAGE_UNSPECIFIED}
  /\ message_counts \in Seq(Nat)
  /\ i \in Nat \ {0} /\ j \in Nat /\ total_written \in Nat
  /\ seen_ids \subseteq Ids
  /\ tmp_output \in Seq(Message)
  /\ out_stream \in File
  /\ exit \in Exits
  /\ before \in [Files -> File \cup {Absent}]
  /\ unopened \subseteq {"output", "tmp_output"}
  /\ failed \subseteq Failures
  /\ runs \in 0..MaxRuns

\* The two ways Run returns.
Ok      == pc = "ended" /\ exit = "kOk"
Refused == pc = "ended" /\ exit = "kGeneralError"

\* What the output is to hold in the end.
Whole == [header |-> out_stream.header, messages |-> tmp_output]

(***************************************************************************)
(* From the moment a header can be in the output, whoever reads the output *)
(* finds nothing, or a header that counts all of the messages and some     *)
(* beginning of them: the count gives away an output that is not complete, *)
(* also after a kill or on a full disk.  A run that returns kOk leaves all *)
(* of them, when the disk has taken everything.                            *)
(***************************************************************************)
OutputIsBeginning ==
  /\ out_stream.header # NoHeader /\ unopened = {} =>
       /\ out_stream.header.count = Len(tmp_output)
       /\ disk[output] \in Beginnings(Whole)
  /\ Ok /\ failed \subseteq {"remove"} =>
       out_stream.header # NoHeader /\ disk[output] = Whole

\* No two messages of an OpenAlex output have one id, whichever inputs they
\* came from, also when the inputs repeat an id or name one file twice.
NoRepeatedIds ==
  out_stream.header # NoHeader /\ file_type \in OpenAlexTypes /\ unopened = {} =>
    \A m, n \in DOMAIN disk[output].messages :
      disk[output].messages[m].id = disk[output].messages[n].id /\ m # n
        => disk[output].messages[m].id = NoId

(***************************************************************************)
(* Messages are only copied from inputs that all have a header, of one     *)
(* type, and -- in dump files -- of the language of the first input that   *)
(* states one, for every input after that one.                             *)
(***************************************************************************)
AcceptedHeadersAgree ==
  pc \in {"CopyMessages", "WriteHeader", "CopyTemp", "CleanupTempFile", "CloseStreams"}
    \/ Ok =>
    /\ \A n \in DOMAIN inputs : /\ HasHeader(before[inputs[n]])
                              /\ before[inputs[n]].header.type = file_type
    /\ file_type \in DumpTypes =>
         \A m, n \in DOMAIN inputs :
           m < n /\ before[inputs[m]].header.language # LANGUAGE_UNSPECIFIED =>
             before[inputs[n]].header.language = before[inputs[m]].header.language

\* OpenStreams truncates the output even if it is one of the inputs; such a run
\* destroys that input, and never reports success.
OkLeavesInputsIntact ==
  Ok => \A n \in DOMAIN inputs : disk[inputs[n]] = before[inputs[n]]

\* When Run returns, by either return statement, no temporary file is left, not even
\* one an earlier run left behind that was killed or could not remove it.
NoTempAfterReturn == (Ok \/ Refused) /\ "remove" \notin failed => temp[output] = Absent

\* A refused run leaves an output that no command takes for a PBF file: nothing
\* of the inputs it had accepted, or of what the path held before, is in it.
RefusedRunLeavesEmptyOutput ==
  Refused /\ "output" \notin unopened => disk[output] = EmptyFile

\* Every run ends, whatever the inputs hold.
EveryRunEnds == Running ~> ~Running

\* Nothing is wrong with the request: OpenAlex files of one type that hold the
\* messages they count, none of them the output.
Sound ==
  /\ inputs # <<>>
  /\ \A n \in DOMAIN inputs :
       /\ inputs[n] # output
       /\ HasHeader(disk[inputs[n]])
       /\ disk[inputs[n]].header.type \in OpenAlexTypes
       /\ disk[inputs[n]].header.type = disk[inputs[1]].header.type
       /\ disk[inputs[n]].header.count <= Len(disk[inputs[n]].messages)

\* A sound request is carried out unless the process is killed: it is neither
\* refused nor the end of the process.
SoundRequestsSucceed ==
  pc = "LoadArgs" /\ Sound ~> pc = "ended" /\ exit \in {"kOk", "killed"}

-----------------------------------------------------------------------------
(* The refinement of PbfMerge.                                             *)

Outcome ==
  CASE Running                                                -> "running"
    [] ~Running /\ exit = "none"                              -> "none"
    [] ~Running /\ exit = "kOk" /\ "write" \notin failed      -> "ok"
    [] ~Running /\ exit = "kGeneralError"                     -> "refused"
    [] OTHER                                                  -> "abandoned"

Promise == INSTANCE PbfMerge WITH
  request <- [inputs |-> inputs, output |-> output], outcome <- Outcome,
  Requests <- Commands, InitialDisks <- [Files -> Contents]

\* Every run keeps the promise where the file system opens what it is asked to: what
\* it leaves on the disk, at every moment, is what PbfMerge allows, however the run
\* reads, copies, buffers, is killed and is run again over what that left.
KeepsPromise == Promise!Spec

-----------------------------------------------------------------------------
(* What the sources say of the command and the code does not do.           *)

\* pbf/combine.h:71, "Validate that all input files share the same language."
InputsShareLanguage ==
  pc = "CopyMessages" /\ file_type \in DumpTypes =>
    \A m, n \in DOMAIN inputs :
      before[inputs[m]].header.language = before[inputs[n]].header.language

\* pbf/combine.h:87, "Set additional attributes for the output file.": the output
\* of a combination of dump files states their language.
OutputStatesLanguage ==
  Ok /\ file_type \in DumpTypes => disk[output].header.language = language

\* exceptions.h:41, kExitCode = ExitCode::kInputError in UserInputException: a run
\* over readable inputs of different types or languages returns kInputError.
MismatchIsInputError ==
  /\ pc = "ended" /\ exit # "killed"
  /\ \A n \in DOMAIN inputs : /\ inputs[n] # output /\ HasHeader(before[inputs[n]])
                            /\ before[inputs[n]].header.type \in DumpTypes \cup OpenAlexTypes
  /\ \E m, n \in DOMAIN inputs :
       \/ before[inputs[m]].header.type # before[inputs[n]].header.type
       \/ LET languages == {before[inputs[m]].header.language, before[inputs[n]].header.language}
          IN  Cardinality(languages \ {LANGUAGE_UNSPECIFIED}) = 2
  => exit = "kInputError"
=============================================================================
