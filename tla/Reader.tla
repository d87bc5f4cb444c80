-------------------------------- MODULE Reader -------------------------------
(***************************************************************************)
(* `citescoop-cli pbf cat` (src/pbf/cat.cc) and `pbf meta` (src/pbf/meta.cc)*)
(* reading a file that another process may still be writing, or start to   *)
(* write again.                                                            *)
(*                                                                         *)
(* Both read the header and then as many messages as it counts.  cat prints*)
(* each as it goes, meta adds up their sizes and prints at the end.        *)
(***************************************************************************)
EXTENDS PbfIo, FileSize, Functions

CONSTANTS
  Targets,           \* what a writer will have written in the end
  UnnamedLanguages,  \* numbers proto::Language has no name for
  Sizes              \* what the sizes of messages can add up to

ASSUME ReaderAssumption ==
  /\ Targets \subseteq File /\ UnnamedLanguages \subseteq Languages
  /\ \A size \in Sizes : IsSize(size)

VARIABLES
  target,   \* the file the writer is writing
  file,     \* what is on the disk of it, or Absent
  command,  \* "cat" or "meta"
  asked,    \* was --pretty on the command line?
  pretty,   \* args_.pretty
  pc,
  opened,   \* is the ifstream open?
  eof,      \* has the stream been read past its end?
  header,   \* header_; message_count_ and file_type_ are its fields
  read,     \* the messages read; meta keeps the sums of their sizes
  printed,  \* what went to std::cout
  exit,
  torn,       \* was the file truncated when some of it had been read?
  rewritten   \* was it truncated at all?  It is once at most.

given == <<target, file, command, asked, torn, rewritten>>
vars  == <<given, pretty, pc, opened, eof, header, read, printed, exit>>

End(how)  == pc' = "ended" /\ exit' = how
Terminate == End("terminated") /\ UNCHANGED <<given, pretty, opened, eof, header, read, printed>>

\* The handlers of UnsupportedFileType.
Refuse ==
  /\ End(UnsupportedFileTypeCode)
  /\ UNCHANGED <<given, pretty, opened, eof, header, read, printed>>

Content == IF opened /\ ~eof THEN file ELSE Absent

\* The next message.  The position in a file that was truncated under the stream can be
\* anywhere in any message: what is read is one of the target's for all that is told apart.
ReadNext ==
  IF torn /\ ~eof
  THEN UNION {ReadGenericMessage([messages |-> <<message>>], n, header.type) :
                message \in Range(target.messages) \cup {DefaultMessage}, n \in {1, 2}}
  ELSE ReadGenericMessage(Content, Len(read) + 1, header.type)

-----------------------------------------------------------------------------
\* ParseArgs throws when there is no file.  --pretty has a default value, so the
\* variables map contains it whether or not it was given; cat has no such option.
LoadArgs ==
  /\ pc = "LoadArgs"
  /\ \/ Terminate
     \/ /\ pc' = "OpenFile"
        /\ pretty' = (command = "meta")
        /\ UNCHANGED <<given, opened, eof, header, read, printed, exit>>

OpenFile ==
  /\ pc = "OpenFile"
  /\ opened' = (file # Absent)
  /\ pc' = "ReadHeader"
  /\ UNCHANGED <<given, pretty, eof, header, read, printed, exit>>

\* Mutant: meta prints the total as soon as it has the header.
ReadHeader_PrintTotal ==
  /\ pc = "ReadHeader"
  /\ \E result \in ReadPbfHeader(Content) :
       /\ result.raise = Nothing
       /\ header' = result.value
       /\ printed' = Append(printed, result.value)
       /\ pc' = "ReadMessages"
       /\ UNCHANGED <<given, pretty, opened, eof, read, exit>>

\* Mutant: a file whose header is refused is opened again, for its writer to be done.
ReadHeader_Retry ==
  /\ pc = "ReadHeader"
  /\ \E result \in ReadPbfHeader(Content) :
       \/ result.raise = Uncaught /\ Terminate
       \/ /\ result.raise = UnsupportedFileType
          /\ pc' = "OpenFile"
          /\ UNCHANGED <<given, pretty, opened, eof, header, read, printed, exit>>
       \/ /\ result.raise = Nothing
          /\ header' = result.value
          /\ printed' = IF command = "cat" THEN Append(printed, result.value) ELSE printed
          /\ pc' = "ReadMessages"
          /\ UNCHANGED <<given, pretty, opened, eof, read, exit>>

\* cat prints the header at once.
ReadHeader ==
  /\ pc = "ReadHeader"
  /\ \E result \in ReadPbfHeader(Content) :
       \/ result.raise = Uncaught /\ Terminate
       \/ result.raise = UnsupportedFileType /\ Refuse
       \/ /\ result.raise = Nothing
          /\ header' = result.value
          /\ printed' = IF command = "cat" THEN Append(printed, result.value) ELSE printed
          /\ pc' = "ReadMessages"
          /\ UNCHANGED <<given, pretty, opened, eof, read, exit>>

\* Mutant: the stream is cleared after a short read.
TakeMessage_Cleared(message) ==
  /\ read' = Append(read, message)
  /\ printed' = IF command = "cat" THEN Append(printed, message) ELSE printed
  /\ UNCHANGED <<given, pretty, pc, opened, eof, header, exit>>

\* A stream that was read past its end stays so: nobody clears its eofbit.
TakeMessage(message) ==
  /\ read' = Append(read, message)
  /\ printed' = IF command = "cat" THEN Append(printed, message) ELSE printed
  /\ IF torn THEN eof' \in {eof, TRUE}
             ELSE eof' = (eof \/ ~HasMessage(Content, Len(read) + 1))
  /\ UNCHANGED <<given, pretty, pc, opened, header, exit>>

\* Mutant: the handler in the loop of cat leaves the loop instead of Run.
ReadMessages_Break ==
  /\ pc = "ReadMessages"
  /\ \/ /\ Len(read) < header.count
        /\ \E result \in ReadNext :
             \/ result.raise = Uncaught /\ Terminate
             \/ /\ result.raise = UnsupportedFileType
                /\ pc' = "Finish"
                /\ UNCHANGED <<given, pretty, opened, eof, header, read, printed, exit>>
             \/ result.raise = Nothing /\ TakeMessage(result.value)
     \/ /\ Len(read) >= header.count
        /\ pc' = "Finish"
        /\ UNCHANGED <<given, pretty, opened, eof, header, read, printed, exit>>

ReadMessages ==
  /\ pc = "ReadMessages"
  /\ \/ /\ Len(read) < header.count
        /\ \E result \in ReadNext :
             \/ result.raise = Uncaught /\ Terminate
             \/ result.raise = UnsupportedFileType /\ Refuse
             \/ result.raise = Nothing /\ TakeMessage(result.value)
     \/ /\ Len(read) >= header.count
        /\ pc' = "Finish"
        /\ UNCHANGED <<given, pretty, opened, eof, header, read, printed, exit>>

FinishCat ==
  /\ pc = "Finish" /\ command = "cat"
  /\ End("kOk")
  /\ UNCHANGED <<given, pretty, opened, eof, header, read, printed>>

\* ByteSizeLong of the messages read, added up.
TotalSizes == IF read = <<>> THEN {<<>>} ELSE Sizes

\* A size in full is the size itself.
FormatSize(size) == IF pretty THEN FormatFileSize(size) ELSE size

\* FormatAdditionalAttributes dereferences the descriptor of the language, null for
\* a number without a name; everything is printed after it.
FinishMeta ==
  /\ pc = "Finish" /\ command = "meta"
  /\ \/ header.type \in DumpTypes /\ header.language \in UnnamedLanguages /\ Terminate
     \/ /\ header.type \notin DumpTypes \/ header.language \notin UnnamedLanguages
        /\ \E size \in TotalSizes :
             printed' = <<[total |-> header.count, read |-> Len(read), pretty |-> pretty,
                           size |-> size, formatted |-> FormatSize(size)]>>
        /\ End("kOk")
        /\ UNCHANGED <<given, pretty, opened, eof, header, read>>

-----------------------------------------------------------------------------
\* The writer creates the file or writes more of it.  What it does once the reader has
\* ended, or can read anything, is of no interest.
Write ==
  /\ file # target /\ pc # "ended" /\ ~torn
  /\ \/ file = Absent /\ file' = EmptyFile
     \/ /\ file # Absent
        /\ file' \in {f \in Beginnings(target) :
                        file.header = NoHeader \/ Len(f.messages) > Len(file.messages)}
  /\ UNCHANGED <<target, command, asked, torn, rewritten, pretty, pc, opened, eof, header,
                 read, printed, exit>>

\* Another command is given the same path for its output.
Rewrite ==
  /\ file # Absent /\ ~rewritten /\ pc # "ended"
  /\ rewritten' = TRUE
  /\ torn' = (pc \in {"ReadMessages", "Finish"})
  /\ file' = EmptyFile
  /\ IF torn' THEN UNCHANGED target ELSE target' \in Targets
  /\ UNCHANGED <<command, asked, pretty, pc, opened, eof, header, read, printed, exit>>

Init ==
  /\ target \in Targets /\ file \in {Absent, EmptyFile, target}
  /\ command \in {"cat", "meta"} /\ asked \in {FALSE, command = "meta"}
  /\ torn = FALSE /\ rewritten = FALSE
  /\ pretty = FALSE /\ pc = "LoadArgs" /\ exit = "none"
  /\ opened = FALSE /\ eof = FALSE /\ header = DefaultHeader
  /\ read = <<>> /\ printed = <<>>

Step == \/ LoadArgs \/ OpenFile \/ ReadHeader \/ ReadMessages \/ FinishCat \/ FinishMeta
Next == Step \/ Write \/ Rewrite
Spec == Init /\ [][Next]_vars

\* A reader that can take a step takes it; nobody has to write.
FairSpec == Spec /\ WF_vars(Step)

-----------------------------------------------------------------------------
(***************************************************************************)
(* A reader that meets the end of a file still being written never passes  *)
(* over a message and reads on: what it has read is a beginning of what    *)
(* the file will hold, and nothing but default messages after that.        *)
(***************************************************************************)
ReadsBeginning ==
  ~torn =>
    \E n \in 0..Len(read) :
      /\ n <= Len(target.messages)
      /\ \A m \in 1..n : read[m] = target.messages[m]
      /\ \A m \in (n + 1)..Len(read) : read[m] = DefaultMessage

\* kOk: as many messages as the header said were read -- a default message, which a
\* short read can give, counts as one -- and cat has printed the header and each of
\* them, meta its one line for all of them, also when the file became another under
\* the reader.
OkAccountsForAll ==
  exit = "kOk" =>
    /\ Len(read) = header.count
    /\ command = "cat"  => printed = <<header>> \o read
    /\ command = "meta" => printed[1].total = printed[1].read

\* meta prints all of its answer or none of it: a refused or terminated meta
\* has not printed a count it could not confirm.
MetaPrintsAllOrNothing == command = "meta" /\ printed # <<>> => exit = "kOk"

FormattedSizes == [size \in Sizes |-> FormatFileSize(size)]

\* Wherever the unit changes and the rounding carries, a formatted size is within half
\* a per cent of the size.
SizesAccurate ==
  command = "meta" /\ printed # <<>> /\ pretty => Accurate(printed[1].size, printed[1].formatted)

\* What is larger is never shown as less, whichever units and decimals the two have.
SizesOrdered ==
  command = "meta" /\ printed # <<>> /\ pretty =>
    \A size \in Sizes :
      SizeAtMost(printed[1].size, size) => AtMost(printed[1].formatted, FormattedSizes[size])

\* Every reader ends, whatever the header counts, however short the file is, and
\* whoever writes to it.
EveryReaderEnds == pc = "LoadArgs" ~> pc = "ended"

\* pbf/meta.cc:93-94, --pretty: "Display sizes like 1K 234M 2G etc."  Without the
\* option sizes are displayed in full.
PrettyOnlyIfAsked == command = "meta" /\ printed # <<>> => printed[1].pretty = asked
=============================================================================
