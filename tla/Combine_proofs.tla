---------------------------- MODULE Combine_proofs ----------------------------
(***************************************************************************)
(* Theorems about Combine: for every set of files, languages, ids, command *)
(* lines and initial contents, and any number of runs.                     *)
(***************************************************************************)
EXTENDS Combine, PbfIo_proofs

-----------------------------------------------------------------------------
\* What an input stream reads from is a file, or nothing when it was not opened.
LEMMA ContentType ==
  ASSUME TypeOK, NEW n \in DOMAIN inputs
  PROVE  Content(n) \in File \cup {Absent}
  BY DEF TypeOK, Content

\* What CopyMessagesToTemp reads is a message.
LEMMA MessageRead ==
  ASSUME TypeOK, CopyMessages,
         NEW read \in ReadGenericMessage(Content(i), j + 1, file_type), read.raise = Nothing
  PROVE  read.value \in Message
<1>1. i \in DOMAIN inputs
  BY DEF CopyMessages, TypeOK
<1>2. Content(i) \in File \cup {Absent}
  BY <1>1, ContentType
<1>3. j + 1 \in Nat \ {0}
  BY DEF TypeOK
<1> QED
  BY <1>2, <1>3, ReadGenericMessageReturns

-----------------------------------------------------------------------------
(* Type correctness.                                                       *)

\* Before the first run every variable has its type.
LEMMA InitTypeOK == Init => TypeOK
<1> SUFFICES ASSUME Init PROVE TypeOK
  OBVIOUS
<1>1. output \in Files
  BY CombineAssumption DEF Init
<1>2. disk \in [Files -> File \cup {Absent}]
  BY CombineAssumption DEF Init
<1> QED
  BY <1>1, <1>2, EmptyFileType, CombineAssumption DEF Init, TypeOK, Exits, FileTypes

\* No step of a run, and nothing the environment does, takes a variable out of its
\* type.
LEMMA NextTypeOK == TypeOK /\ [Next]_vars => TypeOK'
<1> SUFFICES ASSUME TypeOK, [Next]_vars PROVE TypeOK'
  OBVIOUS
<1> USE DEF Steps, Exits, args, headers, copying, faults, Refuses
<1>1. ASSUME NEW command \in Commands, Invoke(command) PROVE TypeOK'
  <2>1. command.inputs \in Seq(Files) /\ command.output \in Files
    BY CombineAssumption
  <2>2. runs' \in 0..MaxRuns
    BY <1>1, CombineAssumption DEF Invoke, TypeOK
  <2> QED
    BY <1>1, <2>1, <2>2, EmptyFileType DEF Invoke, TypeOK, FileTypes
<1>2. CASE LoadArgs
  BY <1>2 DEF LoadArgs, Terminate, End, Goto, TypeOK
<1>3. CASE OpenStreams
  BY <1>3, EmptyFileType DEF OpenStreams, Goto, TypeOK
<1>4. CASE ReadHeaders
  <2>1. ASSUME i <= Len(inputs), NEW read \in ReadPbfHeader(Content(i)), ReadHeader(read)
        PROVE  TypeOK'
    <3>1. CASE Terminate
      BY <3>1 DEF Terminate, End, TypeOK
    <3>2. CASE ThrowUnsupported
      BY <3>2 DEF ThrowUnsupported, Goto, TypeOK
    <3>3. CASE read.raise = Nothing /\ AcceptHeader(read.value)
      <4>1. i \in DOMAIN inputs
        BY <2>1 DEF TypeOK
      <4>2. read.value \in Header /\ read.value.type \in FileTypes \ {"UNSPECIFIED", "UNNAMED"}
        BY <4>1, <3>3, ContentType, ReadPbfHeaderReturns
      <4> QED
        BY <3>3, <4>2 DEF AcceptHeader, TypeOK, Header
    <3> QED
      BY <2>1, <3>1, <3>2, <3>3 DEF ReadHeader
  <2>2. CASE Goto("CopyMessages") /\ i' = 1 /\
             UNCHANGED <<disk, temp, args, headers, j, seen_ids, total_written, tmp_output,
                         out_stream, before, faults, runs>>
    BY <2>2 DEF Goto, TypeOK
  <2> QED
    BY <1>4, <2>1, <2>2 DEF ReadHeaders
<1>5. CASE CopyMessages
  <2>1. i \in DOMAIN inputs
    BY <1>5 DEF CopyMessages, TypeOK
  <2>2. ASSUME NEW read \in ReadGenericMessage(Content(i), j + 1, file_type),
               read.raise = Nothing, CopyMessage(read.value)
        PROVE  TypeOK'
    <3>1. read.value \in Message
      BY <1>5, <2>2, MessageRead
    <3>2. SeenWith(read.value) \subseteq Ids
      BY <3>1 DEF SeenWith, TypeOK, Message
    <3>3. tmp_output' \in Seq(Message) /\ total_written' \in Nat
      <4>1. tmp_output \in Seq(Message) /\ total_written \in Nat
        BY DEF TypeOK
      <4>2. Append(tmp_output, read.value) \in Seq(Message) /\ total_written + 1 \in Nat
        BY <3>1, <4>1
      <4> QED
        BY <2>2, <4>1, <4>2 DEF CopyMessage
    <3> QED
      BY <2>2, <3>2, <3>3 DEF CopyMessage, TypeOK
  <2>3. CASE Terminate
    BY <2>3 DEF Terminate, End, TypeOK
  <2>4. CASE ThrowUnsupported
    BY <2>4 DEF ThrowUnsupported, Goto, TypeOK
  <2>5. CASE NextInput
    BY <2>5 DEF NextInput, TypeOK
  <2> QED
    BY <1>5, <2>2, <2>3, <2>4, <2>5 DEF CopyMessages
<1>6. CASE CloseTemp
  <2>1. tmp_output \in Seq(Message) /\ Parts(tmp_output) \subseteq Seq(Message)
    BY PartsOfSeq DEF TypeOK
  <2>2. temp' \in [Files -> Seq(Message) \cup {Absent}]
    BY <1>6, <2>1 DEF CloseTemp, TypeOK
  <2>3. failed' \subseteq Failures
    BY <1>6 DEF CloseTemp, TypeOK
  <2> QED
    BY <1>6, <2>2, <2>3 DEF CloseTemp, Goto, TypeOK
<1>7. CASE WriteHeader
  <2>1. CASE Terminate
    BY <2>1 DEF Terminate, End, TypeOK
  <2>2. ASSUME NEW lang \in HeaderLanguages,
               out_stream' = [out_stream EXCEPT !.header =
                 [type |-> file_type, count |-> total_written, language |-> lang]]
        PROVE  out_stream' \in File
    BY <2>2 DEF HeaderLanguages, TypeOK, File, Header
  <2> QED
    BY <1>7, <2>1, <2>2 DEF WriteHeader, Goto, TypeOK
<1>8. CASE CopyTemp
  <2>1. (IF temp[output] = Absent THEN <<>> ELSE temp[output]) \in Seq(Message)
    BY DEF TypeOK
  <2>2. out_stream' \in File
    BY <1>8, <2>1 DEF CopyTemp, TypeOK, File
  <2> QED
    BY <1>8, <2>2 DEF CopyTemp, Goto, TypeOK
<1>9. CASE CleanupTempFile
  BY <1>9 DEF CleanupTempFile, RemoveTemp, Goto, End, TypeOK
<1>10. CASE CloseStreams
  <2>1. Beginnings(out_stream) \subseteq File
    BY BeginningsOfFile DEF TypeOK
  <2>2. disk' \in [Files -> File \cup {Absent}]
    BY <1>10, <2>1 DEF CloseStreams, FlushOutput, TypeOK
  <2>3. failed' \subseteq Failures
    BY <1>10 DEF CloseStreams, TypeOK
  <2> QED
    BY <1>10, <2>2, <2>3 DEF CloseStreams, End, TypeOK
<1>11. CASE Rescue
  BY <1>11 DEF Rescue, FlushOutput, End, TypeOK, UnsupportedFileTypeCode
<1>12. CASE SpillTemp
  <2>1. PICK n \in 1..Len(tmp_output) : temp' = [temp EXCEPT ![output] = SubSeq(tmp_output, 1, n)]
    BY <1>12 DEF SpillTemp
  <2>2. SubSeq(tmp_output, 1, n) \in Seq(Message)
    BY <2>1 DEF TypeOK
  <2> QED
    BY <1>12, <2>1, <2>2 DEF SpillTemp, TypeOK
<1>13. CASE SpillOutput
  <2>1. PICK n \in 0..Len(out_stream.messages) :
          disk' = [disk EXCEPT ![output] =
            [out_stream EXCEPT !.messages = SubSeq(out_stream.messages, 1, n)]]
    BY <1>13 DEF SpillOutput
  <2>2. [out_stream EXCEPT !.messages = SubSeq(out_stream.messages, 1, n)] \in File
    <3>1. out_stream \in File /\ out_stream.messages \in Seq(Message)
      BY DEF TypeOK, File
    <3>2. SubSeq(out_stream.messages, 1, n) \in Seq(Message)
      BY <2>1, <3>1
    <3> QED
      BY <3>1, <3>2 DEF File
  <2> QED
    BY <1>13, <2>1, <2>2 DEF SpillOutput, TypeOK
<1>14. CASE Kill
  BY <1>14 DEF Kill, End, TypeOK
<1>15. CASE UNCHANGED vars
  BY <1>15 DEF vars, TypeOK
<1> QED
  BY <1>1, <1>2, <1>3, <1>4, <1>5, <1>6, <1>7, <1>8, <1>9, <1>10, <1>11, <1>12, <1>13,
     <1>14, <1>15 DEF Next, Step

\* Every variable of Combine keeps its type over any number of runs: in particular
\* the id of a message without one never gets into seen_ids, and file_type_ never
\* becomes a value the enum does not name.
THEOREM TypeCorrect == Spec => []TypeOK
  BY InitTypeOK, NextTypeOK, PTL DEF Spec

-----------------------------------------------------------------------------
(* The streams and the disk.                                               *)

\* What is in the streams at each step: the count never parts from the messages
\* written, and the header is written once no message can follow.  Where both outputs
\* opened, the temporary file never holds what was not written in this run.
StreamsInv ==
  /\ total_written = Len(tmp_output)
  /\ unopened # {} => "open" \in failed
  /\ pc \in {"LoadArgs", "OpenStreams", "ReadHeaders"} => tmp_output = <<>>
  /\ pc \in {"ReadHeaders", "CopyMessages", "WriteHeader", "CopyTemp"} /\ unopened = {}
       => temp[output] \in Parts(tmp_output)
  /\ pc \in {"WriteHeader", "CopyTemp"} /\ failed \subseteq {"remove"} => temp[output] = tmp_output
  /\ pc \in {"LoadArgs", "OpenStreams", "ReadHeaders", "CopyMessages", "WriteHeader", "Rescue"}
       => out_stream = EmptyFile
  /\ pc \in {"CopyTemp", "CleanupTempFile", "CloseStreams"} \/ Ok => out_stream.header # NoHeader
  /\ out_stream.header # NoHeader =>
       /\ out_stream.header.count = Len(tmp_output)
       /\ unopened = {} => out_stream.messages \in Parts(tmp_output)
  /\ (pc \in {"CleanupTempFile", "CloseStreams"} \/ Ok) /\ failed \subseteq {"remove"}
       => out_stream.messages = tmp_output

\* Nothing is in the streams before the first run.
LEMMA InitStreamsInv == Init => StreamsInv
  BY DEF Init, StreamsInv, EmptyFile, Ok

\* Every step keeps the count and the streams as StreamsInv has them.
LEMMA NextStreamsInv == TypeOK /\ StreamsInv /\ [Next]_vars => StreamsInv'
<1> SUFFICES ASSUME TypeOK, StreamsInv, [Next]_vars PROVE StreamsInv'
  OBVIOUS
<1> USE DEF args, headers, copying, faults, Ok
<1>1. ASSUME NEW command \in Commands, Invoke(command) PROVE StreamsInv'
  BY <1>1 DEF Invoke, StreamsInv, EmptyFile
<1>2. CASE LoadArgs
  BY <1>2 DEF LoadArgs, Terminate, End, Goto, StreamsInv
<1>3. CASE OpenStreams
  <2>1. tmp_output' = <<>> /\ pc' = "ReadHeaders"
    BY <1>3 DEF OpenStreams, Goto, StreamsInv
  <2>2. ASSUME unopened' = {} PROVE temp'[output'] \in Parts(tmp_output')
    <3>1. temp'[output'] = <<>>
      BY <1>3, <2>2 DEF OpenStreams, TypeOK
    <3> QED
      BY <2>1, <3>1, PartsOfSeq DEF TypeOK
  <2>3. unopened' # {} => "open" \in failed'
    BY <1>3 DEF OpenStreams, Refuses
  <2> QED
    BY <1>3, <2>1, <2>2, <2>3 DEF OpenStreams, Goto, StreamsInv, EmptyFile
<1>4. CASE ReadHeaders
  <2>1. CASE Terminate
    BY <1>4, <2>1 DEF Terminate, End, StreamsInv
  <2>2. CASE ThrowUnsupported
    BY <1>4, <2>2 DEF ReadHeaders, ThrowUnsupported, Goto, StreamsInv
  <2>3. ASSUME NEW header, AcceptHeader(header) PROVE StreamsInv'
    BY <1>4, <2>3 DEF ReadHeaders, AcceptHeader, StreamsInv
  <2>4. CASE Goto("CopyMessages") /\
             UNCHANGED <<disk, temp, args, headers, j, seen_ids, total_written, tmp_output,
                         out_stream, before, faults, runs>>
    BY <1>4, <2>4 DEF ReadHeaders, Goto, StreamsInv
  <2> QED
    BY <1>4, <2>1, <2>2, <2>3, <2>4 DEF ReadHeaders, ReadHeader
<1>5. CASE CopyMessages
  <2>1. CASE Terminate
    BY <1>5, <2>1 DEF Terminate, End, StreamsInv
  <2>2. CASE ThrowUnsupported
    BY <1>5, <2>2 DEF CopyMessages, ThrowUnsupported, Goto, StreamsInv
  <2>3. ASSUME NEW message \in Message, CopyMessage(message) PROVE StreamsInv'
    <3>1. Len(Append(tmp_output, message)) = Len(tmp_output) + 1
      BY DEF TypeOK
    <3>2. total_written' = Len(tmp_output')
      BY <2>3, <3>1 DEF CopyMessage, StreamsInv
    <3>3. out_stream = EmptyFile /\ pc = "CopyMessages"
      BY <1>5 DEF CopyMessages, StreamsInv
    <3>4. ASSUME unopened = {} PROVE temp[output] \in Parts(tmp_output')
      <4>1. temp[output] \in Parts(tmp_output) /\ tmp_output \in Seq(Message)
        BY <3>3, <3>4 DEF StreamsInv, TypeOK
      <4> QED
        BY <2>3, <4>1, PartsOfAppend DEF CopyMessage
    <3> QED
      BY <2>3, <3>2, <3>3, <3>4 DEF CopyMessage, StreamsInv, EmptyFile
  <2>4. CASE NextInput
    BY <1>5, <2>4 DEF CopyMessages, NextInput, StreamsInv
  <2>5. ASSUME NEW read \in ReadGenericMessage(Content(i), j + 1, file_type), read.raise = Nothing
        PROVE  read.value \in Message
    BY <1>5, <2>5, MessageRead
  <2> QED
    BY <1>5, <2>1, <2>2, <2>3, <2>4, <2>5 DEF CopyMessages
<1>6. CASE CloseTemp
  <2>1. /\ pc = "CopyMessages" /\ pc' = "WriteHeader" /\ exit' = exit /\ out_stream = EmptyFile
        /\ UNCHANGED <<output, unopened, total_written, tmp_output, out_stream>>
        /\ failed \subseteq failed'
    BY <1>6 DEF CloseTemp, Goto, StreamsInv, Refuses
  <2>2. ASSUME unopened = {} PROVE temp'[output] \in Parts(tmp_output)
    BY <1>6, <2>2, PartsOfSeq DEF CloseTemp, TypeOK
  <2>3. ASSUME failed' \subseteq {"remove"} PROVE temp'[output] = tmp_output
    BY <1>6, <2>1, <2>3 DEF CloseTemp, Refuses, StreamsInv, TypeOK
  <2> QED
    BY <2>1, <2>2, <2>3 DEF StreamsInv, EmptyFile
<1>7. CASE WriteHeader
  <2>1. CASE Terminate
    BY <1>7, <2>1 DEF Terminate, End, StreamsInv
  <2>2. ASSUME NEW lang \in HeaderLanguages,
               out_stream' = [out_stream EXCEPT !.header =
                 [type |-> file_type, count |-> total_written, language |-> lang]],
               Goto("CopyTemp"),
               UNCHANGED <<disk, temp, args, headers, copying, before, faults, runs>>
        PROVE  StreamsInv'
    <3>1. [type |-> file_type, count |-> total_written, language |-> lang] \in Header
      BY DEF HeaderLanguages, TypeOK, Header
    <3>2. out_stream = EmptyFile /\ total_written = Len(tmp_output) /\ <<>> \in Parts(tmp_output)
      BY <1>7, PartsOfSeq DEF WriteHeader, StreamsInv, TypeOK
    <3>3. /\ out_stream'.header \in Header
          /\ out_stream'.header.count = total_written
          /\ out_stream'.messages = <<>>
      BY <2>2, <3>1, <3>2 DEF EmptyFile
    <3>4. out_stream'.header # NoHeader
      BY <3>3, PbfIoAssumption
    <3> QED
      BY <1>7, <2>2, <3>2, <3>3, <3>4 DEF WriteHeader, Goto, StreamsInv
  <2> QED
    BY <1>7, <2>1, <2>2 DEF WriteHeader
<1>8. CASE CopyTemp
  <2>1. /\ pc = "CopyTemp" /\ pc' = "CleanupTempFile" /\ exit' = exit
        /\ UNCHANGED <<output, temp, unopened, total_written, tmp_output>>
        /\ failed \subseteq failed'
    BY <1>8 DEF CopyTemp, Goto, Refuses
  <2>2. tmp_output \in Seq(Message) /\ out_stream.header # NoHeader
    BY <2>1 DEF StreamsInv, TypeOK
  <2>3. /\ out_stream'.header = out_stream.header
        /\ out_stream'.messages = out_stream.messages \/ out_stream'.messages =
             (IF temp[output] = Absent THEN <<>> ELSE temp[output])
        /\ failed' \subseteq {"remove"} => out_stream'.messages =
             (IF temp[output] = Absent THEN <<>> ELSE temp[output])
    <3>1. out_stream \in File
      BY DEF TypeOK
    <3>2. CASE Refuses("open") /\ UNCHANGED out_stream
      BY <3>2 DEF Refuses
    <3>3. CASE out_stream' = [out_stream EXCEPT !.messages =
                                IF temp[output] = Absent THEN <<>> ELSE temp[output]]
      BY <3>1, <3>3 DEF File
    <3> QED
      BY <1>8, <3>2, <3>3 DEF CopyTemp
  <2>4. unopened = {} => (IF temp[output] = Absent THEN <<>> ELSE temp[output]) \in Parts(tmp_output)
    BY <2>1, <2>2, PartsOfSeq DEF StreamsInv
  <2>5. failed \subseteq {"remove"} =>
          (IF temp[output] = Absent THEN <<>> ELSE temp[output]) = tmp_output
    <3>1. tmp_output # Absent
      BY <2>2, PbfIoAssumption
    <3> QED
      BY <2>1, <3>1 DEF StreamsInv
  <2>6. unopened' = {} => out_stream'.messages \in Parts(tmp_output')
    BY <2>1, <2>2, <2>3, <2>4 DEF StreamsInv
  <2> QED
    BY <2>1, <2>2, <2>3, <2>5, <2>6 DEF StreamsInv
<1>9. CASE CleanupTempFile
  BY <1>9 DEF CleanupTempFile, RemoveTemp, Refuses, Goto, End, StreamsInv
<1>10. CASE CloseStreams
  BY <1>10 DEF CloseStreams, Refuses, End, StreamsInv
<1>11. CASE Rescue
  BY <1>11 DEF Rescue, Refuses, End, StreamsInv, UnsupportedFileTypeCode, EmptyFile
<1>12. CASE SpillTemp
  <2>1. PICK n \in 1..Len(tmp_output) : temp' = [temp EXCEPT ![output] = SubSeq(tmp_output, 1, n)]
    BY <1>12 DEF SpillTemp
  <2>2. n \in 0..Len(tmp_output) /\ temp'[output] = SubSeq(tmp_output, 1, n)
    BY <2>1 DEF TypeOK
  <2>3. temp'[output] \in Parts(tmp_output)
    BY <2>2 DEF Parts
  <2> QED
    BY <1>12, <2>3 DEF SpillTemp, StreamsInv, EmptyFile
<1>13. CASE SpillOutput
  BY <1>13 DEF SpillOutput, StreamsInv
<1>14. CASE Kill
  BY <1>14 DEF Kill, End, StreamsInv
<1>15. CASE UNCHANGED vars
  BY <1>15 DEF vars, StreamsInv
<1> QED
  BY <1>1, <1>2, <1>3, <1>4, <1>5, <1>6, <1>7, <1>8, <1>9, <1>10, <1>11, <1>12, <1>13,
     <1>14, <1>15 DEF Next, Step

\* The output is empty until there is a header to write, then a beginning of what it
\* is to hold; the temporary file is gone when Run returns.
DiskInv ==
  /\ (pc \in {"ReadHeaders", "CopyMessages", "WriteHeader", "Rescue"} \/ Refused)
       /\ "output" \notin unopened => disk[output] = EmptyFile
  /\ out_stream.header # NoHeader /\ unopened = {} => disk[output] \in Beginnings(Whole)
  /\ (pc = "CloseStreams" \/ Ok \/ Refused) /\ "remove" \notin failed => temp[output] = Absent
  /\ Ok /\ failed \subseteq {"remove"} => disk[output] = out_stream

\* Nothing has been published before the first run.
LEMMA InitDiskInv == Init => DiskInv
  BY DEF Init, DiskInv, EmptyFile, Ok, Refused

\* Once there is a header in it, the output stream is a beginning of the whole.
LEMMA StreamBeginsWhole ==
  ASSUME TypeOK, StreamsInv, out_stream.header # NoHeader, unopened = {}
  PROVE  out_stream \in Beginnings(Whole) /\ Whole \in File
<1>1. out_stream.messages \in Parts(tmp_output) /\ out_stream \in File /\ tmp_output \in Seq(Message)
  BY DEF StreamsInv, TypeOK
<1>2. Whole.messages = tmp_output /\ out_stream = [Whole EXCEPT !.messages = out_stream.messages]
  BY <1>1 DEF Whole, File
<1> QED
  BY <1>1, <1>2 DEF Beginnings, Whole, File

\* Every step, a spill included, leaves nothing or a beginning of the output on
\* the disk once the output was truncated.
LEMMA NextDiskInv == TypeOK /\ StreamsInv /\ DiskInv /\ [Next]_vars => DiskInv'
<1> SUFFICES ASSUME TypeOK, StreamsInv, DiskInv, [Next]_vars PROVE DiskInv'
  OBVIOUS
<1> USE DEF args, headers, copying, faults, Ok, Refused
<1>1. ASSUME NEW command \in Commands, Invoke(command) PROVE DiskInv'
  BY <1>1 DEF Invoke, DiskInv, EmptyFile
<1>2. CASE LoadArgs
  BY <1>2 DEF LoadArgs, Terminate, End, Goto, DiskInv, Whole
<1>3. CASE OpenStreams
  <2>1. "output" \notin unopened' => disk'[output'] = EmptyFile
    BY <1>3 DEF OpenStreams, TypeOK
  <2> QED
    BY <1>3, <2>1 DEF OpenStreams, StreamsInv, Goto, DiskInv, EmptyFile
<1>4. CASE ReadHeaders
  <2>1. CASE Terminate
    BY <2>1 DEF Terminate, End, DiskInv, Whole
  <2>2. CASE ThrowUnsupported
    BY <1>4, <2>2 DEF ReadHeaders, ThrowUnsupported, Goto, DiskInv, Whole
  <2>3. ASSUME NEW header, AcceptHeader(header) PROVE DiskInv'
    BY <2>3 DEF AcceptHeader, DiskInv, Whole
  <2>4. CASE Goto("CopyMessages") /\
             UNCHANGED <<disk, temp, args, headers, j, seen_ids, total_written, tmp_output,
                         out_stream, before, faults, runs>>
    BY <1>4, <2>4 DEF ReadHeaders, Goto, DiskInv, Whole
  <2> QED
    BY <1>4, <2>1, <2>2, <2>3, <2>4 DEF ReadHeaders, ReadHeader
<1>5. CASE CopyMessages
  <2>1. CASE Terminate
    BY <2>1 DEF Terminate, End, DiskInv, Whole
  <2>2. CASE ThrowUnsupported
    BY <1>5, <2>2 DEF CopyMessages, ThrowUnsupported, Goto, DiskInv, Whole
  <2>3. ASSUME NEW message, CopyMessage(message) PROVE DiskInv'
    <3>1. out_stream' = EmptyFile
      BY <1>5, <2>3 DEF CopyMessages, CopyMessage, StreamsInv
    <3> QED
      BY <1>5, <2>3, <3>1 DEF CopyMessages, CopyMessage, DiskInv, EmptyFile
  <2>4. CASE NextInput
    BY <2>4 DEF NextInput, DiskInv, Whole
  <2> QED
    BY <1>5, <2>1, <2>2, <2>3, <2>4 DEF CopyMessages
<1>6. CASE CloseTemp
  BY <1>6 DEF CloseTemp, Goto, StreamsInv, DiskInv, EmptyFile
<1>7. CASE WriteHeader
  <2>1. CASE Terminate
    BY <2>1 DEF Terminate, End, DiskInv, Whole
  <2>2. CASE Goto("CopyTemp") /\ UNCHANGED <<disk, temp, args, headers, copying, before, faults, runs>>
    BY <1>7, <2>2 DEF WriteHeader, Goto, DiskInv, Beginnings
  <2> QED
    BY <1>7, <2>1, <2>2 DEF WriteHeader
<1>8. CASE CopyTemp
  <2>1. out_stream'.header = out_stream.header
    BY <1>8 DEF CopyTemp, TypeOK, File
  <2>2. Whole' = Whole
    BY <1>8, <2>1 DEF CopyTemp, Whole
  <2> QED
    BY <1>8, <2>1, <2>2 DEF CopyTemp, Goto, DiskInv
<1>9. CASE CleanupTempFile
  <2>1. "remove" \notin failed' => temp'[output'] = Absent
    BY <1>9 DEF CleanupTempFile, RemoveTemp, Refuses, TypeOK
  <2>2. /\ pc = "CleanupTempFile" /\ pc' \in {"ended", "CloseStreams"}
        /\ pc' = "ended" => exit' = "terminated"
        /\ UNCHANGED <<disk, output, out_stream, unopened, tmp_output>> /\ Whole' = Whole
    BY <1>9 DEF CleanupTempFile, Goto, End, Whole
  <2> QED
    BY <2>1, <2>2 DEF DiskInv
<1>10. CASE CloseStreams
  <2>1. /\ pc = "CloseStreams" /\ pc' = "ended" /\ exit' = "kOk" /\ Whole' = Whole
        /\ UNCHANGED <<temp, output, out_stream, unopened, tmp_output>> /\ failed \subseteq failed'
    BY <1>10 DEF CloseStreams, End, Refuses, Whole
  <2>2. out_stream.header # NoHeader /\ out_stream \in File
    BY <2>1 DEF StreamsInv, TypeOK
  <2>3. ASSUME "output" \notin unopened PROVE disk'[output] \in Beginnings(out_stream)
    <3>1. out_stream # EmptyFile
      BY <2>2 DEF EmptyFile
    <3>2. \E part \in Beginnings(out_stream) : disk' = [disk EXCEPT ![output] = part]
      BY <1>10, <2>2, <2>3, <3>1, BeginningsOfFile DEF CloseStreams, FlushOutput
    <3> QED
      BY <3>2 DEF TypeOK
  <2>4. ASSUME unopened = {} PROVE disk'[output] \in Beginnings(Whole)
    BY <2>1, <2>2, <2>3, <2>4, StreamBeginsWhole, BeginningsTransitive
  <2>5. ASSUME failed' \subseteq {"remove"} PROVE disk'[output] = out_stream
    <3>1. "output" \notin unopened /\ FlushOutput
      BY <1>10, <2>1, <2>5 DEF CloseStreams, Refuses, StreamsInv
    <3> QED
      BY <2>2, <3>1 DEF FlushOutput, EmptyFile, TypeOK
  <2> QED
    BY <2>1, <2>4, <2>5 DEF DiskInv
<1>11. CASE Rescue
  <2>1. /\ pc = "Rescue" /\ pc' = "ended" /\ exit' = "kGeneralError"
        /\ UNCHANGED <<output, out_stream, unopened, tmp_output>>
    BY <1>11 DEF Rescue, End, UnsupportedFileTypeCode
  <2>2. out_stream = EmptyFile /\ disk' = disk
    BY <1>11, <2>1 DEF Rescue, StreamsInv, FlushOutput, TypeOK
  <2>3. "remove" \notin failed' => temp'[output] = Absent
    BY <1>11 DEF Rescue, Refuses, TypeOK
  <2> QED
    BY <2>1, <2>2, <2>3 DEF DiskInv, EmptyFile
<1>12. CASE SpillTemp
  BY <1>12 DEF SpillTemp, DiskInv, Whole
<1>13. CASE SpillOutput
  <2>1. PICK n \in 0..Len(out_stream.messages) :
          disk' = [disk EXCEPT ![output] =
            [out_stream EXCEPT !.messages = SubSeq(out_stream.messages, 1, n)]]
    BY <1>13 DEF SpillOutput
  <2>2. /\ pc \in {"CopyTemp", "CleanupTempFile", "CloseStreams"} /\ Whole' = Whole
        /\ UNCHANGED <<temp, pc, output, out_stream, unopened, failed>>
    BY <1>13 DEF SpillOutput, Whole
  <2>3. out_stream.header # NoHeader /\ out_stream \in File
    BY <2>2 DEF StreamsInv, TypeOK
  <2>4. disk'[output] \in Beginnings(out_stream)
    BY <2>1 DEF TypeOK, Beginnings, Parts
  <2>5. unopened = {} => disk'[output] \in Beginnings(Whole)
    BY <2>3, <2>4, StreamBeginsWhole, BeginningsTransitive
  <2> QED
    BY <2>2, <2>5 DEF DiskInv
<1>14. CASE Kill
  BY <1>14 DEF Kill, End, DiskInv, Whole
<1>15. CASE UNCHANGED vars
  BY <1>15 DEF vars, DiskInv, Whole
<1> QED
  BY <1>1, <1>2, <1>3, <1>4, <1>5, <1>6, <1>7, <1>8, <1>9, <1>10, <1>11, <1>12, <1>13,
     <1>14, <1>15 DEF Next, Step

\* The streams and the disk agree in every state: the invariant that the theorems
\* about the output follow from.
THEOREM StreamsAndDisk == Spec => [](TypeOK /\ StreamsInv /\ DiskInv)
<1>1. Init => TypeOK /\ StreamsInv /\ DiskInv
  BY InitTypeOK, InitStreamsInv, InitDiskInv
<1>2. TypeOK /\ StreamsInv /\ DiskInv /\ [Next]_vars => (TypeOK /\ StreamsInv /\ DiskInv)'
  BY NextTypeOK, NextStreamsInv, NextDiskInv
<1> QED
  BY <1>1, <1>2, PTL DEF Spec

\* What is in the output at any moment is a beginning of what its header counts,
\* and all of it after kOk: no reader is misled by a combine that was killed.
THEOREM OutputBeginnings == Spec => []OutputIsBeginning
<1>1. TypeOK /\ StreamsInv /\ DiskInv => OutputIsBeginning
  <2>1. ASSUME TypeOK, StreamsInv, DiskInv, Ok, failed \subseteq {"remove"}
        PROVE  out_stream.header # NoHeader /\ disk[output] = Whole
    BY <2>1 DEF StreamsInv, DiskInv, TypeOK, File, Whole
  <2> QED
    BY <2>1 DEF StreamsInv, DiskInv, OutputIsBeginning
<1> QED
  BY <1>1, StreamsAndDisk, PTL

\* Neither return of Run leaves a temporary file, whatever earlier runs left.
THEOREM TempRemoved == Spec => []NoTempAfterReturn
<1>1. DiskInv => NoTempAfterReturn
  BY DEF DiskInv, NoTempAfterReturn
<1> QED
  BY <1>1, StreamsAndDisk, PTL

\* A refused run leaves nothing of what it read in the output.
THEOREM RefusalEmpties == Spec => []RefusedRunLeavesEmptyOutput
<1>1. DiskInv => RefusedRunLeavesEmptyOutput
  BY DEF DiskInv, RefusedRunLeavesEmptyOutput
<1> QED
  BY <1>1, StreamsAndDisk, PTL

-----------------------------------------------------------------------------
(* The OpenAlex ids.                                                       *)

\* Every id copied is remembered, which is why the next one can be compared with
\* seen_ids only.
IdsInv ==
  file_type \in OpenAlexTypes =>
    /\ \A m \in DOMAIN tmp_output : tmp_output[m].id \in seen_ids \cup {NoId}
    /\ \A m, n \in DOMAIN tmp_output :
         tmp_output[m].id = tmp_output[n].id /\ m # n => tmp_output[m].id = NoId

\* There is no message before the first run.
LEMMA InitIdsInv == Init => IdsInv
  BY DEF Init, IdsInv

\* Appending a message that Copies lets through keeps the ids apart.
LEMMA CopyMessageIdsInv ==
  ASSUME TypeOK, IdsInv, NEW message \in Message, CopyMessage(message)
  PROVE  IdsInv'
<1> SUFFICES ASSUME file_type \in OpenAlexTypes PROVE IdsInv'
  BY DEF CopyMessage, headers, IdsInv
<1>1. seen_ids' = seen_ids \cup ({message.id} \ {NoId})
  BY DEF CopyMessage, SeenWith
<1>2. CASE ~Copies(message)
  BY <1>1, <1>2 DEF CopyMessage, headers, IdsInv
<1>3. CASE Copies(message)
  <2>1. tmp_output' = Append(tmp_output, message) /\ tmp_output \in Seq(Message)
    BY <1>3 DEF CopyMessage, TypeOK
  <2>2. message.id = NoId \/ message.id \notin seen_ids
    BY <1>3 DEF Copies
  <2>3. /\ DOMAIN tmp_output' = 1..(Len(tmp_output) + 1)
        /\ DOMAIN tmp_output = 1..Len(tmp_output) /\ Len(tmp_output) \in Nat
        /\ \A m \in DOMAIN tmp_output : tmp_output'[m] = tmp_output[m]
        /\ tmp_output'[Len(tmp_output) + 1] = message
    BY <2>1
  <2>4. \A m \in DOMAIN tmp_output' : m \in DOMAIN tmp_output \/ m = Len(tmp_output) + 1
    BY <2>3
  <2>5. \A m \in DOMAIN tmp_output' : tmp_output'[m].id \in seen_ids' \cup {NoId}
    BY <1>1, <2>3, <2>4 DEF IdsInv
  <2>6. ASSUME NEW m \in DOMAIN tmp_output', NEW n \in DOMAIN tmp_output',
               tmp_output'[m].id = tmp_output'[n].id, m # n
        PROVE  tmp_output'[m].id = NoId
    <3>1. CASE m \in DOMAIN tmp_output /\ n \in DOMAIN tmp_output
      BY <2>3, <2>6, <3>1 DEF IdsInv
    <3>2. CASE m \in DOMAIN tmp_output /\ n = Len(tmp_output) + 1
      BY <2>2, <2>3, <2>6, <3>2 DEF IdsInv
    <3>3. CASE m = Len(tmp_output) + 1 /\ n \in DOMAIN tmp_output
      BY <2>2, <2>3, <2>6, <3>3 DEF IdsInv
    <3> QED
      BY <2>4, <2>6, <3>1, <3>2, <3>3
  <2> QED
    BY <2>5, <2>6 DEF IdsInv
<1> QED
  BY <1>2, <1>3

\* Every step keeps the ids of the messages written apart.
LEMMA NextIdsInv == TypeOK /\ StreamsInv /\ IdsInv /\ [Next]_vars => IdsInv'
<1> SUFFICES ASSUME TypeOK, StreamsInv, IdsInv, [Next]_vars PROVE IdsInv'
  OBVIOUS
<1> USE DEF args, headers, copying, faults
<1>1. ASSUME NEW command \in Commands, Invoke(command) PROVE IdsInv'
  BY <1>1 DEF Invoke, IdsInv
<1>2. CASE UNCHANGED <<file_type, tmp_output, seen_ids>>
  BY <1>2 DEF IdsInv
<1>3. CASE ReadHeaders
  <2>1. tmp_output' = <<>>
    BY <1>3 DEF ReadHeaders, ReadHeader, Terminate, ThrowUnsupported, AcceptHeader, StreamsInv
  <2> QED
    BY <2>1 DEF IdsInv
<1>4. CASE CopyMessages
  <2>1. ASSUME NEW read \in ReadGenericMessage(Content(i), j + 1, file_type),
               read.raise = Nothing, CopyMessage(read.value)
        PROVE  IdsInv'
    <3>1. read.value \in Message
      BY <1>4, <2>1, MessageRead
    <3> QED
      BY <2>1, <3>1, CopyMessageIdsInv
  <2>2. CASE Terminate \/ ThrowUnsupported \/ NextInput
    BY <1>2, <2>2 DEF Terminate, ThrowUnsupported, NextInput
  <2> QED
    BY <1>4, <2>1, <2>2 DEF CopyMessages
<1>5. CASE LoadArgs \/ OpenStreams \/ CloseTemp \/ WriteHeader \/ CopyTemp \/ CleanupTempFile
           \/ CloseStreams \/ Rescue
  BY <1>2, <1>5 DEF LoadArgs, OpenStreams, CloseTemp, WriteHeader, CopyTemp, CleanupTempFile,
                    CloseStreams, Rescue, Terminate
<1>6. CASE SpillTemp \/ SpillOutput \/ Kill \/ UNCHANGED vars
  BY <1>2, <1>6 DEF SpillTemp, SpillOutput, Kill, vars
<1> QED
  BY <1>1, <1>3, <1>4, <1>5, <1>6 DEF Next, Step

\* The temporary stream of an OpenAlex combination never repeats an id, and the
\* predicate has seen every id in it.
THEOREM IdsApart == Spec => [](TypeOK /\ StreamsInv /\ DiskInv /\ IdsInv)
<1>1. Init => TypeOK /\ StreamsInv /\ DiskInv /\ IdsInv
  BY InitTypeOK, InitStreamsInv, InitDiskInv, InitIdsInv
<1>2. TypeOK /\ StreamsInv /\ DiskInv /\ IdsInv /\ [Next]_vars
        => (TypeOK /\ StreamsInv /\ DiskInv /\ IdsInv)'
  BY NextTypeOK, NextStreamsInv, NextDiskInv, NextIdsInv
<1> QED
  BY <1>1, <1>2, PTL DEF Spec

\* No OpenAlex output repeats an id, complete or not.
THEOREM IdsNotRepeated == Spec => []NoRepeatedIds
<1>1. TypeOK /\ StreamsInv /\ DiskInv /\ IdsInv => NoRepeatedIds
  <2> SUFFICES ASSUME TypeOK, DiskInv, IdsInv, unopened = {},
                      out_stream.header # NoHeader, file_type \in OpenAlexTypes,
                      NEW m \in DOMAIN disk[output].messages,
                      NEW n \in DOMAIN disk[output].messages,
                      disk[output].messages[m].id = disk[output].messages[n].id, m # n
               PROVE  disk[output].messages[m].id = NoId
    BY DEF NoRepeatedIds
  <2>1. tmp_output \in Seq(Message) /\ Whole.messages = tmp_output /\ Whole \in File
    <3>1. out_stream \in File /\ tmp_output \in Seq(Message)
      BY DEF TypeOK
    <3> QED
      BY <3>1 DEF Whole, File
  <2>2. disk[output].messages \in Parts(tmp_output)
    <3>1. disk[output] # EmptyFile
      <4>1. EmptyFile.messages = <<>> /\ DOMAIN <<>> = {}
        BY DEF EmptyFile
      <4> QED
        BY <4>1
    <3> QED
      BY <2>1, <3>1, BeginningsOfFile DEF DiskInv
  <2>3. PICK k \in 0..Len(tmp_output) : disk[output].messages = SubSeq(tmp_output, 1, k)
    BY <2>2 DEF Parts
  <2>4. /\ m \in DOMAIN tmp_output /\ disk[output].messages[m] = tmp_output[m]
        /\ n \in DOMAIN tmp_output /\ disk[output].messages[n] = tmp_output[n]
    BY <2>1, <2>3
  <2> QED
    BY <2>4 DEF IdsInv
<1> QED
  BY <1>1, IdsApart, PTL

-----------------------------------------------------------------------------
(* The inputs.                                                             *)

Lang(n) == before[inputs[n]].header.language

Accepted(n) ==
  /\ output # inputs[n] \/ "output" \in unopened
  /\ HasHeader(before[inputs[n]])
  /\ before[inputs[n]].header.type = file_type

LanguagesFollow(ns) ==
  file_type \in DumpTypes =>
    \A m, n \in ns : m < n /\ Lang(m) # LANGUAGE_UNSPECIFIED => Lang(n) = Lang(m)

Validated ==
  pc \in {"CopyMessages", "WriteHeader", "CopyTemp", "CleanupTempFile", "CloseStreams"} \/ Ok

(***************************************************************************)
(* What ReadHeaders has found out of the inputs before i, and keeps for    *)
(* all of them.  An input that is the output cannot be accepted: it was    *)
(* truncated before its header is read, unless it did not open, and then   *)
(* nothing is written to it either.                                        *)
(***************************************************************************)
InputsInv ==
  /\ \A f \in Files : f # output \/ "output" \in unopened => disk[f] = before[f]
  /\ pc \in {"LoadArgs", "OpenStreams"} =>
       i = 1 /\ language = LANGUAGE_UNSPECIFIED /\ disk = before
  /\ pc = "ReadHeaders" =>
       /\ i <= Len(inputs) + 1
       /\ i = 1 => language = LANGUAGE_UNSPECIFIED
       /\ i # 1 => file_type # "UNSPECIFIED"
       /\ \A n \in 1..(i - 1) : Accepted(n)
       /\ LanguagesFollow(1..(i - 1))
       /\ file_type \in DumpTypes =>
            \A n \in 1..(i - 1) : Lang(n) \in {language, LANGUAGE_UNSPECIFIED}
  /\ Validated => /\ \A n \in DOMAIN inputs : Accepted(n)
                  /\ LanguagesFollow(DOMAIN inputs)

\* No input has been validated before the first run.
LEMMA InitInputsInv == Init => InputsInv
  BY DEF Init, InputsInv, Validated, Ok

\* One more input is accepted.
LEMMA AcceptHeaderInputsInv ==
  ASSUME TypeOK, DiskInv, InputsInv, pc = "ReadHeaders", i <= Len(inputs),
         NEW read \in ReadPbfHeader(Content(i)), read.raise = Nothing,
         TypeMatches(read.value), LanguageMatches(read.value), AcceptHeader(read.value)
  PROVE  InputsInv'
<1> DEFINE header == read.value
<1>1. i \in DOMAIN inputs /\ inputs[i] \in Files
  BY DEF TypeOK
<1>2. /\ HasHeader(Content(i)) /\ header = Content(i).header
      /\ header.type \in FileTypes \ {"UNSPECIFIED", "UNNAMED"}
  <2>1. Content(i) \in File \cup {Absent}
    BY <1>1, ContentType
  <2> QED
    BY <2>1, ReadPbfHeaderReturns
<1>3. Content(i) = disk[inputs[i]]
  BY <1>2 DEF Content, HasHeader
<1>4. output # inputs[i] \/ "output" \in unopened
  <2>1. "output" \notin unopened => disk[output] = EmptyFile
    BY DEF DiskInv
  <2> QED
    BY <1>2, <1>3, <2>1 DEF HasHeader, EmptyFile
<1>5. before[inputs[i]] = Content(i)
  BY <1>1, <1>3, <1>4 DEF InputsInv
<1>6. /\ UNCHANGED <<disk, pc, inputs, output, before, unopened>>
      /\ i' = i + 1 /\ i \in Nat \ {0} /\ (1..(i' - 1)) = (1..(i - 1)) \cup {i}
      /\ i + 1 # 1 /\ i + 1 <= Len(inputs) + 1
  BY DEF AcceptHeader, args, headers, faults, TypeOK
<1>7. file_type' = header.type /\ (i # 1 => file_type' = file_type)
  BY DEF AcceptHeader, TypeMatches, InputsInv
<1>8. \A n \in 1..(i' - 1) : Accepted(n)'
  <2>1. ASSUME NEW n \in 1..(i - 1) PROVE Accepted(n)'
    <3>1. i # 1 /\ Accepted(n)
      BY <1>6 DEF InputsInv
    <3> QED
      BY <1>6, <1>7, <3>1 DEF Accepted
  <2>2. \A n : n = i => Accepted(n)'
    BY <1>2, <1>4, <1>5, <1>6, <1>7 DEF Accepted
  <2> QED
    BY <1>6, <2>1, <2>2
<1>9. ASSUME file_type' \in DumpTypes
      PROVE  /\ \A n \in 1..(i' - 1) : Lang(n) \in {language', LANGUAGE_UNSPECIFIED}
             /\ \A m, n \in 1..(i' - 1) :
                  m < n /\ Lang(m) # LANGUAGE_UNSPECIFIED => Lang(n) = Lang(m)
  <2>1. Lang(i) = header.language
    BY <1>2, <1>5 DEF Lang
  <2>2. /\ language \in {LANGUAGE_UNSPECIFIED, Lang(i)}
        /\ language' = IF language = LANGUAGE_UNSPECIFIED THEN Lang(i) ELSE language
    BY <1>7, <1>9, <2>1 DEF LanguageMatches, AcceptHeader
  <2>3. ASSUME NEW n \in 1..(i - 1)
        PROVE  Lang(n) \in {language, LANGUAGE_UNSPECIFIED}
    BY <1>6, <1>7, <1>9 DEF InputsInv
  <2>4. ASSUME NEW m \in 1..(i - 1), NEW n \in 1..(i - 1), m < n,
               Lang(m) # LANGUAGE_UNSPECIFIED
        PROVE  Lang(n) = Lang(m)
    BY <1>6, <1>7, <1>9, <2>4 DEF InputsInv, LanguagesFollow
  <2>5. ASSUME NEW m \in 1..(i - 1), Lang(m) # LANGUAGE_UNSPECIFIED
        PROVE  Lang(i) = Lang(m)
    BY <2>2, <2>3, <2>5
  <2>6. \A n \in 1..(i' - 1) : Lang(n) \in {language', LANGUAGE_UNSPECIFIED}
    BY <1>6, <2>2, <2>3
  <2>7. ASSUME NEW m \in 1..(i' - 1), NEW n \in 1..(i' - 1), m < n,
               Lang(m) # LANGUAGE_UNSPECIFIED
        PROVE  Lang(n) = Lang(m)
    <3>1. m \in 1..(i - 1) /\ (n \in 1..(i - 1) \/ n = i)
      BY <1>6, <2>7
    <3> QED
      BY <2>4, <2>5, <2>7, <3>1
  <2> QED
    BY <2>6, <2>7
<1>10. (\A n : Lang(n)' = Lang(n)) /\ ~Validated'
  BY <1>6 DEF Lang, Validated, Ok
<1>11. LanguagesFollow(1..(i - 1))'
  BY <1>9, <1>10 DEF LanguagesFollow
<1>12. \A f \in Files : f # output' \/ "output" \in unopened' => disk'[f] = before'[f]
  BY <1>6 DEF InputsInv
<1> QED
  BY <1>2, <1>6, <1>7, <1>8, <1>9, <1>10, <1>11, <1>12 DEF InputsInv

\* Every step keeps what is known of the inputs already validated.
LEMMA NextInputsInv == TypeOK /\ DiskInv /\ InputsInv /\ [Next]_vars => InputsInv'
<1> SUFFICES ASSUME TypeOK, DiskInv, InputsInv, [Next]_vars PROVE InputsInv'
  OBVIOUS
<1> USE DEF args, headers, copying, faults
<1>1. ASSUME NEW command \in Commands, Invoke(command) PROVE InputsInv'
  BY <1>1 DEF Invoke, InputsInv, Validated, Ok
<1>2. ASSUME UNCHANGED <<inputs, output, file_type, before, unopened>>,
             \A f \in Files : f # output \/ "output" \in unopened => disk'[f] = disk[f],
             Validated' => Validated, pc' \notin {"LoadArgs", "OpenStreams", "ReadHeaders"}
      PROVE  InputsInv'
  BY <1>2 DEF InputsInv, Validated, Ok, Accepted, LanguagesFollow, Lang
<1>3. CASE LoadArgs
  <2>1. CASE Terminate
    BY <1>2, <2>1 DEF Terminate, End, Validated, Ok
  <2>2. CASE Goto("OpenStreams") /\
             UNCHANGED <<disk, temp, args, headers, copying, out_stream, before, faults, runs>>
    BY <1>3, <2>2 DEF LoadArgs, Goto, InputsInv, Validated, Ok
  <2> QED
    BY <1>3, <2>1, <2>2 DEF LoadArgs
<1>4. CASE OpenStreams
  <2>1. i' = 1 /\ language' = LANGUAGE_UNSPECIFIED /\ (1..(i' - 1)) = {}
    BY <1>4 DEF OpenStreams, InputsInv
  <2>2. \A f \in Files : f # output' \/ "output" \in unopened' => disk'[f] = before'[f]
    BY <1>4 DEF OpenStreams, InputsInv, TypeOK
  <2>3. i' <= Len(inputs') + 1
    BY <1>4, <2>1 DEF OpenStreams, TypeOK
  <2> QED
    BY <1>4, <2>1, <2>2, <2>3 DEF OpenStreams, Goto, InputsInv, Validated, Ok, LanguagesFollow
<1>5. CASE ReadHeaders
  <2>1. CASE Terminate \/ ThrowUnsupported
    BY <1>2, <2>1 DEF Terminate, ThrowUnsupported, End, Goto, Validated, Ok
  <2>2. ASSUME i <= Len(inputs), NEW read \in ReadPbfHeader(Content(i)), read.raise = Nothing,
               TypeMatches(read.value), LanguageMatches(read.value), AcceptHeader(read.value)
        PROVE  InputsInv'
    BY <1>5, <2>2, AcceptHeaderInputsInv DEF ReadHeaders
  <2>3. CASE i > Len(inputs) /\ Goto("CopyMessages") /\
             UNCHANGED <<disk, temp, args, headers, j, seen_ids, total_written, tmp_output,
                         out_stream, before, faults, runs>>
    <3>1. (1..(i - 1)) = DOMAIN inputs
      BY <1>5, <2>3 DEF ReadHeaders, InputsInv, TypeOK
    <3>2. (\A n \in DOMAIN inputs : Accepted(n)) /\ LanguagesFollow(DOMAIN inputs)
      BY <1>5, <3>1 DEF ReadHeaders, InputsInv
    <3> QED
      BY <2>3, <3>2 DEF Goto, InputsInv, Accepted, LanguagesFollow, Lang
  <2> QED
    BY <1>5, <2>1, <2>2, <2>3 DEF ReadHeaders, ReadHeader
<1>6. CASE CopyMessages
  BY <1>2, <1>6 DEF CopyMessages, Terminate, ThrowUnsupported, CopyMessage, NextInput, End,
                    Goto, Validated, Ok
<1>7. CASE CloseTemp \/ WriteHeader \/ CopyTemp \/ CleanupTempFile
  BY <1>2, <1>7 DEF CloseTemp, WriteHeader, CopyTemp, CleanupTempFile, Terminate, End, Goto,
                    Validated, Ok
<1>8. CASE CloseStreams \/ Rescue
  <2>1. \A f \in Files : f # output \/ "output" \in unopened => disk'[f] = disk[f]
    BY <1>8 DEF CloseStreams, Rescue, FlushOutput, TypeOK
  <2> QED
    BY <1>2, <1>8, <2>1 DEF CloseStreams, Rescue, End, UnsupportedFileTypeCode, Validated, Ok
<1>9. CASE SpillTemp
  BY <1>2, <1>9 DEF SpillTemp, Validated, Ok
<1>10. CASE SpillOutput
  <2>1. \A f \in Files : f # output \/ "output" \in unopened => disk'[f] = disk[f]
    BY <1>10 DEF SpillOutput, TypeOK
  <2> QED
    BY <1>2, <1>10, <2>1 DEF SpillOutput, Validated, Ok
<1>11. CASE Kill
  BY <1>2, <1>11 DEF Kill, End, Validated, Ok
<1>12. CASE UNCHANGED vars
  BY <1>12 DEF vars, InputsInv, Validated, Ok, Accepted, LanguagesFollow, Lang
<1> QED
  BY <1>1, <1>3, <1>4, <1>5, <1>6, <1>7, <1>8, <1>9, <1>10, <1>11, <1>12 DEF Next, Step

\* What ReadHeaders found out of the inputs stays true until the run has ended.
THEOREM InputsKnown == Spec => [](TypeOK /\ StreamsInv /\ DiskInv /\ InputsInv)
<1>1. Init => TypeOK /\ StreamsInv /\ DiskInv /\ InputsInv
  BY InitTypeOK, InitStreamsInv, InitDiskInv, InitInputsInv
<1>2. TypeOK /\ StreamsInv /\ DiskInv /\ InputsInv /\ [Next]_vars
        => (TypeOK /\ StreamsInv /\ DiskInv /\ InputsInv)'
  BY NextTypeOK, NextStreamsInv, NextDiskInv, NextInputsInv
<1> QED
  BY <1>1, <1>2, PTL DEF Spec

\* Nothing is copied before every input has been found to have a header of the
\* one type, and in dump files of the language the first of them states.
THEOREM HeadersAgree == Spec => []AcceptedHeadersAgree
<1>1. InputsInv => AcceptedHeadersAgree
  BY DEF InputsInv, AcceptedHeadersAgree, Validated, Accepted, LanguagesFollow, Lang
<1> QED
  BY <1>1, InputsKnown, PTL

\* A run that returns kOk has changed none of its inputs: a run whose output is
\* one of its inputs has destroyed it, or could not open it; after the former it
\* cannot return kOk.
THEOREM InputsIntact == Spec => []OkLeavesInputsIntact
<1>1. TypeOK /\ InputsInv => OkLeavesInputsIntact
  BY DEF TypeOK, InputsInv, OkLeavesInputsIntact, Validated, Accepted
<1> QED
  BY <1>1, InputsKnown, PTL
=============================================================================
