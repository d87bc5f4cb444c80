----------------------------- MODULE PbfIo_proofs -----------------------------
(***************************************************************************)
(* What the calls of io.cc return, and facts about beginnings of sequences *)
(* and of files: for every set of files, languages, ids and bodies.        *)
(***************************************************************************)
EXTENDS PbfIo, SequenceTheorems, TLAPS

-----------------------------------------------------------------------------
(* What the calls of io.cc return.                                         *)

\* A header that ReadPbfHeader returns is the file's, and of a type it knows.
LEMMA ReadPbfHeaderReturns ==
  ASSUME NEW content \in File \cup {Absent}, NEW read \in ReadPbfHeader(content)
  PROVE  /\ read.raise \in Raises
         /\ read.raise = Nothing =>
              /\ HasHeader(content) /\ read.value = content.header
              /\ read.value \in Header
              /\ read.value.type \in FileTypes \ {"UNSPECIFIED", "UNNAMED"}
<1>1. PICK result \in ReadMessage(HasHeader(content), content.header, DefaultHeader) :
        read = CheckHeader(result)
  BY DEF ReadPbfHeader
<1>2. CASE ~HasHeader(content)
  <2>1. result \in {Value(DefaultHeader), Raise(Uncaught, DefaultHeader)}
    BY <1>2 DEF ReadMessage
  <2>2. read.raise \in {UnsupportedFileType, Uncaught}
    BY <1>1, <2>1 DEF CheckHeader, Value, Raise, DefaultHeader, Nothing, Uncaught,
                      UnsupportedFileType
  <2> QED
    BY <2>2 DEF Raises, Nothing, Uncaught, UnsupportedFileType
<1>3. CASE HasHeader(content)
  <2>1. content.header \in Header
    BY <1>3 DEF HasHeader, File
  <2>2. result = Value(content.header)
    BY <1>3 DEF ReadMessage
  <2> QED
    BY <1>1, <1>3, <2>1, <2>2 DEF CheckHeader, Value, Raise, Header, Nothing, Uncaught,
                             UnsupportedFileType, Raises
<1> QED
  BY <1>2, <1>3

\* A message that ReadGenericMessage returns is one of the file's or a default one.
LEMMA ReadGenericMessageReturns ==
  ASSUME NEW content \in File \cup {Absent}, NEW n \in Nat \ {0}, NEW type,
         NEW read \in ReadGenericMessage(content, n, type)
  PROVE  /\ read.raise \in Raises
         /\ read.raise = Nothing => read.value \in Message
<1>1. DefaultMessage \in Message
  BY DEF DefaultMessage, Message, NoId, NoBody
<1>2. HasMessage(content, n) => content.messages[n] \in Message
  BY DEF HasMessage, File
<1> QED
  BY <1>1, <1>2 DEF ReadGenericMessage, ReadMessage, Value, Raise, Raises, Nothing, Uncaught,
                    UnsupportedFileType

\* The file ofstream creates or truncates is a file.
LEMMA EmptyFileType == EmptyFile \in File
  BY DEF EmptyFile, File

-----------------------------------------------------------------------------
(* Beginnings of sequences and of files.                                   *)

\* The parts of a sequence are sequences; it is one of them, and so is <<>>.
LEMMA PartsOfSeq ==
  ASSUME NEW S, NEW s \in Seq(S)
  PROVE  Parts(s) \subseteq Seq(S) /\ s \in Parts(s) /\ <<>> \in Parts(s)
<1>1. ASSUME NEW part \in Parts(s) PROVE part \in Seq(S)
  <2>1. PICK n \in 0..Len(s) : part = SubSeq(s, 1, n)
    BY DEF Parts
  <2> QED
    BY <2>1
<1>2. s = SubSeq(s, 1, Len(s)) /\ <<>> = SubSeq(s, 1, 0)
  OBVIOUS
<1>3. Len(s) \in 0..Len(s) /\ 0 \in 0..Len(s)
  OBVIOUS
<1> QED
  BY <1>1, <1>2, <1>3 DEF Parts

\* What is part of a sequence stays part of it when something is appended.
LEMMA PartsOfAppend ==
  ASSUME NEW S, NEW s \in Seq(S), NEW e \in S, NEW part \in Parts(s)
  PROVE  part \in Parts(Append(s, e))
<1>1. PICK n \in 0..Len(s) : part = SubSeq(s, 1, n)
  BY DEF Parts
<1>2. SubSeq(s, 1, n) = SubSeq(Append(s, e), 1, n) /\ n \in 0..Len(Append(s, e))
  OBVIOUS
<1> QED
  BY <1>1, <1>2 DEF Parts

\* Of two parts of a sequence, the shorter is part of the longer.
LEMMA PartsNested ==
  ASSUME NEW S, NEW s \in Seq(S), NEW p \in Parts(s), NEW q \in Parts(s), Len(p) <= Len(q)
  PROVE  p \in Parts(q)
<1>1. PICK m \in 0..Len(s) : p = SubSeq(s, 1, m)
  BY DEF Parts
<1>2. PICK n \in 0..Len(s) : q = SubSeq(s, 1, n)
  BY DEF Parts
<1>3. Len(p) = m /\ Len(q) = n
  BY <1>1, <1>2
<1>4. m <= n
  BY <1>3
<1>5. SubSeq(SubSeq(s, 1, n), 1, m) = SubSeq(s, 1, m) /\ m \in 0..Len(q)
  BY <1>3, <1>4
<1> QED
  BY <1>1, <1>2, <1>5 DEF Parts

\* A part of a part is a part.
LEMMA PartsTransitive ==
  ASSUME NEW S, NEW s \in Seq(S), NEW q \in Parts(s), NEW p \in Parts(q)
  PROVE  p \in Parts(s)
<1>1. PICK n \in 0..Len(s) : q = SubSeq(s, 1, n)
  BY DEF Parts
<1>2. PICK m \in 0..Len(q) : p = SubSeq(q, 1, m)
  BY DEF Parts
<1>3. Len(q) = n
  BY <1>1
<1>4. SubSeq(SubSeq(s, 1, n), 1, m) = SubSeq(s, 1, m) /\ m \in 0..Len(s)
  BY <1>3
<1> QED
  BY <1>1, <1>2, <1>4 DEF Parts

\* The beginnings of a file are files; the empty file and the file are among them,
\* and a beginning that has a header has the file's, and part of its messages.
LEMMA BeginningsOfFile ==
  ASSUME NEW file \in File
  PROVE  /\ Beginnings(file) \subseteq File
         /\ EmptyFile \in Beginnings(file) /\ file \in Beginnings(file)
         /\ \A b \in Beginnings(file) :
              \/ b = EmptyFile
              \/ b.header = file.header /\ b.messages \in Parts(file.messages)
<1>1. file.messages \in Seq(Message)
  BY DEF File
<1>2. Parts(file.messages) \subseteq Seq(Message) /\ file.messages \in Parts(file.messages)
  BY <1>1, PartsOfSeq
<1>3. EmptyFile \in File
  BY DEF EmptyFile, File
<1>4. ASSUME NEW part \in Parts(file.messages), NEW b, b = [file EXCEPT !.messages = part]
      PROVE  b \in File /\ b.header = file.header /\ b.messages = part
  BY <1>2, <1>4 DEF File
<1>5. file \in Beginnings(file)
  <2>1. [file EXCEPT !.messages = file.messages] = file
    BY DEF File
  <2> QED
    BY <1>2, <2>1 DEF Beginnings
<1>6. ASSUME NEW b \in Beginnings(file)
      PROVE  /\ b \in File
             /\ \/ b = EmptyFile
                \/ b.header = file.header /\ b.messages \in Parts(file.messages)
  <2>1. CASE b = EmptyFile
    BY <1>3, <2>1
  <2>2. CASE b # EmptyFile
    <3>1. PICK part \in Parts(file.messages) : b = [file EXCEPT !.messages = part]
      BY <2>2 DEF Beginnings
    <3> QED
      BY <3>1, <1>4
  <2> QED
    BY <2>1, <2>2
<1>7. EmptyFile \in Beginnings(file)
  BY DEF Beginnings
<1> QED
  BY <1>5, <1>6, <1>7

\* Of an empty file there is only one beginning.
LEMMA BeginningsOfEmpty == Beginnings(EmptyFile) = {EmptyFile}
<1>1. Parts(<<>>) = {<<>>}
  <2>1. <<>> \in Seq(Message) /\ Len(<<>>) = 0
    OBVIOUS
  <2>2. ASSUME NEW n \in 0..Len(<<>>) PROVE SubSeq(<<>>, 1, n) = <<>>
    <3>1. n = 0
      BY <2>1
    <3>2. SubSeq(<<>>, 1, 0) \in Seq(Message) /\ Len(SubSeq(<<>>, 1, 0)) = 0
      BY <2>1
    <3> QED
      BY <3>1, <3>2
  <2>3. ASSUME NEW part \in Parts(<<>>) PROVE part = <<>>
    <3>1. PICK n \in 0..Len(<<>>) : part = SubSeq(<<>>, 1, n)
      BY DEF Parts
    <3> QED
      BY <2>2, <3>1
  <2> QED
    BY <2>1, <2>3, PartsOfSeq
<1>2. EmptyFile.messages = <<>> /\ [EmptyFile EXCEPT !.messages = <<>>] = EmptyFile
  BY DEF EmptyFile
<1>3. ASSUME NEW b \in Beginnings(EmptyFile) PROVE b = EmptyFile
  <2>1. CASE b # EmptyFile
    <3>1. PICK part \in Parts(<<>>) : b = [EmptyFile EXCEPT !.messages = part]
      BY <1>2, <2>1 DEF Beginnings
    <3> QED
      BY <1>1, <1>2, <3>1
  <2> QED
    BY <2>1
<1>4. EmptyFile \in Beginnings(EmptyFile)
  BY DEF Beginnings
<1> QED
  BY <1>3, <1>4

\* What has a header and more of a file than an earlier beginning had, begins with it.
LEMMA BeginningsNested ==
  ASSUME NEW file \in File, NEW b \in Beginnings(file), NEW c \in Beginnings(file),
         b # EmptyFile => c # EmptyFile /\ Len(b.messages) <= Len(c.messages)
  PROVE  b \in Beginnings(c)
<1>1. c \in File
  BY BeginningsOfFile
<1>2. CASE b = EmptyFile
  BY <1>1, <1>2, BeginningsOfFile
<1>3. CASE b # EmptyFile
  <2>1. PICK p \in Parts(file.messages) : b = [file EXCEPT !.messages = p]
    BY <1>3 DEF Beginnings
  <2>2. PICK q \in Parts(file.messages) : c = [file EXCEPT !.messages = q]
    BY <1>3 DEF Beginnings
  <2>3. b.messages = p /\ c.messages = q
    BY <2>1, <2>2 DEF File
  <2>4. p \in Parts(q)
    BY <1>3, <2>3, PartsNested DEF File
  <2>5. b = [c EXCEPT !.messages = p]
    BY <2>1, <2>2 DEF File
  <2> QED
    BY <2>3, <2>4, <2>5 DEF Beginnings
<1> QED
  BY <1>2, <1>3

\* A beginning of a beginning is a beginning.
LEMMA BeginningsTransitive ==
  ASSUME NEW file \in File, NEW c \in Beginnings(file), NEW b \in Beginnings(c)
  PROVE  b \in Beginnings(file)
<1>1. CASE b = EmptyFile
  BY <1>1, BeginningsOfFile
<1>2. CASE b # EmptyFile
  <2>1. c # EmptyFile
    BY <1>2, BeginningsOfEmpty
  <2>2. PICK q \in Parts(file.messages) : c = [file EXCEPT !.messages = q]
    BY <2>1 DEF Beginnings
  <2>3. c.messages = q
    BY <2>2 DEF File
  <2>4. PICK p \in Parts(q) : b = [c EXCEPT !.messages = p]
    BY <1>2, <2>3 DEF Beginnings
  <2>5. p \in Parts(file.messages)
    BY <2>2, <2>4, PartsTransitive DEF File
  <2>6. b = [file EXCEPT !.messages = p]
    BY <2>2, <2>4 DEF File
  <2> QED
    BY <2>5, <2>6 DEF Beginnings
<1> QED
  BY <1>1, <1>2
=============================================================================
