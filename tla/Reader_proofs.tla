----------------------------- MODULE Reader_proofs ----------------------------
(***************************************************************************)
(* Proofs about Reader, for any files, any writer and any sizes; and about *)
(* FileSize, for any two sizes.                                            *)
(***************************************************************************)
EXTENDS Reader, PbfIo_proofs

Waiting == {"LoadArgs", "OpenFile", "ReadHeader"}
Reading == {"ReadMessages", "Finish"}

ReaderTypeOK ==
  /\ target \in Targets
  /\ file \in Beginnings(target) \cup {Absent}
  /\ command \in {"cat", "meta"}
  /\ pc \in Waiting \cup Reading \cup {"ended"}
  /\ opened \in BOOLEAN /\ eof \in BOOLEAN /\ torn \in BOOLEAN
  /\ header \in Header
  /\ read \in Seq(Message)

\* What has been read and printed, at each step.
PrintedInv ==
  /\ pc # "ended" => exit = "none"
  /\ pc \in Waiting => read = <<>> /\ printed = <<>> /\ ~eof
  /\ pc \in Reading =>
       /\ Len(read) <= header.count
       /\ printed = IF command = "cat" THEN <<header>> \o read ELSE <<>>
  /\ pc = "Finish" => Len(read) = header.count
  /\ OkAccountsForAll
  /\ MetaPrintsAllOrNothing

\* Until a read falls short, what was read are the first messages of the target.
FollowInv ==
  ~torn /\ ~eof =>
    /\ Len(read) <= Len(target.messages)
    /\ \A m \in 1..Len(read) : read[m] = target.messages[m]

-----------------------------------------------------------------------------
\* What a stream still has to give is what is on the disk of the file.
LEMMA ContentType ==
  ASSUME ReaderTypeOK
  PROVE  /\ target \in File
         /\ Content \in File \cup {Absent}
         /\ Content # Absent => Content = file /\ ~eof
<1>1. target \in File
  BY ReaderAssumption DEF ReaderTypeOK
<1>2. Beginnings(target) \subseteq File
  BY <1>1, BeginningsOfFile
<1> QED
  BY <1>1, <1>2 DEF ReaderTypeOK, Content

\* A message that can be read is one that can be written, torn or not.
LEMMA ReadNextReturns ==
  ASSUME ReaderTypeOK, NEW result \in ReadNext
  PROVE  result.raise = Nothing => result.value \in Message
<1>1. CASE torn /\ ~eof
  <2>1. PICK message \in Range(target.messages) \cup {DefaultMessage}, n \in {1, 2} :
          result \in ReadGenericMessage([messages |-> <<message>>], n, header.type)
    BY <1>1 DEF ReadNext
  <2>2. target.messages \in Seq(Message)
    BY ContentType DEF File
  <2>3. message \in Message
    <3>1. DOMAIN target.messages = 1..Len(target.messages)
          /\ \A m \in 1..Len(target.messages) : target.messages[m] \in Message
      BY <2>2
    <3>2. CASE message \in Range(target.messages)
      BY <3>1, <3>2 DEF Range
    <3>3. CASE message = DefaultMessage
      BY <3>3 DEF DefaultMessage, Message
    <3> QED
      BY <2>1, <3>2, <3>3
  <2>4. \/ result \in {Raise(UnsupportedFileType, DefaultMessage)}
        \/ result \in ReadMessage(HasMessage([messages |-> <<message>>], n), <<message>>[n], DefaultMessage)
    BY <2>1 DEF ReadGenericMessage
  <2>5. HasMessage([messages |-> <<message>>], n) => <<message>>[n] = message
    BY DEF HasMessage
  <2>6. DefaultMessage \in Message
    BY DEF DefaultMessage, Message, NoId, NoBody
  <2>7. CASE result \in {Raise(UnsupportedFileType, DefaultMessage)}
    BY <2>7 DEF Raise, Nothing, UnsupportedFileType
  <2>8. CASE result \in ReadMessage(HasMessage([messages |-> <<message>>], n), <<message>>[n],
                                   DefaultMessage)
    <3>1. \/ HasMessage([messages |-> <<message>>], n) /\ result = Value(<<message>>[n])
          \/ result = Value(DefaultMessage) \/ result = Raise(Uncaught, DefaultMessage)
      BY <2>8 DEF ReadMessage
    <3> QED
      BY <2>3, <2>5, <2>6, <3>1 DEF Value, Raise, Nothing, Uncaught
  <2> QED
    BY <2>4, <2>7, <2>8
<1>2. CASE ~(torn /\ ~eof)
  <2>1. result \in ReadGenericMessage(Content, Len(read) + 1, header.type)
    BY <1>2 DEF ReadNext
  <2>2. Len(read) + 1 \in Nat \ {0}
    BY DEF ReaderTypeOK
  <2> QED
    BY <2>1, <2>2, ContentType, ReadGenericMessageReturns
<1> QED
  BY <1>1, <1>2

\* A file nobody tore gives the next message of the target, or is at its end and
\* gives an empty one.
LEMMA ReadNextFollows ==
  ASSUME ReaderTypeOK, ~torn, NEW result \in ReadNext, result.raise = Nothing
  PROVE  \/ /\ HasMessage(Content, Len(read) + 1)
            /\ Len(read) + 1 <= Len(target.messages)
            /\ result.value = target.messages[Len(read) + 1]
         \/ /\ ~HasMessage(Content, Len(read) + 1)
            /\ result.value = DefaultMessage
<1> DEFINE k == Len(read) + 1
<1>1. result \in ReadMessage(HasMessage(Content, k), Content.messages[k], DefaultMessage)
  BY DEF ReadNext, ReadGenericMessage, Raise, Nothing, UnsupportedFileType
<1>2. CASE ~HasMessage(Content, k)
  BY <1>1, <1>2 DEF ReadMessage, Value, Raise, Nothing, Uncaught
<1>3. CASE HasMessage(Content, k)
  <2>1. result.value = Content.messages[k]
    BY <1>1, <1>3 DEF ReadMessage, Value
  <2>2. Content = file /\ file # Absent /\ k \in 1..Len(file.messages)
    BY <1>3, ContentType DEF HasMessage
  <2>3. file \in Beginnings(target) /\ file # EmptyFile
    BY <2>2 DEF ReaderTypeOK, EmptyFile
  <2>4. file.messages \in Parts(target.messages)
    BY <2>3, ContentType, BeginningsOfFile
  <2>5. PICK n \in 0..Len(target.messages) : file.messages = SubSeq(target.messages, 1, n)
    BY <2>4 DEF Parts
  <2>6. target.messages \in Seq(Message)
    BY ContentType DEF File
  <2>7. k <= n /\ SubSeq(target.messages, 1, n)[k] = target.messages[k] /\ k <= Len(target.messages)
    BY <2>2, <2>5, <2>6
  <2> QED
    BY <1>3, <2>1, <2>2, <2>5, <2>7
<1> QED
  BY <1>2, <1>3

-----------------------------------------------------------------------------
\* Every step of the reader, and of whoever writes, keeps the types.
LEMMA TypesKept ==
  ASSUME ReaderTypeOK, [Next]_vars
  PROVE  ReaderTypeOK'
<1> USE DEF ReaderTypeOK, Waiting, Reading
<1>1. CASE LoadArgs
  BY <1>1 DEF LoadArgs, Terminate, End, given
<1>2. CASE OpenFile
  BY <1>2 DEF OpenFile, given
<1>3. CASE ReadHeader
  <2>1. PICK result \in ReadPbfHeader(Content) :
          \/ result.raise = Uncaught /\ Terminate
          \/ result.raise = UnsupportedFileType /\ Refuse
          \/ /\ result.raise = Nothing
             /\ header' = result.value
             /\ pc' = "ReadMessages"
             /\ UNCHANGED <<given, pretty, opened, eof, read, exit>>
    BY <1>3 DEF ReadHeader
  <2>2. result.raise = Nothing => result.value \in Header
    BY <2>1, ContentType, ReadPbfHeaderReturns
  <2> QED
    BY <2>1, <2>2 DEF Terminate, Refuse, End, given
<1>4. CASE ReadMessages
  <2>1. CASE Len(read) < header.count
    <3>1. PICK result \in ReadNext :
            \/ result.raise = Uncaught /\ Terminate
            \/ result.raise = UnsupportedFileType /\ Refuse
            \/ result.raise = Nothing /\ TakeMessage(result.value)
      BY <1>4, <2>1 DEF ReadMessages, Header
    <3>2. result.raise = Nothing => result.value \in Message
      BY ReadNextReturns
    <3>3. CASE result.raise = Nothing /\ TakeMessage(result.value)
      <4>1. read' \in Seq(Message)
        BY <3>2, <3>3 DEF TakeMessage
      <4>2. eof' \in BOOLEAN
        BY <3>3 DEF TakeMessage, HasMessage
      <4> QED
        BY <3>3, <4>1, <4>2 DEF TakeMessage, given
    <3> QED
      BY <3>1, <3>3 DEF Terminate, Refuse, End, given
  <2>2. CASE ~(Len(read) < header.count)
    BY <1>4, <2>2 DEF ReadMessages, given
  <2> QED
    BY <2>1, <2>2
<1>5. CASE FinishCat
  BY <1>5 DEF FinishCat, End, given
<1>6. CASE FinishMeta
  BY <1>6 DEF FinishMeta, Terminate, End, given
<1>7. CASE Write
  <2>1. file' \in Beginnings(target)
    BY <1>7, ContentType, BeginningsOfFile DEF Write
  <2> QED
    BY <1>7, <2>1 DEF Write
<1>8. CASE Rewrite
  <2>1. target' \in Targets /\ torn' \in BOOLEAN
    BY <1>8 DEF Rewrite
  <2>2. file' \in Beginnings(target')
    BY <1>8, <2>1, ReaderAssumption, BeginningsOfFile DEF Rewrite
  <2> QED
    BY <1>8, <2>1, <2>2 DEF Rewrite
<1>9. CASE UNCHANGED vars
  BY <1>9 DEF vars, given
<1> QED
  BY <1>1, <1>2, <1>3, <1>4, <1>5, <1>6, <1>7, <1>8, <1>9 DEF Next, Step

\* A message is read only while the header counts more, and printed if cat reads it.
LEMMA PrintedKept ==
  ASSUME ReaderTypeOK, PrintedInv, [Next]_vars
  PROVE  PrintedInv'
<1> USE DEF PrintedInv, Waiting, Reading, OkAccountsForAll, MetaPrintsAllOrNothing
<1>1. CASE LoadArgs
  BY <1>1 DEF LoadArgs, Terminate, End, given
<1>2. CASE OpenFile
  BY <1>2 DEF OpenFile, given
<1>3. CASE ReadHeader
  <2>1. PICK result \in ReadPbfHeader(Content) :
          \/ result.raise = Uncaught /\ Terminate
          \/ result.raise = UnsupportedFileType /\ Refuse
          \/ /\ result.raise = Nothing
             /\ header' = result.value
             /\ printed' = IF command = "cat" THEN Append(printed, result.value) ELSE printed
             /\ pc' = "ReadMessages"
             /\ UNCHANGED <<given, pretty, opened, eof, read, exit>>
    BY <1>3 DEF ReadHeader
  <2>2. CASE result.raise = Nothing /\ pc' = "ReadMessages"
    <3>1. result.value \in Header
      BY <2>2, ContentType, ReadPbfHeaderReturns
    <3>2. header' = result.value /\ read' = <<>> /\ command' = command /\ exit' = "none"
      BY <1>3, <2>1, <2>2 DEF ReadHeader, Terminate, Refuse, End, given
    <3>3. printed' = IF command = "cat" THEN <<header'>> ELSE <<>>
      BY <1>3, <2>1, <2>2, <3>2 DEF ReadHeader, Terminate, Refuse, End
    <3>4. <<header'>> \o <<>> = <<header'>>
      OBVIOUS
    <3> QED
      BY <2>2, <3>1, <3>2, <3>3, <3>4 DEF Header
  <2>3. CASE Terminate \/ Refuse
    BY <1>3, <2>3 DEF ReadHeader, Terminate, Refuse, End, given, UnsupportedFileTypeCode
  <2> QED
    BY <2>1, <2>2, <2>3
<1>4. CASE ReadMessages
  <2>1. CASE Len(read) < header.count
    <3>1. PICK result \in ReadNext :
            \/ result.raise = Uncaught /\ Terminate
            \/ result.raise = UnsupportedFileType /\ Refuse
            \/ result.raise = Nothing /\ TakeMessage(result.value)
      BY <1>4, <2>1 DEF ReadMessages, ReaderTypeOK, Header
    <3>2. CASE result.raise = Nothing /\ TakeMessage(result.value)
      <4>1. result.value \in Message
        BY <3>2, ReadNextReturns
      <4>2. /\ read' = Append(read, result.value) /\ pc' = "ReadMessages"
            /\ header' = header /\ command' = command /\ exit' = exit
            /\ printed' = IF command = "cat" THEN Append(printed, result.value) ELSE printed
        BY <1>4, <3>2 DEF TakeMessage, ReadMessages, given
      <4>3. Len(read') = Len(read) + 1 /\ Len(read) + 1 <= header.count
        BY <2>1, <4>1, <4>2 DEF ReaderTypeOK, Header
      <4>4. Append(<<header>> \o read, result.value) = <<header>> \o Append(read, result.value)
        <5>1. /\ <<header>> \in Seq(Header \cup Message)
              /\ read \in Seq(Header \cup Message)
              /\ result.value \in Header \cup Message
          BY <4>1 DEF ReaderTypeOK
        <5> QED
          BY <5>1, AppendIsConcat, ConcatAssociative, ConcatProperties
      <4> QED
        BY <1>4, <4>2, <4>3, <4>4 DEF ReadMessages
    <3>3. CASE Terminate \/ Refuse
      BY <1>4, <3>3 DEF ReadMessages, Terminate, Refuse, End, given, UnsupportedFileTypeCode
    <3> QED
      BY <3>1, <3>2, <3>3
  <2>2. CASE ~(Len(read) < header.count)
    <3>1. pc' = "Finish" /\ UNCHANGED <<given, pretty, opened, eof, header, read, printed, exit>>
      BY <1>4, <2>2 DEF ReadMessages
    <3>2. Len(read) = header.count
      BY <1>4, <2>2 DEF ReadMessages, ReaderTypeOK, Header
    <3> QED
      BY <1>4, <3>1, <3>2 DEF ReadMessages, given
  <2> QED
    BY <2>1, <2>2
<1>5. CASE FinishCat
  BY <1>5 DEF FinishCat, End, given
<1>6. CASE FinishMeta
  <2>1. CASE Terminate
    BY <1>6, <2>1 DEF FinishMeta, Terminate, End, given
  <2>2. CASE ~Terminate
    <3>1. PICK size \in TotalSizes :
            printed' = <<[total |-> header.count, read |-> Len(read), pretty |-> pretty,
                          size |-> size, formatted |-> FormatSize(size)]>>
      BY <1>6, <2>2 DEF FinishMeta
    <3>2. printed'[1].total = header.count /\ printed'[1].read = Len(read)
      BY <3>1
    <3> QED
      BY <1>6, <2>2, <3>2 DEF FinishMeta, End, given
  <2> QED
    BY <2>1, <2>2
<1>7. CASE Write
  BY <1>7 DEF Write
<1>8. CASE Rewrite
  BY <1>8 DEF Rewrite
<1>9. CASE UNCHANGED vars
  BY <1>9 DEF vars, given
<1> QED
  BY <1>1, <1>2, <1>3, <1>4, <1>5, <1>6, <1>7, <1>8, <1>9 DEF Next, Step

\* A message of the target is read at its place, or an empty one after the end; what
\* the writer does meanwhile changes nothing of the target, or is done before the
\* first message is read.
LEMMA FollowKept ==
  ASSUME ReaderTypeOK, PrintedInv, FollowInv, ReadsBeginning, [Next]_vars
  PROVE  FollowInv' /\ ReadsBeginning'
<1> USE DEF FollowInv, ReadsBeginning
<1>1. ASSUME UNCHANGED <<target, read, eof, torn>>
      PROVE  FollowInv' /\ ReadsBeginning'
  BY <1>1
<1>2. CASE LoadArgs \/ OpenFile \/ ReadHeader \/ FinishCat \/ FinishMeta \/ UNCHANGED vars
  BY <1>1, <1>2 DEF LoadArgs, OpenFile, ReadHeader, FinishCat, FinishMeta, Terminate, Refuse, End,
                    given, vars
<1>3. CASE ReadMessages
  <2>1. CASE UNCHANGED <<target, read, eof, torn>>
    BY <1>1, <2>1
  <2>2. CASE ~UNCHANGED <<target, read, eof, torn>>
    <3>1. PICK result \in ReadNext : result.raise = Nothing /\ TakeMessage(result.value)
      BY <1>3, <2>2 DEF ReadMessages, Terminate, Refuse, End, given
    <3>2. target' = target /\ torn' = torn /\ read' = Append(read, result.value)
      BY <3>1 DEF TakeMessage, given
    <3> SUFFICES ASSUME ~torn
                 PROVE  FollowInv' /\ ReadsBeginning'
      BY <3>2
    <3>3. eof' = (eof \/ ~HasMessage(Content, Len(read) + 1))
      BY <3>1 DEF TakeMessage
    <3>4. result.value \in Message /\ read \in Seq(Message) /\ target.messages \in Seq(Message)
      BY <3>1, ReadNextReturns, ContentType DEF ReaderTypeOK, File
    <3>5. /\ Len(read') = Len(read) + 1 /\ read'[Len(read) + 1] = result.value
          /\ \A m \in 1..Len(read) : read'[m] = read[m]
      BY <3>2, <3>4
    <3>6. CASE HasMessage(Content, Len(read) + 1)
      <4>1. ~eof
        BY <3>6, ContentType DEF HasMessage
      <4>2. Len(read) + 1 <= Len(target.messages)
            /\ result.value = target.messages[Len(read) + 1]
        BY <3>1, <3>6, ReadNextFollows
      <4>3. \A m \in 1..Len(read') : read'[m] = target'.messages[m]
        BY <3>2, <3>4, <3>5, <4>1, <4>2
      <4>4. Len(read') \in 0..Len(read') /\ Len(read') <= Len(target'.messages)
        BY <3>2, <3>4, <3>5, <4>2
      <4>5. (Len(read') + 1)..Len(read') = {}
        BY <3>4, <3>5
      <4> QED
        BY <4>3, <4>4, <4>5
    <3>7. CASE ~HasMessage(Content, Len(read) + 1)
      <4>1. result.value = DefaultMessage /\ eof'
        BY <3>1, <3>3, <3>7, ReadNextFollows
      <4>2. PICK n \in 0..Len(read) :
              /\ n <= Len(target.messages)
              /\ \A m \in 1..n : read[m] = target.messages[m]
              /\ \A m \in (n + 1)..Len(read) : read[m] = DefaultMessage
        OBVIOUS
      <4>3. n \in 0..Len(read') /\ n <= Len(target'.messages)
        BY <3>2, <3>4, <3>5, <4>2
      <4>4. \A m \in 1..n : read'[m] = target'.messages[m]
        BY <3>2, <3>4, <3>5, <4>2
      <4>5. \A m \in (n + 1)..Len(read') : read'[m] = DefaultMessage
        BY <3>4, <3>5, <4>1, <4>2
      <4> QED
        BY <4>1, <4>3, <4>4, <4>5
    <3> QED
      BY <3>6, <3>7
  <2> QED
    BY <2>1, <2>2
<1>4. CASE Write
  BY <1>1, <1>4 DEF Write
<1>5. CASE Rewrite
  <2>1. CASE torn'
    BY <2>1
  <2>2. CASE ~torn'
    <3>1. pc \in Waiting /\ read' = read
      BY <1>5, <2>2 DEF Rewrite, ReaderTypeOK, Reading
    <3>2. read' = <<>>
      BY <3>1 DEF PrintedInv
    <3>3. target'.messages \in Seq(Message)
      BY <1>5, ReaderAssumption DEF Rewrite, ReaderTypeOK, File
    <3> QED
      BY <3>2, <3>3
  <2> QED
    BY <2>1, <2>2
<1> QED
  BY <1>2, <1>3, <1>4, <1>5 DEF Next, Step

-----------------------------------------------------------------------------
\* The scales of none, one and two decimals, the digits below the last unit, and what
\* multiplying those by a scale can leave.
Scales == {1, 10, 100}
Digits == 0..(kDivisor - 1)
Lows(scale) == [carry : 0..(scale - 1), top : Digits, rest : Nat]

\* One digit more: what gets above it, and what stays, is the product.
LEMMA MultipliedIs ==
  ASSUME NEW scale \in Scales, NEW done \in Lows(scale), NEW digit \in Digits
  PROVE  LET new == Multiplied(done, digit, scale)
         IN  /\ new \in Lows(scale)
             /\ kDivisor * new.carry + new.top = digit * scale + done.carry
             /\ new.rest = done.rest + done.top
<1> DEFINE new == Multiplied(done, digit, scale)
<1> USE DEF kDivisor, Digits
<1>1. done.carry \in 0..(scale - 1) /\ done.top \in 0..1023 /\ done.rest \in Nat /\ scale \in Nat
  BY DEF Lows, Scales
<1>2. PICK carry \in Nat, top \in Nat, rest \in Nat :
        carry = done.carry /\ top = done.top /\ rest = done.rest /\ carry < scale
  <2>1. done.carry \in Nat /\ done.carry < scale /\ done.top \in Nat /\ done.rest \in Nat
    BY <1>1
  <2> QED
    BY <2>1, Zenon
<1>3. PICK d \in Nat : d = digit /\ d < 1024
  OBVIOUS
<1>4. PICK product \in Nat : product = d * scale + carry /\ product < 1024 * scale
  <2>1. CASE scale = 1
    BY <1>2, <1>3, <2>1
  <2>2. CASE scale = 10
    BY <1>2, <1>3, <2>2
  <2>3. CASE scale = 100
    BY <1>2, <1>3, <2>3
  <2> QED
    BY <2>1, <2>2, <2>3 DEF Scales
<1>5. /\ product % 1024 \in 0..1023
      /\ 1024 * (product \div 1024) + (product % 1024) = product
      /\ product \div 1024 \in 0..(scale - 1)
  BY <1>1, <1>4
<1>6. rest + top \in Nat
  BY <1>2
<1>7. new = [carry |-> product \div 1024, top |-> product % 1024, rest |-> rest + top]
  BY <1>2, <1>3, <1>4 DEF Multiplied
<1>8. new \in Lows(scale)
  BY <1>5, <1>6, <1>7 DEF Lows
<1> QED
  BY <1>2, <1>3, <1>4, <1>5, <1>7, <1>8

\* Below goes from digit to digit, up to the last of the five a size can have.
LEMMA BelowIs ==
  ASSUME NEW unit \in 0..4, NEW size, NEW scale
  PROVE  LET below == Below(size, unit, scale)
         IN  /\ below[0] = [carry |-> 0, top |-> 0, rest |-> 0]
             /\ \A n \in 1..unit : below[n] = Multiplied(below[n - 1], size[n], scale)
<1> DEFINE Zero == [carry |-> 0, top |-> 0, rest |-> 0]
           More(b, n) == Multiplied(b, size[n], scale)
           S1 == More(Zero, 1)
           S2 == More(S1, 2)
           S3 == More(S2, 3)
           S4 == More(S3, 4)
           Row(f) == [n \in 0..unit |-> IF n = 0 THEN Zero ELSE Multiplied(f[n - 1], size[n], scale)]
           F == [n \in 0..unit |-> IF n = 0 THEN Zero ELSE IF n = 1 THEN S1 ELSE IF n = 2 THEN S2
                                   ELSE IF n = 3 THEN S3 ELSE S4]
           below == Below(size, unit, scale)
<1>1. ASSUME NEW n \in 0..unit PROVE F[n] = Row(F)[n]
  <2> HIDE DEF Zero
  <2>1. n \in 0..4 /\ (n # 0 => n - 1 \in 0..unit)
    OBVIOUS
  <2>2. CASE n = 0
    BY <2>2
  <2>3. CASE n = 1
    BY <2>1, <2>3
  <2>4. CASE n = 2
    BY <2>1, <2>4
  <2>5. CASE n = 3
    BY <2>1, <2>5
  <2>6. CASE n = 4
    BY <2>1, <2>6
  <2> QED
    BY <2>1, <2>2, <2>3, <2>4, <2>5, <2>6
<1>2. F = Row(F)
  <2> DEFINE G == Row(F)
  <2>1. G = [n \in 0..unit |-> G[n]]
    OBVIOUS
  <2>2. F = [n \in 0..unit |-> F[n]]
    OBVIOUS
  <2> HIDE DEF F, G
  <2>3. \A n \in 0..unit : F[n] = G[n]
    BY <1>1 DEF G
  <2>4. F = G
    BY <2>1, <2>2, <2>3
  <2> QED
    BY <2>4 DEF G
<1>3. below = CHOOSE f : f = Row(f)
  BY DEF Below
<1> HIDE DEF F, below
<1>4. below = Row(below)
  <2> HIDE DEF Row
  <2> QED
    BY <1>2, <1>3
<1> HIDE DEF Zero
<1>5. below[0] = Zero
  BY <1>4
<1>6. \A n \in 1..unit : n \in 0..unit /\ n # 0
  OBVIOUS
<1>7. \A n \in 1..unit : below[n] = Multiplied(below[n - 1], size[n], scale)
  BY <1>4, <1>6
<1> QED
  BY <1>5, <1>7 DEF Zero, below

\* What there is of a size: a last unit, a digit for each unit below it, and the decimals.
Unit(size)   == Len(size) - 1
Whole(size)  == size[Len(size)]
Scale(size)  == <<1, 10, 100>>[DecimalPlaces(Unit(size), Whole(size)) + 1]
LowOf(size)  == Below(size, Unit(size), Scale(size))[Unit(size)]

\* Of the digits of a size only that of the last unit has no limit.
LEMMA DigitsAre ==
  ASSUME NEW size, IsSize(size), size # <<>>
  PROVE  /\ Unit(size) \in 0..4 /\ Len(size) = Unit(size) + 1
         /\ Whole(size) \in Nat \ {0}
         /\ Unit(size) < 4 => Whole(size) \in Digits
         /\ \A n \in 1..Unit(size) : size[n] \in Digits
         /\ InUnit(size, Unit(size)) =
              kDivisor * Whole(size) + (IF Unit(size) = 0 THEN 0 ELSE size[Unit(size)])
<1>1. Len(kUnits) = 5
  BY DEF kUnits
<1>2. size \in Seq(Nat) /\ Len(size) \in 1..5
  <2>1. size \in Seq(Nat) /\ Len(size) <= 5
    BY <1>1 DEF IsSize
  <2>2. Len(size) \in Nat /\ Len(size) # 0
    BY <2>1
  <2>3. ASSUME NEW k \in Nat, k # 0, k <= 5 PROVE k \in 1..5
    BY <2>3
  <2> QED
    BY <2>1, <2>2, <2>3
<1>3. DOMAIN size = 1..Len(size) /\ \A n \in 1..Len(size) : size[n] \in Nat
  BY <1>2
<1>4. \A n \in 1..Len(size) : n < 5 => size[n] \in Digits
  <2>1. \A n \in 1..Len(size) : n < 5 => size[n] < 1024
    BY <1>1, <1>3 DEF IsSize, kDivisor
  <2>2. ASSUME NEW k \in Nat, k < 1024 PROVE k \in Digits
    BY <2>2 DEF Digits, kDivisor
  <2> QED
    BY <1>3, <2>1, <2>2
<1>5. Unit(size) \in 0..4 /\ Len(size) = Unit(size) + 1
  BY <1>2 DEF Unit
<1>6. Whole(size) = size[Unit(size) + 1]
  BY <1>5 DEF Whole
<1>7. Whole(size) \in Nat \ {0}
  BY <1>2, <1>3 DEF IsSize, Whole
<1>8. Unit(size) < 4 => Whole(size) \in Digits
  BY <1>4, <1>5 DEF Whole
<1>9. \A n \in 1..Unit(size) : size[n] \in Digits
  BY <1>4, <1>5
<1>10. InUnit(size, Unit(size)) =
        kDivisor * Whole(size) + (IF Unit(size) = 0 THEN 0 ELSE size[Unit(size)])
  BY <1>6 DEF InUnit
<1> QED
  BY <1>5, <1>7, <1>8, <1>9, <1>10

\* Three digits are shown, but for the bytes and for a thousand and more.
LEMMA ScaleIs ==
  ASSUME NEW size, IsSize(size), size # <<>>
  PROVE  /\ Scale(size) \in Scales
         /\ Unit(size) = 0 => Scale(size) = 1
         /\ \/ Scale(size) = 1 /\ (Unit(size) = 0 \/ Whole(size) >= 100)
            \/ Scale(size) = 10 /\ Unit(size) # 0 /\ Whole(size) >= 10 /\ Whole(size) < 100
            \/ Scale(size) = 100 /\ Unit(size) # 0 /\ Whole(size) >= 1 /\ Whole(size) < 10
<1> DEFINE unit == Unit(size)
           whole == Whole(size)
<1>1. unit \in Nat /\ whole \in Nat \ {0}
  BY DigitsAre
<1> HIDE DEF unit, whole
<1>2. CASE unit = 0 \/ whole >= 100
  <2>1. DecimalPlaces(unit, whole) = 0
    <3>1. ~(unit # 0 /\ whole \in 10..99) /\ ~(unit # 0 /\ whole < 10)
      BY <1>1, <1>2
    <3> QED
      BY <1>2, <3>1 DEF DecimalPlaces
  <2> QED
    BY <1>2, <2>1 DEF Scale, Scales, unit, whole
<1>3. CASE unit # 0 /\ whole >= 10 /\ whole < 100
  <2>0. whole \in 10..99
    BY <1>1, <1>3
  <2>1. DecimalPlaces(unit, whole) = 1
    <3>1. ~(unit = 0 \/ whole >= 100) /\ ~(unit # 0 /\ whole < 10)
      BY <1>1, <1>3
    <3> QED
      BY <1>3, <2>0, <3>1 DEF DecimalPlaces
  <2> QED
    BY <1>3, <2>1 DEF Scale, Scales, unit, whole
<1>4. CASE unit # 0 /\ whole < 10
  <2>1. DecimalPlaces(unit, whole) = 2
    BY <1>1, <1>4 DEF DecimalPlaces
  <2>2. whole >= 1 /\ whole < 10
    BY <1>1, <1>4
  <2> QED
    BY <1>4, <2>1, <2>2 DEF Scale, Scales, unit, whole
<1> QED
  BY <1>1, <1>2, <1>3, <1>4

\* The decimals, from digit to digit.
LEMMA LowsAre ==
  ASSUME NEW size, IsSize(size), size # <<>>
  PROVE  LET below == Below(size, Unit(size), Scale(size))
         IN  /\ below[0] = [carry |-> 0, top |-> 0, rest |-> 0]
             /\ \A n \in 0..Unit(size) : below[n] \in Lows(Scale(size))
             /\ \A n \in 1..Unit(size) : below[n] = Multiplied(below[n - 1], size[n], Scale(size))
<1> DEFINE below == Below(size, Unit(size), Scale(size))
           Typed(n) == n <= Unit(size) => below[n] \in Lows(Scale(size))
<1>1. Unit(size) \in 0..4 /\ Scale(size) \in Scales /\ \A n \in 1..Unit(size) : size[n] \in Digits
  BY DigitsAre, ScaleIs
<1>2. /\ below[0] = [carry |-> 0, top |-> 0, rest |-> 0]
      /\ \A n \in 1..Unit(size) : below[n] = Multiplied(below[n - 1], size[n], Scale(size))
  BY <1>1, BelowIs
<1> HIDE DEF below
<1>3. Typed(0)
  BY <1>1, <1>2 DEF Lows, Scales, Digits, kDivisor
<1>4. ASSUME NEW n \in 1..4, Typed(n - 1) PROVE Typed(n)
  <2> SUFFICES ASSUME n <= Unit(size) PROVE below[n] \in Lows(Scale(size))
    OBVIOUS
  <2>1. n \in 1..Unit(size) /\ below[n - 1] \in Lows(Scale(size))
    BY <1>1, <1>4
  <2> QED
    BY <1>1, <1>2, <2>1, MultipliedIs
<1>5. Typed(1)
  BY <1>3, <1>4
<1>6. Typed(2)
  BY <1>4, <1>5
<1>7. Typed(3)
  BY <1>4, <1>6
<1>8. Typed(4)
  BY <1>4, <1>7
<1>9. \A n \in 0..Unit(size) : n \in {0, 1, 2, 3, 4} /\ n <= Unit(size)
  BY <1>1
<1>10. \A n \in 0..Unit(size) : below[n] \in Lows(Scale(size))
  BY <1>3, <1>5, <1>6, <1>7, <1>8, <1>9
<1> QED
  BY <1>2, <1>10 DEF below

\* What is shown: the whole and the decimals below it, or one more.
LEMMA FormattedIs ==
  ASSUME NEW size, IsSize(size), size # <<>>
  PROVE  LET low   == LowOf(size)
             shown == Whole(size) * Scale(size) + low.carry
         IN  /\ low \in Lows(Scale(size))
             /\ shown \in Nat
             /\ FormatFileSize(size) =
                  [shown |-> IF Rounds(low, shown) THEN shown + 1 ELSE shown,
                   scale |-> Scale(size), unit |-> Unit(size)]
<1> DEFINE low == LowOf(size)
           shown == Whole(size) * Scale(size) + low.carry
<1>1. Unit(size) \in 0..4 /\ Len(size) = Unit(size) + 1 /\ Whole(size) \in Nat /\ Scale(size) \in Nat
  BY DigitsAre, ScaleIs DEF Scales
<1>2. low \in Lows(Scale(size))
  BY <1>1, LowsAre DEF LowOf
<1>3. shown \in Nat
  BY <1>1, <1>2 DEF Lows
<1>4. size[Unit(size) + 1] = Whole(size)
  BY <1>1 DEF Whole
<1>5. FormatFileSize(size) =
        [shown |-> Fixed(size, Unit(size), Scale(size)), scale |-> Scale(size), unit |-> Unit(size)]
  BY <1>1, <1>4 DEF FormatFileSize, Scale, Unit
<1>6. Fixed(size, Unit(size), Scale(size)) = IF Rounds(low, shown) THEN shown + 1 ELSE shown
  BY <1>4 DEF Fixed, RoundUp, LowOf
<1> QED
  BY <1>2, <1>3, <1>5, <1>6

\* The digits above and below the unit, multiplied at once.
LEMMA MultipliedAtOnce ==
  ASSUME NEW scale \in Nat, NEW whole \in Nat, NEW digit \in Nat, NEW carry \in Nat,
         NEW top \in Nat, NEW carried \in Nat, 1024 * carry + top = digit * scale + carried,
         \/ scale = 1 /\ whole >= 100
         \/ scale = 10 /\ whole >= 10
         \/ scale = 100 /\ whole >= 1
  PROVE  /\ (1024 * whole + digit) * scale \in Nat
         /\ (1024 * whole + digit) * scale >= 102400
         /\ 1024 * (whole * scale + carry) + top = (1024 * whole + digit) * scale + carried
<1>1. CASE scale = 1 /\ whole >= 100
  BY <1>1, SMT
<1>2. CASE scale = 10 /\ whole >= 10
  BY <1>2, SMT
<1>3. CASE scale = 100 /\ whole >= 1
  BY <1>3, SMT
<1> QED
  BY <1>1, <1>2, <1>3, SMT

\* What is shown before it is rounded is short of the size by no more than was rounded.
LEMMA ShownIs ==
  ASSUME NEW size, IsSize(size), size # <<>>
  PROVE  LET low   == LowOf(size)
             shown == Whole(size) * Scale(size) + low.carry
             exact == InUnit(size, Unit(size)) * Scale(size)
         IN  /\ exact \in Nat
             /\ Unit(size) = 0 => kDivisor * shown = exact /\ low.top = 0 /\ low.rest = 0
             /\ Unit(size) # 0 => /\ exact >= 100 * kDivisor
                                  /\ \E carried \in 0..(Scale(size) - 1) :
                                       kDivisor * shown + low.top = exact + carried
<1> DEFINE unit  == Unit(size)
           below == Below(size, unit, Scale(size))
           low   == LowOf(size)
<1>1. /\ unit \in 0..4 /\ Whole(size) \in Nat \ {0} /\ Scale(size) \in Scales
      /\ \A n \in 1..unit : size[n] \in Digits
      /\ InUnit(size, unit) = kDivisor * Whole(size) + (IF unit = 0 THEN 0 ELSE size[unit])
  BY DigitsAre, ScaleIs
<1>2. /\ below[0] = [carry |-> 0, top |-> 0, rest |-> 0]
      /\ \A n \in 0..unit : below[n] \in Lows(Scale(size))
      /\ \A n \in 1..unit : below[n] = Multiplied(below[n - 1], size[n], Scale(size))
  BY LowsAre
<1>3. low = below[unit]
  BY DEF LowOf
<1> HIDE DEF unit, below, low
<1>4. PICK whole \in Nat, scale \in Nat :
        /\ whole = Whole(size) /\ scale = Scale(size)
        /\ \/ scale = 1 /\ (unit = 0 \/ whole >= 100)
           \/ scale = 10 /\ unit # 0 /\ whole >= 10
           \/ scale = 100 /\ unit # 0 /\ whole >= 1
  <2>1. Whole(size) \in Nat /\ Scale(size) \in Nat
    BY <1>1 DEF Scales
  <2>2. \/ Scale(size) = 1 /\ (unit = 0 \/ Whole(size) >= 100)
        \/ Scale(size) = 10 /\ unit # 0 /\ Whole(size) >= 10
        \/ Scale(size) = 100 /\ unit # 0 /\ Whole(size) >= 1
    BY ScaleIs DEF unit
  <2> QED
    BY <2>1, <2>2, SMT
<1>5. CASE unit = 0
  <2>1. low.carry = 0 /\ low.top = 0 /\ low.rest = 0
    BY <1>2, <1>3, <1>5
  <2>2. scale = 1
    BY <1>4, <1>5, SMT
  <2>3. InUnit(size, unit) = 1024 * whole
    BY <1>1, <1>4, <1>5, SMT DEF kDivisor
  <2>4. 1024 * (whole * 1 + 0) = (1024 * whole) * 1 /\ (1024 * whole) * 1 \in Nat
    BY SMT
  <2> QED
    BY <1>4, <1>5, <2>1, <2>2, <2>3, <2>4, SMT DEF kDivisor, unit, low
<1>6. CASE unit # 0
  <2>1. unit \in 1..unit /\ unit \in 0..unit /\ unit - 1 \in 0..unit
    BY <1>1, <1>6, SMT
  <2>2. low = Multiplied(below[unit - 1], size[unit], scale) /\ below[unit - 1] \in Lows(scale)
    BY <1>2, <1>3, <1>4, <2>1
  <2>3. Digits \subseteq Nat /\ scale \in Scales
    BY <1>1, <1>4, SMT DEF Digits, kDivisor
  <2>4. PICK digit \in Nat : digit = size[unit] /\ digit \in Digits
    BY <1>1, <2>1, <2>3, Zenon
  <2>5. /\ kDivisor * low.carry + low.top = digit * scale + below[unit - 1].carry
        /\ low \in Lows(scale)
    BY <2>2, <2>3, <2>4, MultipliedIs, Zenon
  <2>6. PICK carried \in Nat : carried = below[unit - 1].carry /\ carried \in 0..(scale - 1)
    <3>1. below[unit - 1].carry \in 0..(scale - 1)
      BY <2>2 DEF Lows
    <3>2. 0..(scale - 1) \subseteq Nat
      BY SMT
    <3> QED
      BY <3>1, <3>2, Zenon
  <2>7. PICK carry \in Nat, top \in Nat : carry = low.carry /\ top = low.top
    <3>1. low.carry \in 0..(scale - 1) /\ low.top \in Digits
      BY <2>5 DEF Lows
    <3>2. 0..(scale - 1) \subseteq Nat
      BY SMT
    <3> QED
      BY <2>3, <3>1, <3>2, Zenon
  <2>8. 1024 * carry + top = digit * scale + carried
    BY <2>5, <2>6, <2>7, SMT DEF kDivisor
  <2>9. InUnit(size, unit) = 1024 * whole + digit
    BY <1>1, <1>4, <1>6, <2>4, SMT DEF kDivisor
  <2>10. /\ (1024 * whole + digit) * scale \in Nat
         /\ (1024 * whole + digit) * scale >= 102400
         /\ 1024 * (whole * scale + carry) + top = (1024 * whole + digit) * scale + carried
    <3>1. \/ scale = 1 /\ whole >= 100
          \/ scale = 10 /\ whole >= 10
          \/ scale = 100 /\ whole >= 1
      BY <1>4, <1>6
    <3> QED
      BY <2>8, <3>1, MultipliedAtOnce, SMT
  <2>11. PICK exact \in Nat :
           /\ exact = (1024 * whole + digit) * scale
           /\ exact >= 100 * kDivisor
           /\ kDivisor * (whole * scale + carry) + top = exact + carried
    BY <2>10, SMT DEF kDivisor
  <2>12. InUnit(size, unit) * Scale(size) = exact
    BY <1>4, <2>9, <2>11
  <2>13. Whole(size) * Scale(size) + low.carry = whole * scale + carry
    BY <1>4, <2>7
  <2>14. carried \in 0..(Scale(size) - 1) /\ low.top = top
    BY <1>4, <2>6, <2>7
  <2> HIDE DEF unit, low
  <2>15. /\ kDivisor * (Whole(size) * Scale(size) + low.carry) + low.top
              = InUnit(size, unit) * Scale(size) + carried
         /\ InUnit(size, unit) * Scale(size) \in Nat
         /\ InUnit(size, unit) * Scale(size) >= 100 * kDivisor
    BY <2>11, <2>12, <2>13, <2>14
  <2> QED
    BY <1>6, <2>14, <2>15, Zenon DEF unit, low
<1> QED
  BY <1>5, <1>6

\* For every size: what is told is within half a per cent of it.
LEMMA FormattedAccurate ==
  ASSUME NEW size, IsSize(size)
  PROVE  Accurate(size, FormatFileSize(size))
<1> DEFINE told == FormatFileSize(size)
<1>1. CASE size = <<>>
  <2>1. told.shown = 0 /\ told.scale = 1 /\ told.unit = 0
    BY <1>1 DEF FormatFileSize
  <2>2. InUnit(size, 0) = 0
    BY <1>1 DEF InUnit
  <2> QED
    BY <2>1, <2>2 DEF Accurate, kDivisor
<1>2. CASE size # <<>>
  <2> DEFINE low   == LowOf(size)
             first == Whole(size) * Scale(size) + low.carry
             total == InUnit(size, Unit(size)) * Scale(size)
  <2>1. /\ first \in Nat /\ low \in Lows(Scale(size))
        /\ told.shown = IF Rounds(low, first) THEN first + 1 ELSE first
        /\ told.scale = Scale(size) /\ told.unit = Unit(size)
    BY <1>2, FormattedIs
  <2>2. /\ total \in Nat
        /\ Unit(size) = 0 => kDivisor * first = total /\ low.top = 0 /\ low.rest = 0
        /\ Unit(size) # 0 => /\ total >= 100 * kDivisor
                             /\ \E carried \in 0..(Scale(size) - 1) :
                                  kDivisor * first + low.top = total + carried
    BY <1>2, ShownIs
  <2>3. Scale(size) \in Scales /\ Unit(size) \in 0..4
    BY <1>2, ScaleIs, DigitsAre
  <2> SUFFICES /\ 200 * (told.shown * 1024) <= 201 * (total + Scale(size))
               /\ 200 * (told.shown * 1024) >= 199 * total
    BY <2>1 DEF Accurate, kDivisor
  <2> HIDE DEF low, first, total, told
  <2>4. PICK scale \in Nat : scale = Scale(size)
    BY <2>3 DEF Scales
  <2>5. PICK top \in Nat, rest \in Nat : top = low.top /\ rest = low.rest /\ top < 1024
    <3>1. low.top \in Nat /\ low.rest \in Nat /\ low.top < 1024
      BY <2>1 DEF Lows, Digits, kDivisor
    <3> QED
      BY <3>1, Zenon
  <2>6. PICK shown \in Nat :
          shown = told.shown /\ (shown = first \/ shown = first + 1)
    BY <2>1
  <2>7. CASE Unit(size) = 0
    <3>1. ~Rounds(low, first)
      BY <2>2, <2>7 DEF Rounds, kDivisor
    <3>2. shown = first /\ 1024 * first = total
      BY <2>1, <2>2, <2>6, <2>7, <3>1 DEF kDivisor
    <3> QED
      BY <2>1, <2>2, <2>4, <2>6, <3>2
  <2>8. CASE Unit(size) # 0
    <3>1. PICK carried \in Nat : carried < scale /\ 1024 * first + top = total + carried
      BY <2>2, <2>4, <2>5, <2>8 DEF kDivisor
    <3>2. total >= 102400
      BY <2>2, <2>8 DEF kDivisor
    <3>3. CASE Rounds(low, first)
      <4>1. top >= 512 /\ shown = first + 1
        BY <2>1, <2>5, <2>6, <3>3 DEF Rounds, kDivisor
      <4> QED
        BY <2>1, <2>2, <2>4, <2>5, <2>6, <3>1, <3>2, <4>1
    <3>4. CASE ~Rounds(low, first)
      <4>1. top <= 512 /\ shown = first
        BY <2>1, <2>5, <2>6, <3>4 DEF Rounds, kDivisor
      <4> QED
        BY <2>1, <2>2, <2>4, <2>5, <2>6, <3>1, <3>2, <4>1
    <3> QED
      BY <3>3, <3>4
  <2> QED
    BY <2>7, <2>8
<1> QED
  BY <1>1, <1>2

\* One size has no more decimals than another.
NotAbove(low, other) ==
  \/ low.carry < other.carry
  \/ low.carry = other.carry /\ low.top < other.top
  \/ low.carry = other.carry /\ low.top = other.top /\ (low.rest # 0 => other.rest # 0)

\* A digit more keeps the order, and a smaller digit makes it.
LEMMA MultipliedOrdered ==
  ASSUME NEW scale \in Scales, NEW low \in Lows(scale), NEW other \in Lows(scale),
         NEW digit \in Digits, NEW digits \in Digits,
         digit < digits \/ (digit = digits /\ NotAbove(low, other))
  PROVE  NotAbove(Multiplied(low, digit, scale), Multiplied(other, digits, scale))
<1> DEFINE new  == Multiplied(low, digit, scale)
           more == Multiplied(other, digits, scale)
<1>1. /\ new \in Lows(scale) /\ more \in Lows(scale)
      /\ kDivisor * new.carry + new.top = digit * scale + low.carry
      /\ kDivisor * more.carry + more.top = digits * scale + other.carry
      /\ new.rest = low.rest + low.top /\ more.rest = other.rest + other.top
  BY MultipliedIs
<1> HIDE DEF new, more
<1>2. scale \in Nat /\ Digits = 0..1023
  BY SMT DEF Scales, Digits, kDivisor
<1>3. ASSUME NEW l \in Lows(scale)
      PROVE  l.carry \in Nat /\ l.carry < scale /\ l.top \in Nat /\ l.top < 1024 /\ l.rest \in Nat
  <2>1. l.carry \in 0..(scale - 1) /\ l.top \in 0..1023 /\ l.rest \in Nat
    BY <1>2 DEF Lows
  <2>2. /\ \A k \in 0..(scale - 1) : k \in Nat /\ k < scale
        /\ \A k \in 0..1023 : k \in Nat /\ k < 1024
    BY <1>2, SMT
  <2> QED
    BY <2>1, <2>2, SMT
<1>4. /\ low.carry \in Nat /\ low.carry < scale /\ low.top \in Nat /\ low.rest \in Nat
      /\ other.carry \in Nat /\ other.carry < scale /\ other.top \in Nat /\ other.rest \in Nat
  BY <1>3
<1>5. /\ new.carry \in Nat /\ new.top \in Nat /\ new.top < 1024
      /\ more.carry \in Nat /\ more.top \in Nat /\ more.top < 1024
  BY <1>1, <1>3
<1>6. digit \in Nat /\ digits \in Nat
  BY <1>2, SMT
<1>7. CASE digit < digits \/ low.carry < other.carry
  <2>1. digit < digits \/ (digit = digits /\ low.carry < other.carry)
    BY <1>7
  <2>2. digit * scale + low.carry < digits * scale + other.carry
    <3>1. CASE scale = 1
      BY <1>2, <1>4, <1>6, <2>1, <3>1, SMT
    <3>2. CASE scale = 10
      BY <1>2, <1>4, <1>6, <2>1, <3>2, SMT
    <3>3. CASE scale = 100
      BY <1>2, <1>4, <1>6, <2>1, <3>3, SMT
    <3> QED
      BY <3>1, <3>2, <3>3, SMT DEF Scales
  <2>3. 1024 * new.carry + new.top < 1024 * more.carry + more.top
    BY <1>1, <2>2, SMT DEF kDivisor
  <2>4. new.carry < more.carry \/ (new.carry = more.carry /\ new.top < more.top)
    BY <1>5, <2>3, SMT
  <2> QED
    BY <2>4 DEF NotAbove, new, more
<1>8. CASE ~(digit < digits \/ low.carry < other.carry)
  <2>1. digit = digits /\ low.carry = other.carry
    BY <1>4, <1>8, SMT DEF NotAbove
  <2>2. 1024 * new.carry + new.top = 1024 * more.carry + more.top
    BY <1>1, <2>1, SMT DEF kDivisor
  <2>3. new.carry = more.carry /\ new.top = more.top
    BY <1>5, <2>2, SMT
  <2>4. low.top < other.top \/ (low.top = other.top /\ (low.rest # 0 => other.rest # 0))
    BY <1>4, <1>8, <2>1, SMT DEF NotAbove
  <2>5. new.rest # 0 => more.rest # 0
    BY <1>1, <1>4, <2>4, SMT
  <2> QED
    BY <2>3, <2>5 DEF NotAbove, new, more
<1> QED
  BY <1>7, <1>8

\* Of two sizes with the same last unit and as many of it, the smaller has no more decimals.
LEMMA LowsOrdered ==
  ASSUME NEW size, IsSize(size), size # <<>>, NEW other, IsSize(other), other # <<>>,
         Len(size) = Len(other), Whole(size) = Whole(other), SizeAtMost(size, other)
  PROVE  NotAbove(LowOf(size), LowOf(other))
<1> DEFINE unit  == Unit(size)
           scale == Scale(size)
           below == Below(size, unit, scale)
           above == Below(other, unit, scale)
<1>1. Unit(other) = unit /\ Scale(other) = scale
  BY DEF Unit, Scale
<1>2. unit \in 0..4 /\ scale \in Scales /\ Len(size) = unit + 1
  BY DigitsAre, ScaleIs
<1>3. /\ below[unit] = LowOf(size) /\ above[unit] = LowOf(other)
      /\ \A n \in 0..unit : below[n] \in Lows(scale) /\ above[n] \in Lows(scale)
      /\ \A n \in 1..unit : /\ below[n] = Multiplied(below[n - 1], size[n], scale)
                            /\ above[n] = Multiplied(above[n - 1], other[n], scale)
  BY <1>1, LowsAre DEF LowOf
<1>4. \A n \in 1..unit : size[n] \in Digits /\ other[n] \in Digits
  BY <1>1, DigitsAre
<1>5. CASE size = other
  BY <1>2, <1>5 DEF NotAbove, LowOf
<1>6. CASE size # other
  <2>1. PICK n \in DOMAIN size : size[n] < other[n] /\ \A m \in (n + 1)..Len(size) : size[m] = other[m]
    BY <1>2, <1>6, SMT DEF SizeAtMost
  <2>2. size \in Seq(Nat)
    BY DEF IsSize
  <2>3. n \in 1..Len(size) /\ size[n] \in Nat
    BY <2>1, <2>2
  <2>4. n # Len(size)
    BY <2>1, <2>3 DEF Whole
  <2>5. n \in 1..unit
    BY <1>2, <2>3, <2>4
  <2> HIDE DEF unit, scale, below, above
  <2> DEFINE Kept(k) == n <= k /\ k <= unit => NotAbove(below[k], above[k])
  <2>6. ASSUME NEW k \in 1..4, Kept(k - 1) PROVE Kept(k)
    <3> SUFFICES ASSUME n <= k, k <= unit PROVE NotAbove(below[k], above[k])
      OBVIOUS
    <3>1. k \in 1..unit /\ k - 1 \in 0..unit
      BY <1>2, SMT
    <3>2. size[k] < other[k] \/ (size[k] = other[k] /\ NotAbove(below[k - 1], above[k - 1]))
      <4>1. CASE k = n
        BY <2>1, <4>1
      <4>2. CASE k # n
        <5>1. k \in (n + 1)..Len(size) /\ n <= k - 1 /\ k - 1 <= unit
          BY <1>2, <2>5, <3>1, <4>2, SMT
        <5> QED
          BY <2>1, <2>6, <5>1
      <4> QED
        BY <4>1, <4>2
    <3> QED
      BY <1>2, <1>3, <1>4, <3>1, <3>2, MultipliedOrdered
  <2>7. Kept(0)
    BY <2>5, SMT
  <2>8. Kept(1)
    BY <2>6, <2>7
  <2>9. Kept(2)
    BY <2>6, <2>8
  <2>10. Kept(3)
    BY <2>6, <2>9
  <2>11. Kept(4)
    BY <2>6, <2>10
  <2>12. unit \in {1, 2, 3, 4} /\ n <= unit /\ unit <= unit
    BY <1>2, <2>5, SMT
  <2>13. NotAbove(below[unit], above[unit])
    BY <2>8, <2>9, <2>10, <2>11, <2>12
  <2> QED
    BY <1>3, <2>13
<1> QED
  BY <1>5, <1>6

\* What is shown lies between the whole and the one after it.
LEMMA ShownBetween ==
  ASSUME NEW size, IsSize(size), size # <<>>
  PROVE  /\ FormatFileSize(size).scale = Scale(size) /\ FormatFileSize(size).unit = Unit(size)
         /\ FormatFileSize(size).shown \in Nat
         /\ FormatFileSize(size).shown >= Whole(size) * Scale(size)
         /\ FormatFileSize(size).shown <= (Whole(size) + 1) * Scale(size)
<1> DEFINE low   == LowOf(size)
           first == Whole(size) * Scale(size) + low.carry
           told == FormatFileSize(size)
<1>1. /\ low \in Lows(Scale(size)) /\ first \in Nat
      /\ told = [shown |-> IF Rounds(low, first) THEN first + 1 ELSE first,
                    scale |-> Scale(size), unit |-> Unit(size)]
  BY FormattedIs
<1>2. Scale(size) \in Scales /\ Whole(size) \in Nat
  BY ScaleIs, DigitsAre
<1>3. PICK whole \in Nat, scale \in Nat : whole = Whole(size) /\ scale = Scale(size) /\ scale \in Scales
  BY <1>2 DEF Scales
<1>4. PICK carry \in Nat : carry = low.carry /\ carry < scale
  <2>1. low.carry \in 0..(scale - 1)
    BY <1>1, <1>3 DEF Lows
  <2>2. \A c \in 0..(scale - 1) : c \in Nat /\ c < scale
    BY SMT
  <2> QED
    BY <2>1, <2>2
<1>5. first = whole * scale + carry
  BY <1>3, <1>4
<1>6. whole * scale + carry >= whole * scale /\ whole * scale + carry + 1 <= (whole + 1) * scale
  <2>1. CASE scale = 1
    BY <1>4, <2>1, SMT
  <2>2. CASE scale = 10
    BY <1>4, <2>2, SMT
  <2>3. CASE scale = 100
    BY <1>4, <2>3, SMT
  <2> QED
    BY <1>3, <2>1, <2>2, <2>3, SMT DEF Scales
<1>7. told.scale = scale /\ told.unit = Unit(size)
      /\ (told.shown = first \/ told.shown = first + 1)
  BY <1>1, <1>3
<1> HIDE DEF first, told
<1>8. whole * scale \in Nat /\ (whole + 1) * scale \in Nat
  <2>1. CASE scale = 1
    BY <2>1, SMT
  <2>2. CASE scale = 10
    BY <2>2, SMT
  <2>3. CASE scale = 100
    BY <2>3, SMT
  <2> QED
    BY <1>3, <2>1, <2>2, <2>3, SMT DEF Scales
<1>9. /\ told.shown \in Nat /\ told.shown >= whole * scale
      /\ told.shown <= (whole + 1) * scale
  BY <1>1, <1>5, <1>6, <1>7, <1>8, SMT
<1> QED
  BY <1>3, <1>7, <1>9 DEF told

\* Fewer of a unit are not shown as more, whichever decimals they have.
LEMMA WholesOrdered ==
  ASSUME NEW s \in Nat, NEW t \in Nat, NEW w \in Nat, NEW v \in Nat, NEW p \in Nat, NEW q \in Nat,
         w < v, p <= (w + 1) * s, q >= v * t,
         \/ s = 100 /\ t = 100
         \/ s = 100 /\ t = 10 /\ w < 10 /\ v >= 10
         \/ s = 100 /\ t = 1 /\ w < 10 /\ v >= 100
         \/ s = 10 /\ t = 10
         \/ s = 10 /\ t = 1 /\ w < 100 /\ v >= 100
         \/ s = 1 /\ t = 1
  PROVE  p * t <= q * s
<1>1. w + 1 <= v
  BY SMT
<1>2. CASE s = 100 /\ t = 100
  BY <1>1, <1>2, SMT
<1>3. CASE s = 100 /\ t = 10 /\ w < 10 /\ v >= 10
  BY <1>3, SMT
<1>4. CASE s = 100 /\ t = 1 /\ w < 10 /\ v >= 100
  BY <1>4, SMT
<1>5. CASE s = 10 /\ t = 10
  BY <1>1, <1>5, SMT
<1>6. CASE s = 10 /\ t = 1 /\ w < 100 /\ v >= 100
  BY <1>6, SMT
<1>7. CASE s = 1 /\ t = 1
  BY <1>1, <1>7, SMT
<1> QED
  BY <1>2, <1>3, <1>4, <1>5, <1>6, <1>7

\* No more decimals are not shown as more: what is below them rounds up both, or the larger.
LEMMA DecimalsOrdered ==
  ASSUME NEW size, IsSize(size), size # <<>>, NEW other, IsSize(other), other # <<>>,
         Whole(size) = Whole(other), Scale(size) = Scale(other),
         NotAbove(LowOf(size), LowOf(other))
  PROVE  FormatFileSize(size).shown <= FormatFileSize(other).shown
<1> DEFINE low   == LowOf(size)
           high  == LowOf(other)
           first == Whole(size) * Scale(size) + low.carry
           last  == Whole(other) * Scale(other) + high.carry
           p     == FormatFileSize(size).shown
           q     == FormatFileSize(other).shown
<1>1. /\ low \in Lows(Scale(size)) /\ p = IF Rounds(low, first) THEN first + 1 ELSE first
      /\ high \in Lows(Scale(size)) /\ q = IF Rounds(high, last) THEN last + 1 ELSE last
      /\ first \in Nat /\ last \in Nat
  BY FormattedIs
<1>2. PICK base \in Nat : base = Whole(size) * Scale(size) /\ base = Whole(other) * Scale(other)
  <2>1. Whole(size) \in Nat /\ Scale(size) \in Nat
    BY ScaleIs, DigitsAre, SMT DEF Scales
  <2>2. Whole(size) * Scale(size) \in Nat
    BY <2>1, SMT
  <2> QED
    BY <2>2
<1>3. /\ first = base + low.carry /\ last = base + high.carry
      /\ NotAbove(low, high)
  BY <1>2
<1> HIDE DEF low, high, first, last, p, q
<1>4. /\ low.carry \in Nat /\ low.top \in Nat /\ low.rest \in Nat
      /\ high.carry \in Nat /\ high.top \in Nat /\ high.rest \in Nat
  <2>1. /\ 0..(Scale(size) - 1) \subseteq Nat /\ Digits \subseteq Nat
    <3>1. Scale(size) \in Nat
      BY ScaleIs, SMT DEF Scales
    <3> QED
      BY <3>1, SMT DEF Digits, kDivisor
  <2> QED
    BY <1>1, <2>1 DEF Lows
<1>5. CASE low.carry < high.carry
  <2>1. first + 1 <= last
    BY <1>1, <1>3, <1>4, <1>5, SMT
  <2> QED
    BY <1>1, <2>1, SMT DEF p, q
<1>6. CASE ~(low.carry < high.carry)
  <2>1. first = last
    BY <1>3, <1>4, <1>6, SMT DEF NotAbove
  <2>2. /\ low.top < high.top \/ (low.top = high.top /\ (low.rest # 0 => high.rest # 0))
    BY <1>3, <1>4, <1>6, SMT DEF NotAbove
  <2>3. Rounds(low, first) => Rounds(high, last)
    BY <1>4, <2>1, <2>2, SMT DEF Rounds, kDivisor
  <2> QED
    BY <1>1, <2>1, <2>3, SMT DEF p, q
<1> QED
  BY <1>5, <1>6 DEF p, q

\* For any two sizes: what is larger is not shown as less.
LEMMA FormattedOrdered ==
  ASSUME NEW size, IsSize(size), NEW other, IsSize(other), SizeAtMost(size, other)
  PROVE  AtMost(FormatFileSize(size), FormatFileSize(other))
<1> DEFINE told == FormatFileSize(size)
           more    == FormatFileSize(other)
<1>1. CASE size = <<>>
  <2>1. told.shown = 0 /\ told.scale = 1 /\ told.unit = 0
    BY <1>1 DEF FormatFileSize
  <2>2. CASE other = <<>>
    <3>1. more.shown = 0 /\ more.scale = 1 /\ more.unit = 0
      BY <2>2 DEF FormatFileSize
    <3> QED
      BY <2>1, <3>1, SMT DEF AtMost
  <2>3. CASE other # <<>>
    <3> HIDE DEF told, more
    <3>1. PICK whole \in Nat, scale \in Nat, shown \in Nat :
            /\ whole # 0 /\ more.scale = scale /\ more.shown = shown
            /\ shown >= whole * scale /\ scale \in Scales
      <4>1. /\ Whole(other) \in Nat \ {0} /\ Scale(other) \in Scales
            /\ more.scale = Scale(other) /\ more.shown \in Nat
            /\ more.shown >= Whole(other) * Scale(other)
        BY <2>3, ScaleIs, DigitsAre, ShownBetween DEF more
      <4>2. Scale(other) \in Nat
        BY <4>1, SMT DEF Scales
      <4> QED
        BY <4>1, <4>2, Zenon
    <3>2. shown >= scale
      <4>1. CASE scale = 1
        BY <3>1, <4>1, SMT
      <4>2. CASE scale = 10
        BY <3>1, <4>2, SMT
      <4>3. CASE scale = 100
        BY <3>1, <4>3, SMT
      <4> QED
        BY <3>1, <4>1, <4>2, <4>3, SMT DEF Scales
    <3>3. more.unit \in Nat
      BY <2>3, DigitsAre, ShownBetween DEF more
    <3>4. 0 * scale <= shown * 1
      BY SMT
    <3> QED
      BY <2>1, <3>1, <3>2, <3>3, <3>4, SMT DEF AtMost, kDivisor, told, more
  <2> QED
    BY <2>2, <2>3
<1>2. CASE size # <<>> /\ other = <<>>
  <2>1. Len(other) = 0 /\ Len(size) \in Nat /\ Len(size) # 0
    <3>1. size \in Seq(Nat)
      BY DEF IsSize
    <3> QED
      BY <1>2, <3>1
  <2> QED
    BY <2>1, SMT DEF SizeAtMost
<1>3. CASE size # <<>> /\ other # <<>>
  <2>1. PICK s \in Nat, w \in Nat, p \in Nat, u \in Nat :
          /\ s = Scale(size) /\ w = Whole(size) /\ p = told.shown /\ u = Unit(size)
          /\ told.scale = s /\ told.unit = u /\ s \in Scales
          /\ p >= w * s /\ p <= (w + 1) * s /\ w # 0 /\ Len(size) = u + 1
    <3>1. /\ Scale(size) \in Scales /\ Unit(size) \in 0..4 /\ Whole(size) \in Nat \ {0}
          /\ told.scale = Scale(size) /\ told.unit = Unit(size) /\ told.shown \in Nat
          /\ told.shown >= Whole(size) * Scale(size)
          /\ told.shown <= (Whole(size) + 1) * Scale(size)
          /\ Len(size) = Unit(size) + 1
      BY <1>3, ScaleIs, DigitsAre, ShownBetween
    <3>2. Scale(size) \in Nat /\ Unit(size) \in Nat
      BY <3>1, SMT DEF Scales
    <3> QED
      BY <3>1, <3>2, Zenon
  <2>2. PICK t \in Nat, v \in Nat, q \in Nat, x \in Nat :
          /\ t = Scale(other) /\ v = Whole(other) /\ q = more.shown /\ x = Unit(other)
          /\ more.scale = t /\ more.unit = x /\ t \in Scales
          /\ q >= v * t /\ q <= (v + 1) * t /\ v # 0 /\ Len(other) = x + 1
    <3>1. /\ Scale(other) \in Scales /\ Unit(other) \in 0..4 /\ Whole(other) \in Nat \ {0}
          /\ more.scale = Scale(other) /\ more.unit = Unit(other) /\ more.shown \in Nat
          /\ more.shown >= Whole(other) * Scale(other)
          /\ more.shown <= (Whole(other) + 1) * Scale(other)
          /\ Len(other) = Unit(other) + 1
      BY <1>3, ScaleIs, DigitsAre, ShownBetween
    <3>2. Scale(other) \in Nat /\ Unit(other) \in Nat
      BY <3>1, SMT DEF Scales
    <3> QED
      BY <3>1, <3>2, Zenon
  <2>3. /\ \/ s = 1 /\ (u = 0 \/ w >= 100)
           \/ s = 10 /\ u # 0 /\ w >= 10 /\ w < 100
           \/ s = 100 /\ u # 0 /\ w >= 1 /\ w < 10
        /\ \/ t = 1 /\ (x = 0 \/ v >= 100)
           \/ t = 10 /\ x # 0 /\ v >= 10 /\ v < 100
           \/ t = 100 /\ x # 0 /\ v >= 1 /\ v < 10
        /\ u < 4 => w < 1024
        /\ u <= 4 /\ x <= 4
    <3>1. /\ \/ s = 1 /\ (u = 0 \/ w >= 100)
             \/ s = 10 /\ u # 0 /\ w >= 10 /\ w < 100
             \/ s = 100 /\ u # 0 /\ w >= 1 /\ w < 10
          /\ \/ t = 1 /\ (x = 0 \/ v >= 100)
             \/ t = 10 /\ x # 0 /\ v >= 10 /\ v < 100
             \/ t = 100 /\ x # 0 /\ v >= 1 /\ v < 10
      <4>1. /\ \/ Scale(size) = 1 /\ (Unit(size) = 0 \/ Whole(size) >= 100)
               \/ Scale(size) = 10 /\ Unit(size) # 0 /\ Whole(size) >= 10 /\ Whole(size) < 100
               \/ Scale(size) = 100 /\ Unit(size) # 0 /\ Whole(size) >= 1 /\ Whole(size) < 10
            /\ \/ Scale(other) = 1 /\ (Unit(other) = 0 \/ Whole(other) >= 100)
               \/ Scale(other) = 10 /\ Unit(other) # 0 /\ Whole(other) >= 10 /\ Whole(other) < 100
               \/ Scale(other) = 100 /\ Unit(other) # 0 /\ Whole(other) >= 1 /\ Whole(other) < 10
        BY <1>3, ScaleIs
      <4> HIDE DEF told, more
      <4> QED
        BY <2>1, <2>2, <4>1
    <3>2. (u < 4 => w \in Digits) /\ u \in 0..4 /\ x \in 0..4
      BY <1>3, <2>1, <2>2, DigitsAre
    <3>3. /\ \A k \in Digits : k < 1024
          /\ \A k \in 0..4 : k <= 4
      BY SMT DEF Digits, kDivisor
    <3> QED
      BY <3>1, <3>2, <3>3, SMT
  <2> HIDE DEF told, more
  <2>4. CASE u < x
    <3>1. w + 1 <= 1024 /\ u # x
      BY <2>3, <2>4, SMT
    <3>2. p <= 1024 * s /\ q >= t
      <4>1. p <= 1024 * s
        <5>1. CASE s = 1
          BY <2>1, <3>1, <5>1, SMT
        <5>2. CASE s = 10
          BY <2>1, <3>1, <5>2, SMT
        <5>3. CASE s = 100
          BY <2>1, <3>1, <5>3, SMT
        <5> QED
          BY <2>3, <5>1, <5>2, <5>3, SMT
      <4>2. q >= t
        <5>1. CASE t = 1
          BY <2>2, <5>1, SMT
        <5>2. CASE t = 10
          BY <2>2, <5>2, SMT
        <5>3. CASE t = 100
          BY <2>2, <5>3, SMT
        <5> QED
          BY <2>3, <5>1, <5>2, <5>3, SMT
      <4> QED
        BY <4>1, <4>2
    <3> QED
      BY <2>1, <2>2, <2>4, <3>1, <3>2, SMT DEF AtMost, kDivisor, told, more
  <2>5. CASE u = x
    <3> SUFFICES p * t <= q * s
      BY <2>1, <2>2, <2>5, SMT DEF AtMost, told, more
    <3>1. CASE w < v
      <4>1. \/ s = 100 /\ t = 100
            \/ s = 100 /\ t = 10 /\ w < 10 /\ v >= 10
            \/ s = 100 /\ t = 1 /\ w < 10 /\ v >= 100
            \/ s = 10 /\ t = 10
            \/ s = 10 /\ t = 1 /\ w < 100 /\ v >= 100
            \/ s = 1 /\ t = 1
        BY <2>3, <2>5, <3>1, SMT
      <4>2. p <= (w + 1) * s /\ q >= v * t
        BY <2>1, <2>2
      <4> QED
        BY <3>1, <4>1, <4>2, WholesOrdered
    <3>2. CASE w = v
      <4>1. s = t
        BY <2>3, <2>5, <3>2, SMT
      <4>2. NotAbove(LowOf(size), LowOf(other))
        BY <1>3, <2>1, <2>2, <2>5, <3>2, LowsOrdered
      <4>3. p <= q
        BY <1>3, <2>1, <2>2, <2>5, <3>2, <4>1, <4>2, DecimalsOrdered DEF told, more
      <4> QED
        BY <2>3, <4>1, <4>3, SMT
    <3>3. ASSUME w > v PROVE FALSE
      <4>1. size # other
        BY <2>1, <2>2, <3>3, SMT
      <4>2. Len(size) = Len(other) /\ Len(size) \in Nat /\ ~(Len(size) < Len(other))
        BY <2>1, <2>2, <2>5, SMT
      <4>3. PICK n \in DOMAIN size :
              size[n] < other[n] /\ \A m \in (n + 1)..Len(size) : size[m] = other[m]
        BY <4>1, <4>2 DEF SizeAtMost
      <4>4. n \in 1..Len(size)
        <5>1. size \in Seq(Nat)
          BY DEF IsSize
        <5> QED
          BY <5>1
      <4>5. CASE n = Len(size)
        <5>1. w < v
          BY <2>1, <2>2, <4>2, <4>3, <4>5 DEF Whole
        <5> QED
          BY <3>3, <5>1, SMT
      <4>6. CASE n # Len(size)
        <5>1. Len(size) \in (n + 1)..Len(size)
          BY <4>2, <4>4, <4>6, SMT
        <5>2. w = v
          BY <2>1, <2>2, <4>2, <4>3, <5>1 DEF Whole
        <5> QED
          BY <3>3, <5>2, SMT
      <4> QED
        BY <4>5, <4>6
    <3>4. w < v \/ w = v \/ w > v
      BY SMT
    <3> QED
      BY <3>1, <3>2, <3>3, <3>4, Zenon
  <2>6. CASE x < u
    <3>1. Len(size) = u + 1 /\ Len(other) = x + 1
      BY <2>1, <2>2
    <3>2. ~(u + 1 < x + 1) /\ u + 1 # x + 1
      BY <2>6, SMT
    <3> QED
      BY <3>1, <3>2 DEF SizeAtMost
  <2> QED
    BY <2>4, <2>5, <2>6, SMT
<1> QED
  BY <1>1, <1>2, <1>3

-----------------------------------------------------------------------------
\* What meta has printed: a size, and with --pretty that size formatted.
ToldInv ==
  command = "meta" /\ printed # <<>> =>
    /\ IsSize(printed[1].size)
    /\ pretty => printed[1].formatted = FormatFileSize(printed[1].size)

\* Only its last step prints anything of meta, and args_ is loaded before that.
LEMMA ToldKept ==
  ASSUME ReaderTypeOK, PrintedInv, ToldInv, [Next]_vars
  PROVE  ToldInv'
<1>1. ASSUME UNCHANGED <<command, printed, pretty>>
      PROVE  ToldInv'
  BY <1>1 DEF ToldInv
<1>2. CASE LoadArgs
  <2>1. printed = <<>> /\ printed' = printed
    BY <1>2 DEF LoadArgs, PrintedInv, Waiting, Terminate, End
  <2> QED
    BY <2>1 DEF ToldInv
<1>3. CASE OpenFile \/ FinishCat \/ Write \/ Rewrite \/ UNCHANGED vars
  BY <1>1, <1>3 DEF OpenFile, FinishCat, Write, Rewrite, End, given, vars
<1>4. CASE ReadHeader
  <2>1. UNCHANGED <<command, pretty>> /\ (command = "cat" \/ printed' = printed)
    BY <1>4 DEF ReadHeader, Terminate, Refuse, End, given
  <2>2. CASE command = "cat"
    BY <2>1, <2>2 DEF ToldInv
  <2> QED
    BY <1>1, <2>1, <2>2
<1>5. CASE ReadMessages
  <2>1. UNCHANGED <<command, pretty>> /\ (command = "cat" \/ printed' = printed)
    BY <1>5 DEF ReadMessages, TakeMessage, Terminate, Refuse, End, given
  <2>2. CASE command = "cat"
    BY <2>1, <2>2 DEF ToldInv
  <2> QED
    BY <1>1, <2>1, <2>2
<1>6. CASE FinishMeta
  <2>1. UNCHANGED <<command, pretty>>
    BY <1>6 DEF FinishMeta, Terminate, given
  <2>2. CASE printed' = printed
    BY <1>1, <2>1, <2>2
  <2>3. CASE printed' # printed
    <3>1. PICK size \in TotalSizes :
            printed' = <<[total |-> header.count, read |-> Len(read), pretty |-> pretty,
                          size |-> size, formatted |-> FormatSize(size)]>>
      BY <1>6, <2>3 DEF FinishMeta, Terminate
    <3>2. IsSize(size)
      <4>1. IsSize(<<>>)
        BY DEF IsSize, kUnits
      <4> QED
        BY <4>1, ReaderAssumption DEF TotalSizes
    <3>3. printed'[1].size = size /\ printed'[1].formatted = FormatSize(size)
      BY <3>1
    <3> QED
      BY <2>1, <3>2, <3>3 DEF ToldInv, FormatSize
  <2> QED
    BY <2>2, <2>3
<1> QED
  BY <1>2, <1>3, <1>4, <1>5, <1>6 DEF Next, Step

-----------------------------------------------------------------------------
ReaderInv == ReaderTypeOK /\ PrintedInv /\ FollowInv /\ ReadsBeginning /\ ToldInv

\* The invariant holds in every state of every behaviour, fair or not.
THEOREM ReaderInvariance == Spec => []ReaderInv
<1>1. Init => ReaderInv
  <2> SUFFICES ASSUME Init PROVE ReaderInv
    OBVIOUS
  <2>1. target \in File /\ target.messages \in Seq(Message)
    BY ReaderAssumption DEF Init, File
  <2>2. ReaderTypeOK
    <3>1. file \in Beginnings(target) \cup {Absent}
      BY <2>1, BeginningsOfFile DEF Init
    <3>2. header \in Header
      BY DEF Init, DefaultHeader, Header, FileTypes
    <3> QED
      <4>1. read \in Seq(Message)
        BY DEF Init
      <4> QED
        BY <3>1, <3>2, <4>1 DEF Init, ReaderTypeOK, Waiting
  <2>3. PrintedInv
    BY DEF Init, PrintedInv, OkAccountsForAll, MetaPrintsAllOrNothing, Waiting, Reading
  <2>4. FollowInv /\ ReadsBeginning
    BY <2>1 DEF Init, FollowInv, ReadsBeginning
  <2>5. ToldInv
    BY DEF Init, ToldInv
  <2> QED
    BY <2>2, <2>3, <2>4, <2>5 DEF ReaderInv
<1>2. ReaderInv /\ [Next]_vars => ReaderInv'
  BY TypesKept, PrintedKept, FollowKept, ToldKept DEF ReaderInv
<1> QED
  BY <1>1, <1>2, PTL DEF Spec

\* For every file and every writer: what a reader read is a beginning of what the
\* file will hold, and nothing but default messages after that.
THEOREM ReadsInOrder == Spec => []ReadsBeginning
<1>1. ReaderInv => ReadsBeginning
  BY DEF ReaderInv
<1> QED
  BY <1>1, ReaderInvariance, PTL

\* For every file and every writer: kOk accounts for each message the header counts.
THEOREM OkIsComplete == Spec => []OkAccountsForAll
<1>1. ReaderInv => OkAccountsForAll
  BY DEF ReaderInv, PrintedInv
<1> QED
  BY <1>1, ReaderInvariance, PTL

\* For every file and every writer: meta prints all of its answer or none of it.
THEOREM MetaIsWhole == Spec => []MetaPrintsAllOrNothing
<1>1. ReaderInv => MetaPrintsAllOrNothing
  BY DEF ReaderInv, PrintedInv
<1> QED
  BY <1>1, ReaderInvariance, PTL
\* For every size messages can add up to: what --pretty prints is within half a per
\* cent of it, in whatever unit.
THEOREM SizesTold == Spec => []SizesAccurate
<1>1. ReaderInv => SizesAccurate
  BY FormattedAccurate DEF ReaderInv, ToldInv, SizesAccurate
<1> QED
  BY <1>1, ReaderInvariance, PTL

\* For every two sizes: the larger is not printed as less.
THEOREM SizesInOrder == Spec => []SizesOrdered
<1>1. ReaderInv => SizesOrdered
  <2> SUFFICES ASSUME ReaderInv, command = "meta", printed # <<>>, pretty, NEW size \in Sizes,
                      SizeAtMost(printed[1].size, size)
               PROVE  AtMost(printed[1].formatted, FormattedSizes[size])
    BY DEF SizesOrdered
  <2>1. FormattedSizes[size] = FormatFileSize(size) /\ IsSize(size)
    BY ReaderAssumption DEF FormattedSizes
  <2>2. IsSize(printed[1].size) /\ printed[1].formatted = FormatFileSize(printed[1].size)
    BY DEF ReaderInv, ToldInv
  <2> QED
    BY <2>1, <2>2, FormattedOrdered
<1> QED
  BY <1>1, ReaderInvariance, PTL
=============================================================================
