----------------------------- MODULE Merge_proofs -----------------------------
(***************************************************************************)
(* Combine implements PbfMerge: for every set of files, languages, ids,    *)
(* command lines and initial contents, any number of runs, and every way   *)
(* the file system can fail but refusing to open what a run writes.        *)
(*                                                                         *)
(* The copying loop passes the positions of the inputs in their order; what*)
(* it has written lists the kept ones among those it has passed.           *)
(***************************************************************************)
EXTENDS Combine_proofs, FiniteSetTheorems

-----------------------------------------------------------------------------
(* The instance of PbfMerge speaks of the same files.                      *)

\* The definitions PbfMerge takes from PbfIo are those of Combine.
LEMMA SameFiles ==
  /\ Promise!EmptyFile = EmptyFile /\ Promise!DefaultMessage = DefaultMessage
  /\ Promise!NoId = NoId /\ Promise!LANGUAGE_UNSPECIFIED = LANGUAGE_UNSPECIFIED
  /\ Promise!DumpTypes = DumpTypes /\ Promise!OpenAlexTypes = OpenAlexTypes
  /\ \A file : Promise!Beginnings(file) = Beginnings(file)
  /\ \A file : Promise!HasHeader(file) = HasHeader(file)
<1>1. Promise!EmptyFile = EmptyFile /\ Promise!DefaultMessage = DefaultMessage
  BY DEF Promise!EmptyFile, EmptyFile, Promise!DefaultMessage, DefaultMessage, Promise!NoId,
         NoId, Promise!NoBody, NoBody
<1>2. Promise!NoId = NoId /\ Promise!LANGUAGE_UNSPECIFIED = LANGUAGE_UNSPECIFIED
  BY DEF Promise!NoId, NoId, Promise!LANGUAGE_UNSPECIFIED, LANGUAGE_UNSPECIFIED
<1>3. Promise!DumpTypes = DumpTypes /\ Promise!OpenAlexTypes = OpenAlexTypes
  BY DEF Promise!DumpTypes, DumpTypes, Promise!OpenAlexTypes, OpenAlexTypes
<1>4. \A messages : Promise!Parts(messages) = Parts(messages)
  BY DEF Promise!Parts, Parts
<1>5. \A file : Promise!Beginnings(file) = Beginnings(file)
  BY <1>1, <1>4 DEF Promise!Beginnings, Beginnings
<1>6. \A file : Promise!HasHeader(file) = HasHeader(file)
  BY DEF Promise!HasHeader, HasHeader
<1> QED
  BY <1>1, <1>2, <1>3, <1>5, <1>6

\* So is what PbfMerge counts sets with.
LEMMA SameCardinality == \A S : Promise!Cardinality(S) = Cardinality(S)
  BY DEF Promise!Cardinality, Cardinality, Promise!IsFiniteSet, IsFiniteSet

-----------------------------------------------------------------------------
(* Positions, and lists of what is at them.                                *)

\* Each of files counts its messages.
Counted(files) == DOMAIN files \subseteq Nat /\ \A n \in DOMAIN files : files[n].header.count \in Nat

\* The positions of files up to the k-th of the n-th file.
Upto(files, n, k) ==
  {p \in Promise!Positions(files) : p[1] < n \/ (p[1] = n /\ p[2] <= k)}

\* The messages at the kept positions of S, in order.
Lists(messages, files, S) ==
  /\ IsFiniteSet(S) /\ Len(messages) = Cardinality(S)
  /\ \A k \in 1..Len(messages) : \E p \in S :
       Promise!Rank(files, p) = k - 1 /\ messages[k] = Promise!At(files, p)

\* A position is a pair of numbers, within the files and their counts.
LEMMA PositionsAre ==
  ASSUME NEW files, Counted(files), NEW p
  PROVE  p \in Promise!Positions(files) <=>
           \E n \in DOMAIN files : \E k \in 1..files[n].header.count : p = <<n, k>>
  BY DEF Promise!Positions, Counted

\* The components of a position are numbers.
LEMMA PositionType ==
  ASSUME NEW files, Counted(files), NEW p \in Promise!Positions(files)
  PROVE  /\ p = <<p[1], p[2]>> /\ p[1] \in DOMAIN files /\ p[1] \in Nat
         /\ p[2] \in 1..files[p[1]].header.count /\ p[2] \in Nat
<1>1. PICK n \in DOMAIN files : \E k \in 1..files[n].header.count : p = <<n, k>>
  BY PositionsAre
<1>2. PICK k \in 1..files[n].header.count : p = <<n, k>>
  BY <1>1
<1>3. p[1] = n /\ p[2] = k
  BY <1>2
<1>4. n \in Nat /\ files[n].header.count \in Nat
  BY DEF Counted
<1> QED
  BY <1>2, <1>3, <1>4

\* Different kept positions have different ranks, where finitely many are kept.
LEMMA RanksDiffer ==
  ASSUME NEW files, Counted(files), IsFiniteSet(Promise!Kept(files)),
         NEW p \in Promise!Kept(files), NEW q \in Promise!Kept(files),
         Promise!Rank(files, p) = Promise!Rank(files, q)
  PROVE  p = q
<1> DEFINE Below(r) == {s \in Promise!Kept(files) : Promise!Precedes(s, r)}
<1>1. \A r \in Promise!Kept(files) : r = <<r[1], r[2]>> /\ r[1] \in Nat /\ r[2] \in Nat
  BY PositionType DEF Promise!Kept
<1>2. ASSUME NEW r \in Promise!Kept(files), NEW s \in Promise!Kept(files),
             Promise!Precedes(r, s), Cardinality(Below(r)) = Cardinality(Below(s))
      PROVE  FALSE
  <2>1. Below(r) \subseteq Below(s)
    BY <1>1, <1>2 DEF Promise!Precedes
  <2>2. r \in Below(s) /\ r \notin Below(r)
    BY <1>1, <1>2 DEF Promise!Precedes
  <2>3. IsFiniteSet(Below(s))
    BY FS_Subset
  <2>4. Below(r) = Below(s)
    BY <1>2, <2>1, <2>3, FS_Subset
  <2> QED
    BY <2>2, <2>4
<1>3. Cardinality(Below(p)) = Cardinality(Below(q))
  BY SameCardinality DEF Promise!Rank
<1>4. p = q \/ Promise!Precedes(p, q) \/ Promise!Precedes(q, p)
  BY <1>1 DEF Promise!Precedes
<1> QED
  BY <1>2, <1>3, <1>4

\* A list of all kept positions is the combination.
LEMMA ListIsCombination ==
  ASSUME NEW files, Counted(files), NEW S, NEW messages \in Seq(S),
         Lists(messages, files, Promise!Kept(files))
  PROVE  messages = Promise!Combination(files)
<1> DEFINE Kept == Promise!Kept(files)
           Place(k) == CHOOSE p \in Kept : Promise!Rank(files, p) = k - 1
<1>1. DOMAIN messages = 1..Cardinality(Kept)
  BY DEF Lists
<1>2. ASSUME NEW k \in 1..Cardinality(Kept) PROVE messages[k] = Promise!At(files, Place(k))
  <2>1. PICK p \in Kept : Promise!Rank(files, p) = k - 1 /\ messages[k] = Promise!At(files, p)
    BY <1>1 DEF Lists
  <2>2. Place(k) \in Kept /\ Promise!Rank(files, Place(k)) = k - 1
    BY <2>1
  <2>3. Place(k) = p
    BY <2>1, <2>2, RanksDiffer DEF Lists
  <2> QED
    BY <2>1, <2>3
<1>3. messages = [k \in 1..Cardinality(Kept) |-> messages[k]]
  BY <1>1
<1> QED
  BY <1>2, <1>3, SameCardinality DEF Promise!Combination

\* The next position follows exactly those up to the one before it.
LEMMA NextPosition ==
  ASSUME NEW files, Counted(files),
         NEW n \in DOMAIN files, NEW k \in Nat, k < files[n].header.count
  PROVE  /\ <<n, k + 1>> \in Promise!Positions(files) /\ <<n, k + 1>> \notin Upto(files, n, k)
         /\ Upto(files, n, k + 1) = Upto(files, n, k) \cup {<<n, k + 1>>}
         /\ \A q \in Promise!Positions(files) :
              Promise!Precedes(q, <<n, k + 1>>) <=> q \in Upto(files, n, k)
<1> DEFINE next == <<n, k + 1>>
<1>1. n \in Nat /\ files[n].header.count \in Nat /\ k + 1 \in 1..files[n].header.count
  BY DEF Counted
<1>2. next \in Promise!Positions(files)
  BY <1>1, PositionsAre
<1>3. \A q \in Promise!Positions(files) : q = <<q[1], q[2]>> /\ q[1] \in Nat /\ q[2] \in Nat
  BY PositionType
<1>4. next[1] = n /\ next[2] = k + 1
  OBVIOUS
<1>5. \A q \in Promise!Positions(files) :
        (q[1] < n \/ (q[1] = n /\ q[2] <= k + 1)) <=>
          ((q[1] < n \/ (q[1] = n /\ q[2] <= k)) \/ q = next)
  BY <1>1, <1>3
<1>6. \A q \in Promise!Positions(files) :
        Promise!Precedes(q, next) <=> (q[1] < n \/ (q[1] = n /\ q[2] <= k))
  BY <1>1, <1>3, <1>4 DEF Promise!Precedes
<1>7. next \notin Upto(files, n, k)
  BY <1>1, <1>4 DEF Upto
<1>8. Upto(files, n, k + 1) = Upto(files, n, k) \cup {next}
  BY <1>2, <1>5 DEF Upto
<1> QED
  BY <1>2, <1>6, <1>7, <1>8 DEF Upto

\* A list goes on with the message at the next position, if that one is kept.
LEMMA NextListed ==
  ASSUME NEW files, Counted(files),
         NEW n \in DOMAIN files, NEW k \in Nat, k < files[n].header.count,
         NEW S, NEW messages \in Seq(S), Promise!At(files, <<n, k + 1>>) \in S,
         Lists(messages, files, Promise!Kept(files) \cap Upto(files, n, k))
  PROVE  Lists(IF Promise!IsFirst(files, <<n, k + 1>>)
               THEN Append(messages, Promise!At(files, <<n, k + 1>>)) ELSE messages,
               files, Promise!Kept(files) \cap Upto(files, n, k + 1))
<1> DEFINE next == <<n, k + 1>>
           Old  == Promise!Kept(files) \cap Upto(files, n, k)
           New  == Promise!Kept(files) \cap Upto(files, n, k + 1)
<1> HIDE DEF next
<1>1. /\ next \in Promise!Positions(files) /\ next \notin Old
      /\ Upto(files, n, k + 1) = Upto(files, n, k) \cup {next}
      /\ \A q \in Promise!Positions(files) : Promise!Precedes(q, next) <=> q \in Upto(files, n, k)
  BY NextPosition DEF next
<1>2. CASE ~Promise!IsFirst(files, next)
  <2>1. New = Old
    BY <1>1, <1>2 DEF Promise!Kept
  <2> QED
    BY <1>2, <2>1 DEF next
<1>3. CASE Promise!IsFirst(files, next)
  <2> DEFINE longer == Append(messages, Promise!At(files, next))
  <2>1. New = Old \cup {next} /\ next \in Promise!Kept(files)
    BY <1>1, <1>3 DEF Promise!Kept
  <2>2. Promise!Rank(files, next) = Cardinality(Old)
    <3>1. {q \in Promise!Kept(files) : Promise!Precedes(q, next)} = Old
      BY <1>1 DEF Promise!Kept
    <3> QED
      BY <3>1, SameCardinality DEF Promise!Rank
  <2>3. IsFiniteSet(New) /\ Cardinality(New) = Cardinality(Old) + 1
    <3>1. IsFiniteSet(Old) /\ next \notin Old
      BY <1>1 DEF Lists
    <3> QED
      BY <2>1, <3>1, FS_AddElement
  <2>4. /\ Len(longer) = Len(messages) + 1 /\ Len(messages) \in Nat
        /\ \A m \in 1..Len(messages) : longer[m] = messages[m]
        /\ longer[Len(messages) + 1] = Promise!At(files, next)
    BY DEF next
  <2>5. Len(messages) = Cardinality(Old)
    BY DEF Lists
  <2>6. ASSUME NEW m \in 1..Len(longer)
        PROVE  \E p \in New : Promise!Rank(files, p) = m - 1 /\ longer[m] = Promise!At(files, p)
    <3>1. CASE m \in 1..Len(messages)
      <4>1. PICK p \in Old : Promise!Rank(files, p) = m - 1 /\ messages[m] = Promise!At(files, p)
        BY <3>1 DEF Lists
      <4> QED
        BY <2>1, <2>4, <3>1, <4>1
    <3>2. CASE m = Len(messages) + 1
      BY <2>1, <2>2, <2>4, <2>5, <3>2
    <3> QED
      BY <2>4, <3>1, <3>2
  <2>7. Lists(longer, files, New)
    BY <2>3, <2>4, <2>5, <2>6 DEF Lists
  <2> QED
    BY <1>3, <2>7 DEF next
<1> QED
  BY <1>2, <1>3

-----------------------------------------------------------------------------
(* What the loops have done of the combination.                            *)

\* The positions CopyMessagesToTemp has passed.
Passed == Upto(Promise!Inputs, i, j)

\* The header counts that ReadHeaders keeps are those of the first n inputs.
CountsKept(n) ==
  /\ Len(message_counts) = n
  /\ \A m \in 1..n : message_counts[m] = Promise!Inputs[m].header.count

\* The inputs are of a type ReadGenericMessage knows, or nothing has been read of
\* them; the ids seen are those passed; the kept messages passed are written.
CopyInv ==
  /\ file_type # "UNSPECIFIED" /\ (file_type = "OTHER" => Passed = {})
  /\ CountsKept(Len(inputs))
  /\ seen_ids = IF file_type \in OpenAlexTypes
                THEN {Promise!At(Promise!Inputs, p).id : p \in Passed} \ {NoId} ELSE {}
  /\ Lists(tmp_output, Promise!Inputs, Promise!Kept(Promise!Inputs) \cap Passed)

Copied == pc \in {"WriteHeader", "CopyTemp", "CleanupTempFile", "CloseStreams"}

\* From step to step, what a run has found out of its inputs, written of their
\* combination and decided about it.
MergeInv ==
  /\ pc \in Steps \ {"LoadArgs"} => inputs # <<>>
  /\ pc \in {"ReadHeaders", "CopyMessages"} =>
       opened = {n \in DOMAIN inputs : before[inputs[n]] # Absent}
  /\ pc \in {"LoadArgs", "OpenStreams", "ReadHeaders"} => j = 0 /\ seen_ids = {}
  /\ pc \in {"LoadArgs", "OpenStreams"} => message_counts = <<>>
  /\ pc \in {"LoadArgs", "OpenStreams", "ReadHeaders"} /\ i = 1 => file_type = "UNSPECIFIED"
  /\ pc = "ReadHeaders" => CountsKept(i - 1)
  /\ pc = "CopyMessages" => CopyInv
  /\ Copied => /\ Promise!Combinable(Promise!Inputs)
               /\ tmp_output = Promise!Combination(Promise!Inputs)
  /\ Copied /\ pc # "WriteHeader" =>
       \E lang \in HeaderLanguages :
         out_stream.header =
           [type |-> file_type, count |-> Len(tmp_output), language |-> lang]
  /\ pc = "Rescue" => ~Promise!Combinable(Promise!Inputs)

-----------------------------------------------------------------------------
(* What is known of the inputs.                                            *)

\* Where no open is refused, both outputs are open.
LEMMA AllOpened ==
  ASSUME TypeOK, StreamsInv, "open" \notin Failures
  PROVE  unopened = {}
  BY DEF TypeOK, StreamsInv

\* What PbfMerge calls the inputs stays the same as long as their paths do and what
\* is there does.
LEMMA InputsSame ==
  ASSUME UNCHANGED inputs, \A n \in DOMAIN inputs : disk'[inputs[n]] = disk[inputs[n]]
  PROVE  Promise!Inputs' = Promise!Inputs
  BY DEF Promise!Inputs

\* PbfMerge's inputs are the files at the paths, some file or none.
LEMMA InputsType ==
  ASSUME TypeOK
  PROVE  /\ DOMAIN Promise!Inputs = DOMAIN inputs /\ DOMAIN inputs = 1..Len(inputs)
         /\ \A n \in DOMAIN inputs :
              /\ inputs[n] \in Files
              /\ Promise!Inputs[n] = disk[inputs[n]]
              /\ Promise!Inputs[n] \in File \cup {Absent}
  BY DEF TypeOK, Promise!Inputs

\* An accepted input is a file with a header of the one type, which nothing of the run
\* has changed.
LEMMA AcceptedInput ==
  ASSUME TypeOK, InputsInv, unopened = {}, NEW n \in DOMAIN inputs, Accepted(n)
  PROVE  /\ inputs[n] # output /\ Promise!Inputs[n] = before[inputs[n]]
         /\ Promise!Inputs[n] \in File /\ HasHeader(Promise!Inputs[n])
         /\ Promise!Inputs[n].header \in Header
         /\ Promise!Inputs[n].header.type = file_type
<1>1. inputs[n] # output /\ inputs[n] \in Files
  BY InputsType DEF Accepted
<1>2. Promise!Inputs[n] = before[inputs[n]]
  BY <1>1, InputsType DEF InputsInv
<1>3. HasHeader(Promise!Inputs[n]) /\ Promise!Inputs[n].header.type = file_type
  BY <1>2 DEF Accepted
<1>4. Promise!Inputs[n] \in File
  BY <1>3, InputsType DEF HasHeader
<1> QED
  BY <1>1, <1>2, <1>3, <1>4 DEF HasHeader, File

\* When all inputs are accepted, their positions can be counted, and their type is
\* the one the run has found.
LEMMA AllAccepted ==
  ASSUME TypeOK, InputsInv, unopened = {}, \A n \in DOMAIN inputs : Accepted(n)
  PROVE  /\ Counted(Promise!Inputs)
         /\ inputs # <<>> => Promise!Type(Promise!Inputs) = file_type
<1>1. Counted(Promise!Inputs)
  BY InputsType, AcceptedInput DEF Counted, Header
<1>2. ASSUME inputs # <<>> PROVE Promise!Type(Promise!Inputs) = file_type
  <2>1. 1 \in DOMAIN inputs
    BY <1>2 DEF TypeOK
  <2> QED
    BY <2>1, AcceptedInput DEF Promise!Type
<1> QED
  BY <1>1, <1>2

\* When all inputs are accepted, and those of a type that cannot be read hold
\* nothing, they have a combination.
LEMMA AcceptedCombinable ==
  ASSUME TypeOK, InputsInv, unopened = {}, \A n \in DOMAIN inputs : Accepted(n),
         LanguagesFollow(DOMAIN inputs), inputs # <<>>, file_type # "UNSPECIFIED",
         file_type = "OTHER" => \A n \in DOMAIN inputs : Promise!Inputs[n].header.count = 0
  PROVE  Promise!Combinable(Promise!Inputs)
<1>1. DOMAIN Promise!Inputs = DOMAIN inputs /\ Promise!Inputs # <<>>
  BY InputsType DEF TypeOK
<1>2. Promise!Type(Promise!Inputs) = file_type
  BY AllAccepted
<1>3. \A n \in DOMAIN inputs : HasHeader(Promise!Inputs[n]) /\ Promise!Inputs[n].header.type = file_type
  BY AcceptedInput
<1>4. file_type \in DumpTypes => Promise!LanguagesAgree(Promise!Inputs)
  <2>1. \A n \in DOMAIN inputs : Promise!Inputs[n].header.language = Lang(n)
    BY AcceptedInput DEF Lang
  <2> QED
    BY <1>1, <2>1, SameFiles DEF LanguagesFollow, Promise!LanguagesAgree
<1>5. file_type \in OpenAlexTypes \cup DumpTypes \cup {"OTHER"}
  BY DEF TypeOK, FileTypes
<1> QED
  BY <1>1, <1>2, <1>3, <1>4, <1>5, SameFiles DEF Promise!Combinable

\* An input without a header of a type that a command takes, or of another type than
\* one that was accepted before, has no combination with any others.
LEMMA NotCombinable ==
  ASSUME TypeOK, NEW n \in DOMAIN inputs,
         \/ ~HasHeader(Promise!Inputs[n])
         \/ Promise!Inputs[n].header.type \notin DumpTypes \cup OpenAlexTypes \cup {"OTHER"}
         \/ \E m \in DOMAIN inputs : Promise!Inputs[m].header.type # Promise!Inputs[n].header.type
         \/ Promise!Inputs[n].header.type = "OTHER" /\ Promise!Inputs[n].header.count # 0
  PROVE  ~Promise!Combinable(Promise!Inputs)
<1>1. DOMAIN Promise!Inputs = DOMAIN inputs
  BY InputsType
<1>2. "OTHER" \notin DumpTypes \cup OpenAlexTypes
  BY DEF DumpTypes, OpenAlexTypes
<1> QED
  BY <1>1, <1>2, SameFiles DEF Promise!Combinable

-----------------------------------------------------------------------------
(* MergeInv is an invariant.                                               *)

\* Before the first run nothing has been read.
LEMMA InitMergeInv == Init => MergeInv
  BY DEF Init, MergeInv, Steps, Copied

\* A run that is over has nothing left to keep.
LEMMA EndedMergeInv ==
  ASSUME pc' = "ended"
  PROVE  MergeInv'
  BY DEF MergeInv, Steps, Copied

\* What is on disk in place of an input that was not opened has no header.
LEMMA Unopened ==
  ASSUME TypeOK, DiskInv, InputsInv, MergeInv, unopened = {}, pc = "ReadHeaders",
         NEW n \in DOMAIN inputs
  PROVE  /\ HasHeader(Content(n)) => Content(n) = Promise!Inputs[n]
         /\ ~HasHeader(Content(n)) => ~HasHeader(Promise!Inputs[n])
<1>1. inputs[n] \in Files /\ Promise!Inputs[n] = disk[inputs[n]]
  BY InputsType
<1>2. CASE n \in opened
  BY <1>1, <1>2 DEF Content
<1>3. CASE n \notin opened
  <2>1. before[inputs[n]] = Absent
    BY <1>3 DEF MergeInv
  <2>2. disk[inputs[n]] = Absent \/ disk[inputs[n]] = EmptyFile
    BY <1>1, <2>1 DEF InputsInv, DiskInv
  <2> QED
    BY <1>1, <1>3, <2>2 DEF Content, HasHeader, EmptyFile
<1> QED
  BY <1>2, <1>3

\* The inputs ReadHeaders refuses have no combination; of those it accepts it keeps
\* the counts.
LEMMA ReadHeadersMergeInv ==
  ASSUME TypeOK, StreamsInv, DiskInv, InputsInv, MergeInv, "open" \notin Failures, ReadHeaders
  PROVE  MergeInv'
<1> USE DEF args, headers, copying, faults
<1>1. unopened = {} /\ pc = "ReadHeaders"
  BY AllOpened DEF ReadHeaders
<1>2. ASSUME UNCHANGED <<disk, inputs>> PROVE Promise!Inputs' = Promise!Inputs
  BY <1>2, InputsSame
<1>3. ASSUME i <= Len(inputs), NEW read \in ReadPbfHeader(Content(i)), ReadHeader(read)
      PROVE  MergeInv'
  <2>1. i \in DOMAIN inputs /\ inputs # <<>>
    BY <1>3 DEF TypeOK
  <2>2. Content(i) \in File \cup {Absent}
    BY <2>1, ContentType
  <2>3. CASE Terminate
    BY <2>3, EndedMergeInv DEF Terminate, End
  <2>4. ASSUME ThrowUnsupported, ~Promise!Combinable(Promise!Inputs) PROVE MergeInv'
    BY <1>2, <2>1, <2>4 DEF ThrowUnsupported, Goto, MergeInv, Steps, Copied
  <2>5. ASSUME read.raise = UnsupportedFileType PROVE ~Promise!Combinable(Promise!Inputs)
    <3>1. HasHeader(Content(i)) => Content(i).header.type = "UNSPECIFIED"
      BY <2>5 DEF ReadPbfHeader, ReadMessage, CheckHeader, Value, Raise, Nothing, Uncaught,
                  UnsupportedFileType
    <3> QED
      BY <1>1, <2>1, <3>1, Unopened, NotCombinable DEF DumpTypes, OpenAlexTypes
  <2>6. ASSUME read.raise = Nothing, ~TypeMatches(read.value)
        PROVE  ~Promise!Combinable(Promise!Inputs)
    <3>1. HasHeader(Content(i)) /\ read.value = Content(i).header
      BY <2>2, <2>6, ReadPbfHeaderReturns
    <3>2. Promise!Inputs[i].header.type # file_type /\ file_type # "UNSPECIFIED"
      BY <1>1, <2>1, <2>6, <3>1, Unopened DEF TypeMatches
    <3>3. i # 1 => 1 \in DOMAIN inputs /\ 1 \in 1..(i - 1)
      BY <2>1 DEF TypeOK
    <3>4. CASE i # 1
      <4>1. Accepted(1)
        BY <1>1, <3>3, <3>4 DEF InputsInv
      <4>2. Promise!Inputs[1].header.type = file_type
        BY <1>1, <3>3, <3>4, <4>1, AcceptedInput
      <4> QED
        BY <2>1, <3>2, <3>3, <3>4, <4>2, NotCombinable
    <3>5. CASE i = 1
      BY <1>1, <3>2, <3>5 DEF MergeInv
    <3> QED
      BY <3>4, <3>5
  <2>7. ASSUME read.raise = Nothing, AcceptHeader(read.value) PROVE MergeInv'
    <3>1. HasHeader(Content(i)) /\ read.value = Content(i).header /\ read.value \in Header
      BY <2>2, <2>7, ReadPbfHeaderReturns
    <3>2. read.value.count = Promise!Inputs[i].header.count /\ read.value.count \in Nat
      BY <1>1, <2>1, <3>1, Unopened DEF Header
    <3>3. UNCHANGED <<disk, inputs, pc, opened, before, j, seen_ids>> /\ i' - 1 = i
                 /\ i' # 1
      BY <2>7 DEF AcceptHeader, TypeOK
    <3>4. CountsKept(i - 1)'
      <4>1. CountsKept(i - 1) /\ message_counts \in Seq(Nat) /\ i \in Nat
        BY <1>1 DEF MergeInv, TypeOK
      <4>2. message_counts' = Append(message_counts, read.value.count)
        BY <2>7 DEF AcceptHeader
      <4>3. Len(message_counts') = i
        BY <3>2, <4>1, <4>2 DEF CountsKept
      <4>4. ASSUME NEW m \in 1..i PROVE message_counts'[m] = Promise!Inputs[m].header.count
        BY <3>2, <4>1, <4>2 DEF CountsKept
      <4> QED
        BY <1>2, <3>3, <4>3, <4>4 DEF CountsKept
    <3> QED
      BY <1>1, <3>3, <3>4 DEF MergeInv, Steps, Copied
  <2> QED
    BY <1>3, <2>3, <2>4, <2>5, <2>6, <2>7 DEF ReadHeader
<1>4. ASSUME i > Len(inputs), Goto("CopyMessages"), i' = 1,
             UNCHANGED <<disk, temp, args, headers, j, seen_ids, total_written, tmp_output,
                         out_stream, before, faults, runs>>
      PROVE  MergeInv'
  <2>1. Promise!Inputs' = Promise!Inputs /\ inputs # <<>> /\ i = Len(inputs) + 1
    BY <1>1, <1>2, <1>4 DEF MergeInv, InputsInv, Steps, TypeOK
  <2>2. file_type # "UNSPECIFIED" /\ Counted(Promise!Inputs)
    <3>1. i # 1 /\ (1..(i - 1)) = DOMAIN inputs
      BY <2>1 DEF TypeOK
    <3> QED
      BY <1>1, <3>1, AllAccepted DEF InputsInv
  <2>3. Upto(Promise!Inputs, 1, 0) = {}
    BY <2>2, PositionType, InputsType DEF Upto, TypeOK
  <2>4. Passed' = {}
    BY <1>1, <1>4, <2>1, <2>3 DEF Passed, MergeInv
  <2>5. seen_ids' = {} /\ tmp_output' = <<>> /\ CountsKept(Len(inputs))'
    BY <1>1, <1>4, <2>1 DEF MergeInv, StreamsInv, CountsKept
  <2>6. Lists(<<>>, Promise!Inputs, {})
    BY FS_EmptySet DEF Lists
  <2>7. CopyInv'
    BY <1>4, <2>1, <2>2, <2>4, <2>5, <2>6 DEF CopyInv
  <2> QED
    BY <1>1, <1>4, <2>1, <2>7 DEF Goto, MergeInv, Steps, Copied
<1> QED
  BY <1>3, <1>4 DEF ReadHeaders

\* While messages are copied, every input is open, accepted and counted.
LEMMA CopyingFrom ==
  ASSUME TypeOK, StreamsInv, InputsInv, MergeInv, "open" \notin Failures, CopyMessages
  PROVE  /\ pc = "CopyMessages" /\ CopyInv /\ i \in DOMAIN inputs /\ inputs # <<>>
         /\ Counted(Promise!Inputs) /\ Promise!Type(Promise!Inputs) = file_type
         /\ Promise!Inputs[i] \in File /\ HasHeader(Promise!Inputs[i])
         /\ Promise!Inputs[i].header.type = file_type
         /\ Content(i) = Promise!Inputs[i]
         /\ message_counts[i] = Promise!Inputs[i].header.count
<1>1. pc = "CopyMessages" /\ CopyInv /\ i \in DOMAIN inputs /\ inputs # <<>>
  BY DEF CopyMessages, MergeInv, Steps, TypeOK
<1>2. unopened = {} /\ \A n \in DOMAIN inputs : Accepted(n)
  BY <1>1, AllOpened DEF InputsInv, Validated
<1>3. Counted(Promise!Inputs) /\ Promise!Type(Promise!Inputs) = file_type
  BY <1>1, <1>2, AllAccepted
<1>4. /\ Promise!Inputs[i] \in File /\ HasHeader(Promise!Inputs[i])
      /\ Promise!Inputs[i].header.type = file_type /\ Promise!Inputs[i] = before[inputs[i]]
  BY <1>1, <1>2, AcceptedInput
<1>5. Content(i) = Promise!Inputs[i]
  <2>1. i \in opened
    BY <1>1, <1>4 DEF MergeInv, HasHeader
  <2> QED
    BY <1>1, <2>1, InputsType DEF Content
<1>6. message_counts[i] = Promise!Inputs[i].header.count
  BY <1>1, InputsType DEF CopyInv, CountsKept
<1> QED
  BY <1>1, <1>3, <1>4, <1>5, <1>6

\* What is read of an input's next message is what PbfMerge finds at its position.
LEMMA ReadsAt ==
  ASSUME TypeOK, NEW files, NEW n, files[n] \in File, NEW type,
         NEW read \in ReadGenericMessage(files[n], j + 1, type), read.raise = Nothing
  PROVE  /\ type \in DumpTypes \cup OpenAlexTypes
         /\ read.value = Promise!At(files, <<n, j + 1>>)
<1>1. type \in DumpTypes \cup OpenAlexTypes
  BY DEF ReadGenericMessage, Raise, Nothing, UnsupportedFileType
<1>2. read \in ReadMessage(HasMessage(files[n], j + 1), files[n].messages[j + 1], DefaultMessage)
  BY <1>1 DEF ReadGenericMessage
<1>3. HasMessage(files[n], j + 1) <=> j + 1 <= Len(files[n].messages)
  <2>1. j + 1 \in Nat \ {0} /\ Len(files[n].messages) \in Nat /\ files[n] # Absent
    BY PbfIoAssumption DEF TypeOK, File
  <2> QED
    BY <2>1 DEF HasMessage
<1>4. read.value = IF j + 1 <= Len(files[n].messages) THEN files[n].messages[j + 1]
                   ELSE DefaultMessage
  BY <1>2, <1>3 DEF ReadMessage, Value, Raise, Nothing, Uncaught
<1> QED
  BY <1>1, <1>4, SameFiles DEF Promise!At

\* One message copied, or left out because its id was seen: the run has passed one
\* position more, and lists it if it is kept.
LEMMA CopyMessageMergeInv ==
  ASSUME TypeOK, StreamsInv, InputsInv, MergeInv, "open" \notin Failures, CopyMessages,
         j < message_counts[i],
         NEW read \in ReadGenericMessage(Content(i), j + 1, file_type), read.raise = Nothing,
         CopyMessage(read.value)
  PROVE  MergeInv'
<1> DEFINE files == Promise!Inputs
           next  == <<i, j + 1>>
           message == read.value
<1>1. /\ pc = "CopyMessages" /\ CopyInv /\ i \in DOMAIN files /\ j \in Nat
      /\ Counted(files) /\ Promise!Type(files) = file_type
      /\ j < files[i].header.count /\ inputs # <<>>
  BY CopyingFrom, InputsType DEF TypeOK
<1>2. /\ file_type \in DumpTypes \cup OpenAlexTypes
      /\ message = Promise!At(files, next) /\ message \in Message
  BY CopyingFrom, ReadsAt, MessageRead
<1>3. Promise!Inputs' = files
  BY InputsSame DEF CopyMessage, args
<1>4. Passed = Upto(files, i, j) /\ Passed' = Upto(files, i, j + 1)
  BY <1>3 DEF CopyMessage, Passed
<1>5. /\ next \in Promise!Positions(files) /\ Passed' = Passed \cup {next}
      /\ \A q \in Promise!Positions(files) : Promise!Precedes(q, next) <=> q \in Passed
  BY <1>1, <1>4, NextPosition
<1>6. seen_ids' = IF file_type \in OpenAlexTypes
                  THEN {Promise!At(files, p).id : p \in Passed'} \ {NoId} ELSE {}
  BY <1>1, <1>2, <1>5 DEF CopyMessage, SeenWith, CopyInv
<1>7. Copies(message) <=> Promise!IsFirst(files, next)
  <2>1. CASE file_type \notin OpenAlexTypes
    BY <1>1, <2>1, SameFiles DEF Copies, Promise!IsFirst
  <2>2. CASE file_type \in OpenAlexTypes
    <3>1. seen_ids = {Promise!At(files, p).id : p \in Passed} \ {NoId}
      BY <1>1, <2>2 DEF CopyInv
    <3>2. message.id = NoId \/ (message.id \notin seen_ids <=>
            \A p \in Passed : Promise!At(files, p).id # message.id)
      BY <3>1
    <3>3. Passed \subseteq Promise!Positions(files)
      BY <1>4 DEF Upto
    <3> QED
      BY <1>1, <1>2, <1>5, <2>2, <3>2, <3>3, SameFiles DEF Copies, Promise!IsFirst
  <2> QED
    BY <2>1, <2>2
<1>8. tmp_output' = IF Promise!IsFirst(files, next) THEN Append(tmp_output, message)
                    ELSE tmp_output
  BY <1>7 DEF CopyMessage
<1>9. Lists(tmp_output', files, Promise!Kept(files) \cap Passed')
  <2>1. Lists(tmp_output, files, Promise!Kept(files) \cap Upto(files, i, j))
    BY <1>1, <1>4 DEF CopyInv
  <2>2. tmp_output \in Seq(Message)
    BY DEF TypeOK
  <2> QED
    BY <1>1, <1>2, <1>4, <1>8, <2>1, <2>2, NextListed
<1>10. UNCHANGED <<disk, pc, inputs, opened, file_type, message_counts, before>>
  BY DEF CopyMessage, args, headers
<1>11. CopyInv'
  <2>1. CountsKept(Len(inputs))'
    BY <1>1, <1>3, <1>10 DEF CopyInv, CountsKept
  <2>2. file_type # "UNSPECIFIED" /\ file_type # "OTHER"
    BY <1>1, <1>2 DEF CopyInv, DumpTypes, OpenAlexTypes
  <2> QED
    BY <1>3, <1>6, <1>9, <1>10, <2>1, <2>2 DEF CopyInv
<1> QED
  BY <1>1, <1>10, <1>11 DEF MergeInv, Steps, Copied

\* Copying keeps MergeInv: the messages it refuses to read are of inputs that have no
\* combination, and an input is left when the run has passed all of its positions.
LEMMA CopyMessagesMergeInv ==
  ASSUME TypeOK, StreamsInv, InputsInv, MergeInv, "open" \notin Failures, CopyMessages
  PROVE  MergeInv'
<1>1. /\ pc = "CopyMessages" /\ CopyInv /\ i \in DOMAIN inputs /\ inputs # <<>>
      /\ Counted(Promise!Inputs)
      /\ message_counts[i] = Promise!Inputs[i].header.count
      /\ Promise!Inputs[i].header.type = file_type
  BY CopyingFrom
<1>2. ASSUME UNCHANGED <<disk, inputs>> PROVE Promise!Inputs' = Promise!Inputs
  BY <1>2, InputsSame
<1>3. CASE Terminate
  BY <1>3, EndedMergeInv DEF Terminate, End
<1>4. ASSUME j < message_counts[i],
             NEW read \in ReadGenericMessage(Content(i), j + 1, file_type),
             read.raise = UnsupportedFileType, ThrowUnsupported
      PROVE  MergeInv'
  <2>1. file_type \notin DumpTypes \cup OpenAlexTypes
    BY <1>4 DEF ReadGenericMessage, ReadMessage, Value, Raise, Nothing, Uncaught,
                UnsupportedFileType
  <2>2. file_type = "OTHER"
    BY <1>1, <2>1 DEF TypeOK, FileTypes, CopyInv
  <2>3. Promise!Inputs[i].header.count # 0
    BY <1>1, <1>4 DEF TypeOK
  <2>4. ~Promise!Combinable(Promise!Inputs)
    BY <1>1, <2>2, <2>3, NotCombinable
  <2> QED
    BY <1>1, <1>2, <1>4, <2>4 DEF ThrowUnsupported, Goto, MergeInv, Steps, Copied, args
<1>5. ASSUME j >= message_counts[i], NextInput PROVE MergeInv'
  <2>1. /\ UNCHANGED <<disk, pc, inputs, opened, file_type, message_counts, before, seen_ids,
                       tmp_output>>
        /\ i' = i + 1 /\ j' = 0
    BY <1>5 DEF NextInput, args, headers
  <2>2. Promise!Inputs' = Promise!Inputs
    BY <1>2, <2>1
  <2>3. Passed' = Passed
    <3>1. ASSUME NEW p \in Promise!Positions(Promise!Inputs)
          PROVE  (p[1] < i + 1 \/ (p[1] = i + 1 /\ p[2] <= 0)) <=>
                 (p[1] < i \/ (p[1] = i /\ p[2] <= j))
      <4>1. /\ p[1] \in Nat /\ p[2] \in Nat /\ p[2] > 0
            /\ p[1] = i => p[2] <= message_counts[i]
        BY <1>1, PositionType
      <4>2. i \in Nat /\ j \in Nat /\ message_counts[i] \in Nat
        BY <1>1 DEF TypeOK, Counted, Promise!Inputs
      <4> QED
        BY <1>5, <4>1, <4>2
    <3> QED
      BY <2>1, <2>2, <3>1 DEF Passed, Upto
  <2>4. CopyInv'
    BY <1>1, <2>1, <2>2, <2>3 DEF CopyInv, CountsKept
  <2> QED
    BY <1>1, <2>1, <2>4 DEF MergeInv, Steps, Copied
<1> QED
  BY <1>3, <1>4, <1>5, CopyMessageMergeInv DEF CopyMessages

\* When all inputs have been passed, what is written is their combination.
LEMMA CloseTempMergeInv ==
  ASSUME TypeOK, StreamsInv, InputsInv, MergeInv, "open" \notin Failures, CloseTemp
  PROVE  MergeInv'
<1> DEFINE files == Promise!Inputs
<1>1. /\ pc = "CopyMessages" /\ CopyInv /\ inputs # <<>> /\ i > Len(inputs)
      /\ unopened = {} /\ \A n \in DOMAIN inputs : Accepted(n)
      /\ LanguagesFollow(DOMAIN inputs)
  BY AllOpened DEF CloseTemp, MergeInv, Steps, InputsInv, Validated
<1>2. Counted(files) /\ DOMAIN files = DOMAIN inputs
  BY <1>1, AllAccepted, InputsType
<1>3. Passed = Promise!Positions(files)
  <2>1. ASSUME NEW p \in Promise!Positions(files) PROVE p[1] < i
    BY <1>1, <1>2, <2>1, PositionType DEF TypeOK
  <2> QED
    BY <2>1 DEF Passed, Upto
<1>4. tmp_output = Promise!Combination(files)
  <2>1. Promise!Kept(files) \cap Passed = Promise!Kept(files)
    BY <1>3 DEF Promise!Kept
  <2>2. tmp_output \in Seq(Message) /\ Lists(tmp_output, files, Promise!Kept(files))
    BY <1>1, <2>1 DEF TypeOK, CopyInv
  <2> QED
    BY <1>2, <2>2, ListIsCombination
<1>5. ASSUME file_type = "OTHER", NEW n \in DOMAIN inputs PROVE files[n].header.count = 0
  <2>1. \A k \in 1..files[n].header.count : <<n, k>> \in Promise!Positions(files)
    BY <1>2, PositionsAre
  <2>2. Promise!Positions(files) = {}
    BY <1>1, <1>3, <1>5 DEF CopyInv
  <2>3. 1 \notin 1..files[n].header.count /\ files[n].header.count \in Nat
    BY <1>2, <2>1, <2>2 DEF Counted
  <2> QED
    BY <2>3
<1>6. Promise!Combinable(files)
  BY <1>1, <1>5, AcceptedCombinable DEF CopyInv
<1>7. UNCHANGED <<disk, inputs, tmp_output>> /\ pc' = "WriteHeader"
  BY DEF CloseTemp, Goto, args, copying
<1>8. Promise!Inputs' = files
  BY <1>7, InputsSame
<1> QED
  BY <1>1, <1>4, <1>6, <1>7, <1>8 DEF MergeInv, Steps, Copied

\* From the header on, the inputs stay what they were, whatever reaches the output.
LEMMA CopiedMergeInv ==
  ASSUME TypeOK, StreamsInv, InputsInv, MergeInv, "open" \notin Failures,
         Copied, Copied', pc' # "WriteHeader",
         UNCHANGED <<inputs, file_type, tmp_output>>,
         \A f \in Files : f # output => disk'[f] = disk[f],
         \E lang \in HeaderLanguages :
           out_stream'.header =
             [type |-> file_type, count |-> Len(tmp_output), language |-> lang]
  PROVE  MergeInv'
<1>1. \A n \in DOMAIN inputs : inputs[n] # output /\ inputs[n] \in Files
  BY AllOpened, AcceptedInput, InputsType DEF InputsInv, Validated, Copied
<1>2. Promise!Inputs' = Promise!Inputs
  BY <1>1, InputsSame
<1>3. HeaderLanguages' = HeaderLanguages
  BY DEF HeaderLanguages
<1>4. inputs # <<>>
  BY DEF Copied, MergeInv, Steps
<1> QED
  BY <1>2, <1>3, <1>4 DEF MergeInv, Copied

\* Every step of a run, and whatever the environment does, keeps MergeInv.
LEMMA NextMergeInv ==
  ASSUME TypeOK, StreamsInv, DiskInv, InputsInv, MergeInv, "open" \notin Failures, [Next]_vars
  PROVE  MergeInv'
<1> USE DEF args, headers, copying, faults
<1>1. ASSUME NEW command \in Commands, Invoke(command) PROVE MergeInv'
  BY <1>1 DEF Invoke, MergeInv, Steps, Copied
<1>2. CASE LoadArgs
  <2>1. CASE Terminate
    BY <2>1, EndedMergeInv DEF Terminate, End
  <2>2. CASE inputs # <<>> /\ Goto("OpenStreams") /\
             UNCHANGED <<disk, temp, args, headers, copying, out_stream, before, faults, runs>>
    BY <1>2, <2>2 DEF LoadArgs, Goto, MergeInv, Steps, Copied
  <2> QED
    BY <1>2, <2>1, <2>2 DEF LoadArgs
<1>3. CASE OpenStreams
  <2>1. /\ pc = "OpenStreams" /\ pc' = "ReadHeaders" /\ i' = 1
        /\ UNCHANGED <<inputs, file_type, message_counts, copying, before>>
        /\ opened' = {n \in DOMAIN inputs : before[inputs[n]] # Absent}
    BY <1>3 DEF OpenStreams, Goto, InputsInv
  <2>2. CountsKept(i - 1)'
    BY <2>1 DEF MergeInv, CountsKept
  <2> QED
    BY <2>1, <2>2 DEF MergeInv, Steps, Copied
<1>4. CASE WriteHeader
  <2>1. CASE Terminate
    BY <2>1, EndedMergeInv DEF Terminate, End
  <2>2. ASSUME NEW lang \in HeaderLanguages,
               out_stream' = [out_stream EXCEPT !.header =
                 [type |-> file_type, count |-> total_written, language |-> lang]],
               Goto("CopyTemp"),
               UNCHANGED <<disk, temp, args, headers, copying, before, faults, runs>>
        PROVE  MergeInv'
    <3>1. out_stream'.header =
            [type |-> file_type, count |-> Len(tmp_output), language |-> lang]
      BY <2>2 DEF StreamsInv, TypeOK, File
    <3>2. Copied /\ Copied' /\ pc' # "WriteHeader"
      BY <1>4, <2>2 DEF WriteHeader, Goto, Copied
    <3> QED
      BY <2>2, <3>1, <3>2, CopiedMergeInv
  <2> QED
    BY <1>4, <2>1, <2>2 DEF WriteHeader
<1>5. CASE CopyTemp
  <2>1. out_stream'.header = out_stream.header
    BY <1>5 DEF CopyTemp, TypeOK, File
  <2>2. Copied /\ pc # "WriteHeader" /\ Copied' /\ pc' # "WriteHeader"
    BY <1>5 DEF CopyTemp, Goto, Copied
  <2>3. UNCHANGED <<disk, inputs, file_type, tmp_output>>
    BY <1>5 DEF CopyTemp
  <2> QED
    BY <2>1, <2>2, <2>3, CopiedMergeInv DEF MergeInv
<1>6. CASE CleanupTempFile
  <2>1. CASE End("terminated")
    BY <2>1, EndedMergeInv DEF End
  <2>2. CASE Goto("CloseStreams")
    <3>1. Copied /\ pc # "WriteHeader" /\ Copied' /\ pc' # "WriteHeader"
      BY <1>6, <2>2 DEF CleanupTempFile, Goto, Copied
    <3>2. UNCHANGED <<disk, inputs, file_type, tmp_output, out_stream>>
      BY <1>6 DEF CleanupTempFile
    <3> QED
      BY <3>1, <3>2, CopiedMergeInv DEF MergeInv
  <2> QED
    BY <1>6, <2>1, <2>2 DEF CleanupTempFile
<1>7. CASE SpillOutput
  <2>1. Copied /\ pc # "WriteHeader" /\ Copied' /\ pc' # "WriteHeader"
    BY <1>7 DEF SpillOutput, Copied
  <2>2. UNCHANGED <<inputs, file_type, tmp_output, out_stream>>
    BY <1>7 DEF SpillOutput
  <2>3. \A f \in Files : f # output => disk'[f] = disk[f]
    BY <1>7 DEF SpillOutput, TypeOK
  <2> QED
    BY <2>1, <2>2, <2>3, CopiedMergeInv DEF MergeInv
<1>8. CASE SpillTemp \/ UNCHANGED vars
  <2>1. UNCHANGED <<disk, pc, inputs, opened, file_type, language, message_counts, i, j,
                    seen_ids, tmp_output, out_stream, before>>
    BY <1>8 DEF SpillTemp, vars
  <2>2. Promise!Inputs' = Promise!Inputs
    BY <2>1, InputsSame
  <2>3. Passed' = Passed
    BY <2>1, <2>2 DEF Passed
  <2>4. CopyInv => CopyInv'
    BY <2>1, <2>2, <2>3 DEF CopyInv, CountsKept
  <2>5. CountsKept(i - 1) => CountsKept(i - 1)'
    BY <2>1, <2>2 DEF CountsKept
  <2>6. HeaderLanguages' = HeaderLanguages
    BY <2>1 DEF HeaderLanguages
  <2> QED
    BY <2>1, <2>2, <2>4, <2>5, <2>6 DEF MergeInv, Steps, Copied
<1>9. CASE CloseStreams \/ Rescue \/ Kill
  BY <1>9, EndedMergeInv DEF CloseStreams, Rescue, Kill, End
<1> QED
  BY <1>1, <1>2, <1>3, <1>4, <1>5, <1>6, <1>7, <1>8, <1>9, ReadHeadersMergeInv,
     CopyMessagesMergeInv, CloseTempMergeInv DEF Next, Step

-----------------------------------------------------------------------------
(* The refinement.                                                         *)

RunInv == TypeOK /\ StreamsInv /\ DiskInv /\ InputsInv /\ MergeInv

\* What the runs know of their inputs, streams and disk holds in every state.
THEOREM RunsKnow ==
  ASSUME "open" \notin Failures
  PROVE  Spec => []RunInv
<1>1. Init => RunInv
  BY InitTypeOK, InitStreamsInv, InitDiskInv, InitInputsInv, InitMergeInv DEF RunInv
<1>2. RunInv /\ [Next]_vars => RunInv'
  BY NextTypeOK, NextStreamsInv, NextDiskInv, NextInputsInv, NextMergeInv DEF RunInv
<1> QED
  BY <1>1, <1>2, PTL DEF Spec

\* PbfMerge is running while the run is.
LEMMA OutcomeRunning ==
  /\ Running => Outcome = "running"
  /\ ~Running => Outcome # "running"
  BY DEF Outcome, Running

\* What is to be in the output is a result PbfMerge allows.
LEMMA WholeIsResult ==
  ASSUME RunInv, "open" \notin Failures, Copied, pc # "WriteHeader"
  PROVE  /\ Whole \in Promise!Results /\ Whole \in File
         /\ Promise!Combinable(Promise!Inputs)
<1>1. /\ Promise!Combinable(Promise!Inputs) /\ tmp_output = Promise!Combination(Promise!Inputs)
      /\ inputs # <<>>
  BY DEF RunInv, MergeInv, Copied, Steps
<1>2. PICK lang \in HeaderLanguages :
        out_stream.header = [type |-> file_type, count |-> Len(tmp_output), language |-> lang]
  BY DEF RunInv, MergeInv
<1>3. Promise!Type(Promise!Inputs) = file_type
  BY <1>1, AllOpened, AllAccepted DEF RunInv, InputsInv, Validated, Copied
<1>4. lang \in IF Promise!Type(Promise!Inputs) \in Promise!DumpTypes
               THEN Languages \cup {Promise!LANGUAGE_UNSPECIFIED}
               ELSE {Promise!LANGUAGE_UNSPECIFIED}
  BY <1>2, <1>3, SameFiles DEF HeaderLanguages
<1>5. Whole = [header   |-> [type     |-> Promise!Type(Promise!Inputs),
                             count    |-> Len(Promise!Combination(Promise!Inputs)),
                             language |-> lang],
               messages |-> Promise!Combination(Promise!Inputs)]
  BY <1>1, <1>2, <1>3 DEF Whole
<1>6. Whole \in File
  BY DEF RunInv, TypeOK, Whole, File
<1> QED
  BY <1>1, <1>4, <1>5, <1>6 DEF Promise!Results

\* A run that dies, or that ends with the disk as it is, has abandoned its request.
LEMMA Abandons ==
  ASSUME Running, pc' = "ended", exit' \in {"terminated", "killed"},
         UNCHANGED <<disk, inputs, output>>
  PROVE  Promise!Next
<1>1. Outcome = "running" /\ Outcome' = "abandoned"
  BY DEF Outcome, Running, Steps
<1> QED
  BY <1>1 DEF Promise!Next, Promise!Abandon, Promise!Running

\* What a run keeps to itself is no step of PbfMerge.
LEMMA Stutters ==
  ASSUME Running' = Running, UNCHANGED <<exit, failed, disk, inputs, output>>
  PROVE  UNCHANGED Promise!vars
  BY DEF Promise!vars, Outcome

\* While a run goes on, what the file system refused is not in the outcome yet.
LEMMA RunsOn ==
  ASSUME Running, Running', UNCHANGED <<disk, inputs, output>>
  PROVE  UNCHANGED Promise!vars
  BY OutcomeRunning DEF Promise!vars, Outcome

\* A new session begins as PbfMerge does.
LEMMA InitPromise == Init => Promise!Init
<1> SUFFICES ASSUME Init PROVE Promise!Init
  OBVIOUS
<1>1. Outcome = "none" /\ inputs = <<>> /\ disk \in [Files -> Contents]
  BY DEF Init, Outcome, Running, Steps
<1>2. output \in Files
  BY CombineAssumption DEF Init
<1> QED
  BY <1>1, <1>2 DEF Promise!Init

\* A spill puts a beginning of the combination on the disk.
LEMMA SpillBegins ==
  ASSUME RunInv, "open" \notin Failures, SpillOutput
  PROVE  Promise!Next \/ UNCHANGED Promise!vars
<1>1. /\ Copied /\ pc # "WriteHeader" /\ Running /\ Running' /\ unopened = {}
      /\ UNCHANGED <<inputs, output>>
  BY AllOpened DEF SpillOutput, Copied, Running, Steps, args, RunInv
<1>2. PICK n \in 0..Len(out_stream.messages) :
        disk' = [disk EXCEPT ![output] =
          [out_stream EXCEPT !.messages = SubSeq(out_stream.messages, 1, n)]]
  BY DEF SpillOutput
<1> DEFINE part == [out_stream EXCEPT !.messages = SubSeq(out_stream.messages, 1, n)]
<1>3. out_stream.header # NoHeader
  BY <1>1 DEF RunInv, StreamsInv, Copied
<1>4. part \in Beginnings(Whole)
  <2>1. part \in Beginnings(out_stream)
    BY DEF Beginnings, Parts
  <2> QED
    BY <1>1, <1>3, <2>1, StreamBeginsWhole, BeginningsTransitive DEF RunInv
<1>5. Outcome = "running" /\ Outcome' = "running"
  BY <1>1, OutcomeRunning DEF Outcome
<1>6. CASE disk' = disk
  BY <1>1, <1>6, RunsOn
<1>7. CASE disk' # disk
  BY <1>1, <1>2, <1>4, <1>5, <1>7, WholeIsResult, SameFiles
     DEF Promise!Next, Promise!Begin, Promise!Running, Promise!Output
<1> QED
  BY <1>6, <1>7

\* The last step of a run that returns kOk delivers the combination, or as much of it
\* as the disk took.
LEMMA CloseDelivers ==
  ASSUME RunInv, "open" \notin Failures, CloseStreams
  PROVE  Promise!Next
<1>1. /\ Copied /\ pc = "CloseStreams" /\ Running /\ ~Running' /\ unopened = {}
      /\ exit' = "kOk" /\ UNCHANGED <<inputs, output>>
  BY AllOpened DEF CloseStreams, End, Copied, Running, Steps, args, RunInv
<1>2. out_stream.header # NoHeader /\ out_stream # EmptyFile
  BY <1>1 DEF RunInv, StreamsInv, EmptyFile
<1>3. out_stream \in File /\ out_stream \in Beginnings(Whole)
  BY <1>1, <1>2, StreamBeginsWhole DEF RunInv, TypeOK
<1>4. Outcome = "running" /\ Outcome' = IF "write" \in failed' THEN "abandoned" ELSE "ok"
  BY <1>1 DEF Outcome
<1>5. CASE "write" \in failed'
  <2>1. \E part \in Beginnings(out_stream) : disk' = [disk EXCEPT ![output] = part]
    BY <1>1, <1>2, <1>3, BeginningsOfFile DEF CloseStreams, FlushOutput
  <2>2. \E part \in Beginnings(Whole) : disk' = [disk EXCEPT ![output] = part]
    BY <1>1, <1>3, <2>1, WholeIsResult, BeginningsTransitive
  <2> QED
    BY <1>1, <1>4, <1>5, <2>2, WholeIsResult, SameFiles
       DEF Promise!Next, Promise!Abandon, Promise!Running, Promise!Output
<1>6. CASE "write" \notin failed'
  <2>1. FlushOutput /\ failed' = failed
    BY <1>6 DEF CloseStreams, Refuses
  <2>2. disk' = [disk EXCEPT ![output] = out_stream]
    BY <1>1, <1>2, <2>1 DEF FlushOutput
  <2>3. failed \subseteq {"remove"}
    BY <1>6, <2>1, CombineAssumption DEF RunInv, TypeOK
  <2>4. out_stream = Whole
    <3>1. out_stream.messages = tmp_output
      BY <1>1, <2>3 DEF RunInv, StreamsInv
    <3> QED
      BY <1>3, <3>1 DEF Whole, File
  <2> QED
    BY <1>1, <1>4, <1>6, <2>2, <2>4, WholeIsResult
       DEF Promise!Next, Promise!Deliver, Promise!Running, Promise!Output
<1> QED
  BY <1>5, <1>6

\* Each step of Combine is one of PbfMerge, or none.
LEMMA NextPromise ==
  ASSUME RunInv, "open" \notin Failures, [Next]_vars
  PROVE  Promise!Next \/ UNCHANGED Promise!vars
<1> USE DEF args, headers, copying, faults
<1>1. ASSUME NEW command \in Commands, Invoke(command) PROVE Promise!Next
  <2>1. command = [inputs |-> inputs', output |-> output']
    BY <1>1, CombineAssumption DEF Invoke
  <2>2. Outcome # "running" /\ Outcome' = "running" /\ disk' = disk
    BY <1>1 DEF Invoke, Outcome, Running, Steps
  <2>3. Promise!Ask(command)
    BY <2>1, <2>2 DEF Promise!Ask, Promise!Running
  <2> QED
    BY <2>3 DEF Promise!Next
<1>2. ASSUME Terminate, Running PROVE Promise!Next
  BY <1>2, Abandons DEF Terminate, End
<1>3. ASSUME ThrowUnsupported, Running PROVE UNCHANGED Promise!vars
  BY <1>3, RunsOn DEF ThrowUnsupported, Goto, Running, Steps
<1>4. CASE LoadArgs
  <2>1. CASE Terminate
    BY <1>2, <1>4, <2>1 DEF LoadArgs, Running, Steps
  <2>2. CASE Goto("OpenStreams") /\
             UNCHANGED <<disk, temp, args, headers, copying, out_stream, before, faults, runs>>
    BY <1>4, <2>2, RunsOn DEF LoadArgs, Goto, Running, Steps
  <2> QED
    BY <1>4, <2>1, <2>2 DEF LoadArgs
<1>5. CASE OpenStreams
  <2>1. Running /\ Running' /\ UNCHANGED <<inputs, output>>
    BY <1>5 DEF OpenStreams, Goto, Running, Steps
  <2>2. disk' = [disk EXCEPT ![output] = EmptyFile]
    BY <1>5 DEF OpenStreams, Refuses
  <2>3. Outcome = "running" /\ Outcome' = "running"
    BY <2>1, OutcomeRunning DEF Outcome
  <2>4. Promise!Truncate
    BY <2>1, <2>2, <2>3, SameFiles DEF Promise!Truncate, Promise!Running, Promise!Output
  <2> QED
    BY <2>4 DEF Promise!Next
<1>6. CASE ReadHeaders
  <2>1. Running
    BY <1>6 DEF ReadHeaders, Running, Steps
  <2>2. ASSUME NEW header, AcceptHeader(header) PROVE UNCHANGED Promise!vars
    BY <2>1, <2>2, RunsOn DEF AcceptHeader, Running
  <2>3. CASE Goto("CopyMessages") /\ UNCHANGED <<disk, args>>
    BY <2>1, <2>3, RunsOn DEF Goto, Running, Steps
  <2> QED
    BY <1>2, <1>3, <1>6, <2>1, <2>2, <2>3 DEF ReadHeaders, ReadHeader
<1>7. CASE CopyMessages
  <2>1. Running
    BY <1>7 DEF CopyMessages, Running, Steps
  <2>2. ASSUME NEW message, CopyMessage(message) \/ NextInput PROVE UNCHANGED Promise!vars
    BY <2>1, <2>2, RunsOn DEF CopyMessage, NextInput, Running
  <2> QED
    BY <1>2, <1>3, <1>7, <2>1, <2>2 DEF CopyMessages
<1>8. CASE CloseTemp \/ CopyTemp
  BY <1>8, RunsOn DEF CloseTemp, CopyTemp, Goto, Running, Steps
<1>9. CASE WriteHeader
  <2>1. Running
    BY <1>9 DEF WriteHeader, Running, Steps
  <2>2. CASE Goto("CopyTemp") /\ UNCHANGED <<disk, args>>
    BY <2>1, <2>2, RunsOn DEF Goto, Running, Steps
  <2> QED
    BY <1>2, <1>9, <2>1, <2>2 DEF WriteHeader
<1>10. CASE CleanupTempFile
  <2>1. Running /\ UNCHANGED <<disk, inputs, output>>
    BY <1>10 DEF CleanupTempFile, Running, Steps
  <2>2. CASE End("terminated")
    BY <2>1, <2>2, Abandons DEF End
  <2>3. CASE Goto("CloseStreams")
    BY <2>1, <2>3, RunsOn DEF Goto, Running, Steps
  <2> QED
    BY <1>10, <2>2, <2>3 DEF CleanupTempFile
<1>11. CASE CloseStreams
  BY <1>11, CloseDelivers
<1>12. CASE Rescue
  <2>1. /\ pc = "Rescue" /\ pc' = "ended" /\ exit' = "kGeneralError"
        /\ UNCHANGED <<inputs, output>> /\ unopened = {} /\ disk' = disk
    BY <1>12, AllOpened DEF Rescue, End, UnsupportedFileTypeCode, FlushOutput, RunInv,
                            StreamsInv, TypeOK
  <2>2. disk = [disk EXCEPT ![output] = EmptyFile]
    BY <2>1 DEF RunInv, DiskInv, TypeOK
  <2>3. Outcome = "running" /\ Outcome' = "refused"
    BY <2>1 DEF Outcome, Running, Steps
  <2>4. ~Promise!Combinable(Promise!Inputs)
    BY <2>1 DEF RunInv, MergeInv
  <2>5. Promise!Refuse
    BY <2>1, <2>2, <2>3, <2>4, SameFiles DEF Promise!Refuse, Promise!Running, Promise!Output
  <2> QED
    BY <2>5 DEF Promise!Next
<1>13. CASE SpillTemp
  BY <1>13, Stutters DEF SpillTemp, Running
<1>14. CASE SpillOutput
  BY <1>14, SpillBegins
<1>15. CASE Kill
  BY <1>15, Abandons DEF Kill, End
<1>16. CASE UNCHANGED vars
  BY <1>16, Stutters DEF vars, Running
<1> QED
  BY <1>1, <1>4, <1>5, <1>6, <1>7, <1>8, <1>9, <1>10, <1>11, <1>12, <1>13, <1>14, <1>15,
     <1>16 DEF Next, Step

\* Where the file system opens what it is asked to, combine does what PbfMerge
\* promises, through every spill, kill, failing write and removal, and over any number
\* of runs: it publishes nothing but beginnings of the combination, all of it when it
\* returns kOk and the disk has taken it, and refuses nothing that has one.
THEOREM Refinement ==
  ASSUME "open" \notin Failures
  PROVE  Spec => KeepsPromise
<1>1. Init => Promise!Init
  BY InitPromise
<1>2. RunInv /\ [Next]_vars => [Promise!Next]_Promise!vars
  BY NextPromise
<1> QED
  BY <1>1, <1>2, RunsKnow, PTL DEF Spec, KeepsPromise, Promise!Spec
=============================================================================
