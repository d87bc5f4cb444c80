---------------------------- MODULE Process_proofs ----------------------------
(***************************************************************************)
(* Proofs about Process.  Its steps are steps Publish_proofs is about: the *)
(* invariant, the properties and the refinement stated there hold for it.  *)
(***************************************************************************)
EXTENDS Process, Publish_proofs

\* Both orders have every output once.
LEMMA Orders == IsOrder(Outputs) /\ IsOrder(Opening)
<1>1. Roles = {"authors", "institutions", "works"}
  BY ProcessAssumption
<1>2. Cardinality(Roles) = 3
  <2>1. Cardinality({}) = 0 /\ IsFiniteSet({})
    BY FS_EmptySet
  <2>2. Cardinality({"authors"}) = 1 /\ IsFiniteSet({"authors"})
    <3>1. {"authors"} = {} \cup {"authors"}
      OBVIOUS
    <3> QED
      BY <2>1, <3>1, FS_AddElement
  <2>3. Cardinality({"authors", "institutions"}) = 2 /\ IsFiniteSet({"authors", "institutions"})
    <3>1. {"authors", "institutions"} = {"authors"} \cup {"institutions"} /\ "institutions" \notin {"authors"}
      OBVIOUS
    <3> QED
      BY <2>2, <3>1, FS_AddElement
  <2>4. Cardinality({"authors", "institutions", "works"}) = 3 /\ IsFiniteSet({"authors", "institutions", "works"})
    <3>1. {"authors", "institutions", "works"} = {"authors", "institutions"} \cup {"works"} /\ "works" \notin {"authors", "institutions"}
      OBVIOUS
    <3> QED
      BY <2>3, <3>1, FS_AddElement
  <2> QED
    BY <1>1, <2>4
<1>3. /\ Outputs \in Seq(Roles) /\ Len(Outputs) = 3
      /\ \A r \in Roles : \E i \in 1..Len(Outputs) : Outputs[i] = r
      /\ \A i, j \in 1..Len(Outputs) : Outputs[i] = Outputs[j] => i = j
  <2>1. Outputs \in Seq(Roles) /\ Len(Outputs) = 3 /\ 1..3 = {1, 2, 3}
    BY <1>1 DEF Outputs
  <2>2. Outputs[1] = "authors" /\ Outputs[2] = "institutions" /\ Outputs[3] = "works"
    BY DEF Outputs
  <2> QED
    BY <1>1, <2>1, <2>2
<1>4. /\ Opening \in Seq(Roles) /\ Len(Opening) = 3
      /\ \A r \in Roles : \E i \in 1..Len(Opening) : Opening[i] = r
      /\ \A i, j \in 1..Len(Opening) : Opening[i] = Opening[j] => i = j
  <2>1. Opening \in Seq(Roles) /\ Len(Opening) = 3 /\ 1..3 = {1, 2, 3}
    BY <1>1 DEF Opening
  <2>2. Opening[1] = "works" /\ Opening[2] = "authors" /\ Opening[3] = "institutions"
    BY DEF Opening
  <2> QED
    BY <1>1, <2>1, <2>2
<1> QED
  BY <1>2, <1>3, <1>4 DEF IsOrder

\* The tuple the library returns gives each header its own count.
LEMMA HeadersCount ==
  ASSUME TypeOK, CountsInv(Outputs), pc = "PrependHeaders"
  PROVE  FileHeaders = [r \in Roles |-> Published(r).header]
<1>1. counts = [i \in DOMAIN Outputs |-> Len(written[Outputs[i]])]
  BY DEF CountsInv, FromHeaders
<1>2. DOMAIN Outputs = 1..3 /\ Outputs[1] = "authors" /\ Outputs[2] = "institutions" /\ Outputs[3] = "works"
  BY DEF Outputs
<1>3. counts[1] = Len(written["authors"]) /\ counts[2] = Len(written["institutions"]) /\ counts[3] = Len(written["works"])
  BY <1>1, <1>2
<1>4. Roles = {"authors", "institutions", "works"} /\ Types["authors"] = "AUTHORS" /\ Types["institutions"] = "INSTITUTIONS" /\ Types["works"] = "WORKS"
  BY ProcessAssumption
<1>5. asked.language = LANGUAGE_UNSPECIFIED
  BY ProcessAssumption DEF TypeOK
<1> QED
  BY <1>3, <1>4, <1>5 DEF FileHeaders, Published, Counted

\* Every step of the command is one of those Publish_proofs is about.
LEMMA NextMoves ==
  ASSUME PublishInv(Opening, Outputs), [Next]_vars
  PROVE  Moves(Opening, Outputs)
<1>1. CASE LoadArgs
  BY <1>1 DEF LoadArgs, Proceed, Moves
<1>2. CASE OpenOutputStreams
  BY <1>2 DEF OpenOutputStreams, Moves
<1>3. CASE ProcessWorksSnapshot
  <2>1. \A id \in Ids : [id |-> id, body |-> NoBody] \in Message
    BY DEF Message
  <2> QED
    BY <1>3, <2>1 DEF ProcessWorksSnapshot, Moves
<1>4. CASE CloseOutputStreams
  BY <1>4 DEF CloseOutputStreams, Moves
<1>4a. CASE OpenTempFiles
  BY <1>4a DEF OpenTempFiles, Moves
<1>5. CASE OpenFinalStreams
  BY <1>5 DEF OpenFinalStreams, Moves
<1>6. CASE AddFileHeaders
  <2>1. FileHeaders = [r \in Roles |-> Published(r).header]
    BY <1>6, HeadersCount DEF AddFileHeaders, PrependHeaders, Each, PublishInv
  <2> QED
    BY <1>6, <2>1 DEF AddFileHeaders, Moves
<1>7. CASE CloseFinalStreams
  BY <1>7 DEF CloseFinalStreams, Moves
<1>8. CASE RemoveTempFiles
  BY <1>8 DEF RemoveTempFiles, Moves
<1>9. CASE Environment \/ UNCHANGED vars
  BY <1>9 DEF Moves
<1> QED
  BY <1>1, <1>2, <1>3, <1>4, <1>4a, <1>5, <1>6, <1>7, <1>8, <1>9 DEF Next, Step

\* The invariant of Publish_proofs is one of the command.
THEOREM Invariance == Spec => []PublishInv(Opening, Outputs)
<1>1. Init => PublishInv(Opening, Outputs)
  BY InitPublishInv
<1>2. PublishInv(Opening, Outputs) /\ [Next]_vars => PublishInv(Opening, Outputs)'
  BY NextMoves, NextPublishInv, Orders
<1> QED
  BY <1>1, <1>2, PTL DEF Spec

\* Each variable of the command keeps its type, whatever the file system refuses.
THEOREM TypeCorrect == Spec => []TypeOK
<1>1. PublishInv(Opening, Outputs) => TypeOK
  BY PublishInvProperties
<1> QED
  BY <1>1, Invariance, PTL

\* From the first truncation of an output on, every output is whole on the disk, in
\* one place or the other, whenever a run is killed or fails to remove a file.
THEOREM NothingIsLost == Spec => []NothingLost
<1>1. PublishInv(Opening, Outputs) => NothingLost
  BY PublishInvProperties
<1> QED
  BY <1>1, Invariance, PTL

\* A header of an earlier run is on the disk together with one of this run only where
\* the file system refused to open that final file.
THEOREM SetsNeverMixed == Spec => []NeverMixed
<1>1. PublishInv(Opening, Outputs) => NeverMixed
  BY PublishInvProperties
<1> QED
  BY <1>1, Invariance, PTL

\* A header on the disk counts all messages that were found, whatever the file system
\* refuses; if it opened every file, a beginning of them follows.
THEOREM CountsAreOfTheWhole == Spec => []CountsTellAll
<1>1. PublishInv(Opening, Outputs) => CountsTellAll
  BY PublishInvProperties
<1> QED
  BY <1>1, Invariance, PTL

\* kOk from a run nothing was refused: the three files are complete and nothing else is left.
THEOREM OkIsPublished == Spec => []OkPublishes
<1>1. PublishInv(Opening, Outputs) => OkPublishes
  BY PublishInvProperties
<1> QED
  BY <1>1, Invariance, PTL

\* Where every file can be opened, the command implements PublishSet.
THEOREM Refinement ==
  ASSUME "open" \notin Failures
  PROVE  Spec => KeepsPromise
<1>1. Init => Promise!Init
  BY InitPromise
<1>2. PublishInv(Opening, Outputs) /\ [Next]_vars => [Promise!Next]_Promise!vars
  BY NextMoves, NextPromise, Orders
<1> QED
  BY <1>1, <1>2, Invariance, PTL DEF Spec, KeepsPromise, Promise!Spec
=============================================================================
