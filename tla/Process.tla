------------------------------- MODULE Process -------------------------------
(***************************************************************************)
(* `citescoop-cli openalex process` (src/openalex/process.cc): the authors,*)
(* institutions and works of an OpenAlex snapshot, as three PBF files.     *)
(***************************************************************************)
EXTENDS Publish

\* A snapshot has no language, and the command no option for one.
ASSUME ProcessAssumption ==
  /\ Roles = {"authors", "institutions", "works"}
  /\ Types = [authors |-> "AUTHORS", institutions |-> "INSTITUTIONS", works |-> "WORKS"]
  /\ \A command \in Commands : command.language = LANGUAGE_UNSPECIFIED

Outputs == <<"authors", "institutions", "works">>

\* ParseArgs and EnsureArgument throw when an option is missing.
LoadArgs ==
  /\ pc = "LoadArgs"
  /\ \/ Terminate
     \/ /\ pc' = "OpenTemps"
        /\ UNCHANGED <<disk, temp, k, asked, streams, exit, origin, failed, runs>>

OpenOutputStreams == OpenTemps(Outputs, "Read")

\* SnapshotProcessor::ProcessWorksSnapshot, of the citescoop library; what it
\* throws is not caught.
ProcessWorksSnapshot ==
  \/ \E role \in Roles, id \in Ids : WriteMessage(role, [id |-> id, body |-> NoBody])
  \/ pc = "Read" /\ Terminate
  \/ ReturnCounts(Outputs)

CloseOutputStreams == CloseTemps(Outputs, "ReopenTemps")

-----------------------------------------------------------------------------
(* AddHeaders.                                                             *)

\* Mutant: the final files of works only are truncated before headers are added.
OpenFinalStreams_WorksOnly == OpenFinals(<<"works">>, "PrependHeaders")

Opening == <<"works", "authors", "institutions">>

OpenTempFiles == ReopenTemps(Opening, "OpenFinals")

OpenFinalStreams == OpenFinals(Opening, "PrependHeaders")

Counted(type, count) == [type |-> type, count |-> count, language |-> LANGUAGE_UNSPECIFIED]

\* Mutant: the counts are taken in the order the files are opened in.
FileHeaders_OpeningOrder ==
  [authors      |-> Counted("AUTHORS", counts[2]),
   institutions |-> Counted("INSTITUTIONS", counts[3]),
   works        |-> Counted("WORKS", counts[1])]

FileHeaders ==
  [authors      |-> Counted("AUTHORS", counts[1]),
   institutions |-> Counted("INSTITUTIONS", counts[2]),
   works        |-> Counted("WORKS", counts[3])]

\* Mutant: the final streams are closed by their destructors, at the very end.
AddFileHeaders_NotClosed == PrependHeaders(Outputs, FileHeaders, "RemoveTemps")

AddFileHeaders == PrependHeaders(Outputs, FileHeaders, "CloseFinals")

CloseFinalStreams == CloseFinals(Outputs, "RemoveTemps")

RemoveTempFiles == RemoveTemps(Outputs, "ended")

-----------------------------------------------------------------------------
Step == \/ LoadArgs \/ OpenOutputStreams \/ ProcessWorksSnapshot \/ CloseOutputStreams
        \/ OpenTempFiles \/ OpenFinalStreams \/ AddFileHeaders \/ CloseFinalStreams \/ RemoveTempFiles

Next == Step \/ Environment

Spec == Init /\ [][Next]_vars

\* The three files of every run are published as a set, as PublishSet has it,
\* wherever a run is killed or the disk is full, and whatever run follows.
KeepsPromise == Promise!Spec
=============================================================================
