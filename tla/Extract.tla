------------------------------- MODULE Extract -------------------------------
(***************************************************************************)
(* `citescoop-cli dump extract` (src/dump/extract.cc): the pages and the   *)
(* revisions of a Wikipedia dump, as two PBF files in one language.        *)
(***************************************************************************)
EXTENDS Publish

ASSUME ExtractAssumption ==
  Roles = {"pages", "revisions"} /\ Types = [pages |-> "PAGES", revisions |-> "REVISIONS"]

Outputs == <<"pages", "revisions">>

\* ParseArgs and EnsureArgument throw when an option is missing.
LoadArgs ==
  /\ pc = "LoadArgs"
  /\ \/ Terminate
     \/ /\ pc' = "OpenTemps"
        /\ UNCHANGED <<disk, temp, k, asked, streams, exit, origin, failed, runs>>

OpenStreams == OpenTemps(Outputs, "Read")

\* Extractor::Extract, of the citescoop library; what it throws is not caught.
ExtractMessages ==
  \/ \E role \in Roles, body \in Bodies : WriteMessage(role, [id |-> NoId, body |-> body])
  \/ pc = "Read" /\ Terminate
  \/ ReturnCounts(Outputs)

CloseStreams == CloseTemps(Outputs, "ReopenTemps")

-----------------------------------------------------------------------------
(* AddHeaders.                                                             *)

OpenTempFiles == ReopenTemps(Outputs, "OpenFinals")

\* Mutant: the revisions file is not opened before the pages file is written.
OpenFinalStreams_PagesOnly == OpenFinals(<<"pages">>, "PrependHeaders")

OpenFinalStreams == OpenFinals(Outputs, "PrependHeaders")

\* Mutant: set_count is not called again for the second file.
FileHeaders_OneCount ==
  [pages     |-> [type |-> "PAGES", count |-> counts[1], language |-> asked.language],
   revisions |-> [type |-> "REVISIONS", count |-> counts[1], language |-> asked.language]]

\* The header is filled in for pages, then reused for revisions.
FileHeaders ==
  [pages     |-> [type |-> "PAGES", count |-> counts[1], language |-> asked.language],
   revisions |-> [type |-> "REVISIONS", count |-> counts[2], language |-> asked.language]]

\* Mutant: the final streams are closed by their destructors, at the very end.
AddFileHeaders_NotClosed == PrependHeaders(Outputs, FileHeaders, "RemoveTemps")

AddFileHeaders == PrependHeaders(Outputs, FileHeaders, "CloseFinals")

CloseFinalStreams == CloseFinals(Outputs, "RemoveTemps")

RemoveTempFiles == RemoveTemps(Outputs, "ended")

-----------------------------------------------------------------------------
Step == \/ LoadArgs \/ OpenStreams \/ ExtractMessages \/ CloseStreams
        \/ OpenTempFiles \/ OpenFinalStreams \/ AddFileHeaders \/ CloseFinalStreams \/ RemoveTempFiles

Next == Step \/ Environment

Spec == Init /\ [][Next]_vars

\* The two files of every run are published as a set, as PublishSet has it, wherever
\* a run is killed or the disk is full, and whatever run follows.
KeepsPromise == Promise!Spec

(***************************************************************************)
(* cli.h:73-74, "Return status. [...] Any non-zero value indicates         *)
(* failure.": a run that returns kOk has published all that was found.     *)
(***************************************************************************)
OkMeansPublished == Ok => \A role \in Roles : disk[Path(role)] = Published(role)

(***************************************************************************)
(* cli.h:73-74, of a run whose final files do not all open: when it returns*)
(* kOk, no output of an earlier run stands next to one of its own.         *)
(***************************************************************************)
OkMeansOneSet ==
  Ok =>
    \A r, s \in Roles :
      HasHeader(disk[Path(r)]) /\ HasHeader(disk[Path(s)]) /\ Fresh(r) => Fresh(s)
=============================================================================
