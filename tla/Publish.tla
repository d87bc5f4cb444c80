------------------------------- MODULE Publish -------------------------------
(***************************************************************************)
(* The state of a command that turns one input into several PBF files, and *)
(* what it does to its streams: `dump extract` (Extract) and `openalex     *)
(* process` (Process) are written in terms of these operators, each with   *)
(* its own files in its own order.                                         *)
(*                                                                         *)
(* Each output has a role.  Its messages go to <path>.tmp while the input  *)
(* is read, because a header counts them; the final file is then the       *)
(* header followed by the temporary file.                                  *)
(*                                                                         *)
(* The commands never ask a stream whether it opened or a write succeeded: *)
(* where the file system refuses something, the run goes on.               *)
(***************************************************************************)
EXTENDS PbfIo, FiniteSets

CONSTANTS
  Roles,        \* the outputs of the command
  Types,        \* the FileType of each
  Commands,     \* command lines: [paths, language] records
  Contents,     \* what a path can hold before the first run
  Failures,     \* what the file system can refuse
  MaxRuns,      \* bound on the number of runs
  MaxMessages   \* bound on the messages in one input

ASSUME PublishAssumption ==
  /\ IsFiniteSet(Roles) /\ Roles # {} /\ Types \in [Roles -> FileTypes]
  /\ Commands \subseteq [paths : [Roles -> Files], language : Languages \cup {LANGUAGE_UNSPECIFIED}]
  /\ \A command \in Commands : \A r, s \in Roles :
       r # s => command.paths[r] # command.paths[s]
  /\ Contents \subseteq File \cup {Absent}
  /\ Failures \subseteq {"open", "write", "remove"}
  /\ MaxRuns \in Nat /\ MaxMessages \in Nat

VARIABLES
  disk,      \* the file at each path
  temp,      \* the messages in <path>.tmp, for each path
  pc,        \* where the run is; "ended" between runs
  k,         \* the output the step is at, an index into the step's order
  asked,     \* args_
  written,   \* everything written to the temporary stream of each role
  counts,    \* the tuple the library returned, <<>> before
  finals,    \* everything written to the final stream of each role
  unopened,  \* the streams that did not open, [role, stream] pairs
  exit,      \* how the last run ended
  origin,    \* history: the run that last truncated each path, 0 for none
  failed,    \* history: what the file system refused this run
  runs       \* number of runs started

streams == <<written, counts, finals, unopened>>
vars    == <<disk, temp, pc, k, asked, streams, exit, origin, failed, runs>>

Steps == {"LoadArgs", "OpenTemps", "Read", "CloseTemps", "ReopenTemps",
          "OpenFinals", "PrependHeaders", "CloseFinals", "RemoveTemps"}
Exits == {"none", "kOk", "terminated", "killed"}

Running    == pc \in Steps
Path(role) == asked.paths[role]

\* The file system refuses something of this kind.
Refuses(kind) == kind \in Failures /\ failed' = failed \cup {kind}

-----------------------------------------------------------------------------
End(how) == pc' = "ended" /\ exit' = how

\* An exception nobody catches: nothing is flushed or removed.
Terminate ==
  /\ End("terminated")
  /\ UNCHANGED <<disk, temp, k, asked, streams, origin, failed, runs>>

\* Mutant: a step is not over with its last output.
Each_OneMore(order, step, next) ==
  /\ pc = step
  /\ k' = k + 1
  /\ pc' = IF k > Len(order) THEN next ELSE step
  /\ exit' = IF k > Len(order) /\ next = "ended" THEN "kOk" ELSE exit
  /\ UNCHANGED <<asked, counts, runs>>

\* The step is done for order[k]; the next output, or the next step.
Each(order, step, next) ==
  /\ pc = step
  /\ k' = IF k = Len(order) THEN 1 ELSE k + 1
  /\ pc' = IF k = Len(order) THEN next ELSE step
  /\ exit' = IF k = Len(order) /\ next = "ended" THEN "kOk" ELSE exit
  /\ UNCHANGED <<asked, counts, runs>>

Invoke(command) ==
  /\ pc = "ended" /\ runs < MaxRuns
  /\ runs' = runs + 1
  /\ pc' = "LoadArgs" /\ k' = 1 /\ exit' = "none"
  /\ asked' = command
  /\ written' = [r \in Roles |-> <<>>] /\ counts' = <<>>
  /\ finals' = [r \in Roles |-> EmptyFile] /\ unopened' = {} /\ failed' = {}
  /\ UNCHANGED <<disk, temp, origin>>

\* A stream on <path>.tmp, created or truncated; if it cannot be opened, what an
\* earlier run left there stays.
OpenTemps(order, next) ==
  /\ Each(order, "OpenTemps", next)
  /\ \/ /\ temp' = [temp EXCEPT ![Path(order[k])] = <<>>]
        /\ UNCHANGED <<unopened, failed>>
     \/ /\ Refuses("open")
        /\ unopened' = unopened \cup {<<order[k], "temp">>}
        /\ UNCHANGED temp
  /\ UNCHANGED <<disk, written, finals, origin>>

\* The citescoop library writes a message it found in the input to an output.
WriteMessage(role, message) ==
  /\ pc = "Read"
  /\ Cardinality(UNION {{r} \X DOMAIN written[r] : r \in Roles}) < MaxMessages
  /\ written' = [written EXCEPT ![role] = Append(@, message)]
  /\ UNCHANGED <<disk, temp, pc, k, asked, counts, finals, unopened, exit, origin, failed, runs>>

\* The library returns how many messages it wrote, in the order of its tuple.
ReturnCounts(tuple) ==
  /\ pc = "Read"
  /\ pc' = "CloseTemps"
  /\ counts' = [n \in DOMAIN tuple |-> Len(written[tuple[n]])]
  /\ UNCHANGED <<disk, temp, k, asked, written, finals, unopened, exit, origin, failed, runs>>

\* close() flushes what the buffer still holds, or as much as the disk takes.
CloseTemps(order, next) ==
  /\ Each(order, "CloseTemps", next)
  /\ \/ /\ <<order[k], "temp">> \in unopened
        /\ UNCHANGED <<temp, failed>>
     \/ /\ <<order[k], "temp">> \notin unopened
        /\ temp' = [temp EXCEPT ![Path(order[k])] = written[order[k]]]
        /\ UNCHANGED failed
     \/ /\ <<order[k], "temp">> \notin unopened
        /\ Refuses("write")
        /\ \E part \in Parts(written[order[k]]) :
             /\ Len(part) >= Len(temp[Path(order[k])])
             /\ temp' = [temp EXCEPT ![Path(order[k])] = part]
  /\ UNCHANGED <<disk, written, finals, unopened, origin>>

\* A stream that reads <path>.tmp, before any final file is truncated.
ReopenTemps(order, next) ==
  /\ Each(order, "ReopenTemps", next)
  /\ \/ UNCHANGED <<unopened, failed>>
     \/ /\ Refuses("open")
        /\ unopened' = unopened \cup {<<order[k], "source">>}
  /\ UNCHANGED <<disk, temp, written, finals, origin>>

OpenFinals(order, next) ==
  /\ Each(order, "OpenFinals", next)
  /\ \/ /\ disk' = [disk EXCEPT ![Path(order[k])] = EmptyFile]
        /\ origin' = [origin EXCEPT ![Path(order[k])] = runs]
        /\ UNCHANGED <<unopened, failed>>
     \/ /\ Refuses("open")
        /\ unopened' = unopened \cup {<<order[k], "final">>}
        /\ UNCHANGED <<disk, origin>>
  /\ UNCHANGED <<temp, written, finals>>

\* io::PrependHeader: the header, then whatever the temporary file holds; nothing,
\* if that is not there or did not open.
PrependHeaders(order, header, next) ==
  /\ Each(order, "PrependHeaders", next)
  /\ LET empty == temp[Path(order[k])] = Absent \/ <<order[k], "source">> \in unopened
     IN  finals' = [finals EXCEPT ![order[k]] =
           [header   |-> header[order[k]],
            messages |-> IF empty THEN <<>> ELSE temp[Path(order[k])]]]
  /\ UNCHANGED <<disk, temp, written, unopened, origin, failed>>

CloseFinals(order, next) ==
  /\ Each(order, "CloseFinals", next)
  /\ \/ /\ <<order[k], "final">> \in unopened
        /\ UNCHANGED <<disk, failed>>
     \/ /\ <<order[k], "final">> \notin unopened
        /\ disk' = [disk EXCEPT ![Path(order[k])] = finals[order[k]]]
        /\ UNCHANGED failed
     \/ /\ <<order[k], "final">> \notin unopened
        /\ Refuses("write")
        /\ \E part \in Beginnings(finals[order[k]]) :
             /\ HasHeader(disk[Path(order[k])]) =>
                  /\ HasHeader(part)
                  /\ Len(part.messages) >= Len(disk[Path(order[k])].messages)
             /\ disk' = [disk EXCEPT ![Path(order[k])] = part]
  /\ UNCHANGED <<temp, written, finals, unopened, origin>>

\* fs::remove, which throws when it fails.
RemoveTemps(order, next) ==
  \/ /\ Each(order, "RemoveTemps", next)
     /\ temp' = [temp EXCEPT ![Path(order[k])] = Absent]
     /\ UNCHANGED <<disk, written, finals, unopened, origin, failed>>
  \/ /\ pc = "RemoveTemps"
     /\ Refuses("remove")
     /\ End("terminated")
     /\ UNCHANGED <<disk, temp, k, asked, streams, origin, runs>>

-----------------------------------------------------------------------------
(* The environment: a filebuf overflows, the process is killed.            *)

SpillTemp(role) ==
  /\ pc = "Read" /\ <<role, "temp">> \notin unopened
  /\ \E part \in Parts(written[role]) :
       /\ Len(part) > Len(temp[Path(role)])
       /\ temp' = [temp EXCEPT ![Path(role)] = part]
  /\ UNCHANGED <<disk, pc, k, asked, streams, exit, origin, failed, runs>>

SpillFinal(role) ==
  /\ pc \in {"PrependHeaders", "CloseFinals"}
  /\ finals[role] # EmptyFile /\ <<role, "final">> \notin unopened
  /\ \E part \in Beginnings(finals[role]) \ {EmptyFile} :
       /\ HasHeader(disk[Path(role)]) => Len(part.messages) > Len(disk[Path(role)].messages)
       /\ disk' = [disk EXCEPT ![Path(role)] = part]
  /\ UNCHANGED <<temp, pc, k, asked, streams, exit, origin, failed, runs>>

Kill ==
  /\ Running
  /\ End("killed")
  /\ UNCHANGED <<disk, temp, k, asked, streams, origin, failed, runs>>

Environment ==
  \/ \E command \in Commands : Invoke(command)
  \/ \E role \in Roles : SpillTemp(role) \/ SpillFinal(role)
  \/ Kill

Init ==
  /\ disk \in [Files -> Contents]
  /\ temp = [f \in Files |-> Absent]
  /\ pc = "ended" /\ k = 1 /\ exit = "none" /\ runs = 0
  /\ asked \in Commands
  /\ written = [r \in Roles |-> <<>>] /\ counts = <<>>
  /\ finals = [r \in Roles |-> EmptyFile] /\ unopened = {}
  /\ origin = [f \in Files |-> 0] /\ failed = {}

-----------------------------------------------------------------------------
(* Properties of both commands.                                            *)

\* Each variable has its type; k names an output of the command in every step.
TypeOK ==
  /\ disk \in [Files -> File \cup {Absent}]
  /\ temp \in [Files -> Seq(Message) \cup {Absent}]
  /\ pc \in Steps \cup {"ended"}
  /\ k \in 1..Cardinality(Roles)
  /\ asked \in Commands
  /\ written \in [Roles -> Seq(Message)]
  /\ counts \in Seq(Nat)
  /\ finals \in [Roles -> File]
  /\ unopened \subseteq Roles \X {"temp", "source", "final"}
  /\ exit \in Exits
  /\ origin \in [Files -> 0..MaxRuns]
  /\ failed \subseteq Failures
  /\ runs \in 0..MaxRuns

Ok == pc = "ended" /\ exit = "kOk"

\* This run has truncated the final file of the role.
Fresh(role) == runs > 0 /\ origin[Path(role)] = runs

\* The final file a role should end up with.
Published(role) ==
  [header   |-> [type     |-> Types[role],
                 count    |-> Len(written[role]),
                 language |-> asked.language],
   messages |-> written[role]]

(***************************************************************************)
(* Once a run has truncated an output, what each output should hold is     *)
(* wholly on the disk, in its temporary file or in its final one: being    *)
(* killed while headers are added, or failing to remove the first of the   *)
(* temporary files, loses no message of the input.  (A full disk can, and  *)
(* so can a stream that does not open.)                                    *)
(***************************************************************************)
NothingLost ==
  failed \subseteq {"remove"} /\ (\E role \in Roles : Fresh(role)) =>
    \A role \in Roles :
      \/ temp[Path(role)] = written[role]
      \/ /\ disk[Path(role)] = finals[role]
         /\ finals[role] # EmptyFile /\ finals[role].messages = written[role]

(***************************************************************************)
(* Next to an output with a header of this run, an output has an older one *)
(* only if the file system refused to open its final file, whatever else   *)
(* it refuses and wherever the run is killed: all final files are truncated*)
(* before the first header is written.  (What the commands make of such a  *)
(* refusal is OkMeansOneSet.)                                              *)
(***************************************************************************)
NeverMixed ==
  \A r, s \in Roles :
    HasHeader(disk[Path(r)]) /\ HasHeader(disk[Path(s)]) /\ Fresh(r) =>
      Fresh(s) \/ <<s, "final">> \in unopened

(***************************************************************************)
(* Every header a run has published counts all messages of its output,     *)
(* whatever the file system refuses.  Unless it refused to open a file,    *)
(* what follows is some beginning of those, whatever part of the temporary *)
(* or the final file a kill or a full disk has cut off: a reader that      *)
(* counts cannot take a part for the whole.                                *)
(***************************************************************************)
CountsTellAll ==
  \A role \in Roles :
    Fresh(role) /\ HasHeader(disk[Path(role)]) =>
      /\ disk[Path(role)].header.count = Len(written[role])
      /\ "open" \notin failed => disk[Path(role)].messages \in Parts(written[role])

(***************************************************************************)
(* kOk, and nothing was refused: each file has a header that counts it --  *)
(* and no other of the files -- and states its type and the language asked *)
(* for, all of its messages, and no temporary file beside it.              *)
(***************************************************************************)
OkPublishes ==
  Ok /\ failed = {} =>
    \A role \in Roles : disk[Path(role)] = Published(role) /\ temp[Path(role)] = Absent

(***************************************************************************)
(* A run delivers its set when it returns kOk and the disk has taken       *)
(* everything.                                                             *)
(***************************************************************************)
FreshRoles == {role \in Roles : Fresh(role)}

Outcome ==
  CASE Running                                     -> "running"
    [] ~Running /\ exit = "none"                   -> "none"
    [] ~Running /\ exit = "kOk" /\ "write" \notin failed -> "ok"
    [] OTHER                                       -> "abandoned"

Promise == INSTANCE PublishSet WITH
  request <- asked, product <- written, fresh <- FreshRoles, outcome <- Outcome,
  Requests <- Commands, InitialDisks <- [Files -> Contents]
=============================================================================
