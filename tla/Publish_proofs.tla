---------------------------- MODULE Publish_proofs ----------------------------
(***************************************************************************)
(* What Extract_proofs and Process_proofs have in common: an invariant of  *)
(* every command made of the steps of Publish, for any set of roles and    *)
(* any orders in which the outputs are worked through.                     *)
(***************************************************************************)
EXTENDS Publish, PbfIo_proofs, FiniteSetTheorems

-----------------------------------------------------------------------------
(* A command made of the steps of Publish.                                 *)

\* Each output comes once in the order in which a step works through them.
IsOrder(order) ==
  /\ order \in Seq(Roles) /\ Len(order) = Cardinality(Roles)
  /\ \A r \in Roles : \E n \in 1..Len(order) : order[n] = r
  /\ \A m, n \in 1..Len(order) : order[m] = order[n] => m = n

\* The outputs the present step is over with.
Done(order) == {order[m] : m \in 1..(k - 1)}

Proceed ==
  /\ pc = "LoadArgs" /\ pc' = "OpenTemps"
  /\ UNCHANGED <<disk, temp, k, asked, streams, exit, origin, failed, runs>>

\* The steps, with the headers in terms of what was written instead of counts.
Moves(opening, order) ==
  \/ Proceed
  \/ pc \in {"LoadArgs", "Read"} /\ Terminate
  \/ OpenTemps(order, "Read")
  \/ \E role \in Roles, message \in Message : WriteMessage(role, message)
  \/ ReturnCounts(order)
  \/ CloseTemps(order, "ReopenTemps")
  \/ ReopenTemps(opening, "OpenFinals")
  \/ OpenFinals(opening, "PrependHeaders")
  \/ PrependHeaders(order, [r \in Roles |-> Published(r).header], "CloseFinals")
  \/ CloseFinals(order, "RemoveTemps")
  \/ RemoveTemps(order, "ended")
  \/ Environment
  \/ UNCHANGED vars

\* They are outputs.
LEMMA DoneRoles ==
  ASSUME TypeOK, NEW order, IsOrder(order)
  PROVE  Done(order) \subseteq Roles
<1>1. ASSUME NEW m \in 1..(k - 1) PROVE order[m] \in Roles
  <2>1. m \in 1..Len(order)
    BY FS_CardinalityType, PublishAssumption DEF TypeOK, IsOrder
  <2> QED
    BY <2>1 DEF IsOrder
<1> QED
  BY <1>1 DEF Done

\* A step is done for one more output, or for all of them.
LEMMA EachDone ==
  ASSUME TypeOK, NEW order, IsOrder(order), NEW step, NEW next, Each(order, step, next)
  PROVE  /\ order[k] \in Roles /\ order[k] \notin Done(order) /\ Done(order) \subseteq Roles
         /\ pc = step /\ UNCHANGED <<asked, counts, runs>>
         /\ k' \in 1..Cardinality(Roles)
         /\ \/ /\ k' # 1 /\ pc' = step /\ exit' = exit
               /\ Done(order)' = Done(order) \cup {order[k]}
            \/ /\ k' = 1 /\ pc' = next
               /\ exit' = IF next = "ended" THEN "kOk" ELSE exit
               /\ Roles = Done(order) \cup {order[k]}
<1>1. Cardinality(Roles) \in Nat
  BY FS_CardinalityType, PublishAssumption
<1>2. k \in 1..Len(order) /\ Len(order) = Cardinality(Roles) /\ order \in Seq(Roles)
  BY DEF TypeOK, IsOrder
<1>3. order[k] \in Roles
  BY <1>2
<1>4. order[k] \notin Done(order)
  <2>1. ASSUME NEW m \in 1..(k - 1), order[k] = order[m] PROVE FALSE
    <3>1. m \in 1..Len(order) /\ m # k
      BY <1>1, <1>2
    <3> QED
      BY <1>2, <2>1, <3>1 DEF IsOrder
  <2> QED
    BY <2>1 DEF Done
<1>5. Done(order) \subseteq Roles
  BY DoneRoles
<1>6. CASE k = Len(order)
  <2>1. ASSUME NEW r \in Roles PROVE r \in Done(order) \cup {order[k]}
    <3>1. PICK n \in 1..Len(order) : order[n] = r
      BY DEF IsOrder
    <3>2. n = k \/ n \in 1..(k - 1)
      BY <1>2, <1>6
    <3> QED
      BY <3>1, <3>2 DEF Done
  <2>3. Roles = Done(order) \cup {order[k]}
    BY <1>3, <1>5, <2>1
  <2>4. k' = 1 /\ pc' = next /\ exit' = IF next = "ended" THEN "kOk" ELSE exit
    BY <1>6 DEF Each
  <2>5. 1 \in 1..Cardinality(Roles)
    BY <1>1, <1>2
  <2> QED
    BY <1>3, <1>4, <1>5, <2>3, <2>4, <2>5 DEF Each
<1>7. CASE k # Len(order)
  <2>1. k' = k + 1 /\ pc' = step /\ exit' = exit
    BY <1>7 DEF Each
  <2>2. 1..(k' - 1) = 1..(k - 1) \cup {k}
    BY <1>2, <2>1
  <2>3. Done(order)' = Done(order) \cup {order[k]}
    BY <2>2 DEF Done
  <2>4. k' \in 1..Cardinality(Roles) /\ k' # 1
    BY <1>2, <1>7, <2>1, <1>1
  <2> QED
    BY <1>3, <1>4, <1>5, <2>1, <2>3, <2>4 DEF Each
<1> QED
  BY <1>6, <1>7

\* At the first output of a step nothing is done.
LEMMA NothingDone ==
  ASSUME NEW order, k = 1
  PROVE  Done(order) = {}
  BY DEF Done

\* The outputs of one command have paths of their own.
LEMMA PathsApart ==
  ASSUME TypeOK
  PROVE  /\ \A r \in Roles : Path(r) \in Files
         /\ \A r, s \in Roles : r # s => Path(r) # Path(s)
  BY PublishAssumption DEF TypeOK, Path

-----------------------------------------------------------------------------
(* Type correctness.                                                       *)

\* There is an output for a step to begin with.
LEMMA FirstOutput == 1 \in 1..Cardinality(Roles)
<1>1. Cardinality(Roles) \in Nat /\ Cardinality(Roles) # 0
  BY FS_CardinalityType, FS_EmptySet, PublishAssumption
<1> QED
  BY <1>1

\* Before the first run every variable has its type.
LEMMA InitTypeOK == Init => TypeOK
<1> SUFFICES ASSUME Init PROVE TypeOK
  OBVIOUS
<1>1. 1 \in 1..Cardinality(Roles)
  BY FirstOutput
<1>2. EmptyFile \in File
  BY DEF EmptyFile, File
<1>3. disk \in [Files -> File \cup {Absent}]
  BY PublishAssumption DEF Init
<1>4. temp \in [Files -> Seq(Message) \cup {Absent}]
  BY DEF Init
<1>5. written \in [Roles -> Seq(Message)] /\ finals \in [Roles -> File]
  BY <1>2 DEF Init
<1>6. origin \in [Files -> 0..MaxRuns] /\ runs \in 0..MaxRuns
  BY PublishAssumption DEF Init
<1> QED
  BY <1>1, <1>3, <1>4, <1>5, <1>6 DEF Init, TypeOK, Exits

\* The header a role should get is one.
LEMMA HeaderType ==
  ASSUME TypeOK, NEW r \in Roles
  PROVE  Published(r).header \in Header
<1>1. asked.language \in Languages \cup {LANGUAGE_UNSPECIFIED}
  BY PublishAssumption DEF TypeOK
<1>2. Len(written[r]) \in Nat
  BY DEF TypeOK
<1> QED
  BY <1>1, <1>2, PublishAssumption DEF Published, Header

\* No step takes a variable out of its type.
LEMMA NextTypeOK ==
  ASSUME TypeOK,
         NEW order, IsOrder(order), NEW opening, IsOrder(opening),
         Moves(opening, order)
  PROVE  TypeOK'
<1> USE DEF Steps, Exits, streams
<1> DEFINE r == order[k]
<1>0. EmptyFile \in File
  BY DEF EmptyFile, File
<1>1. CASE Proceed
  BY <1>1 DEF Proceed, TypeOK
<1>2. CASE Terminate
  BY <1>2 DEF Terminate, End, TypeOK
<1>3. CASE OpenTemps(order, "Read")
  <2>1. r \in Roles /\ Path(r) \in Files /\ k' \in 1..Cardinality(Roles)
    BY <1>3, EachDone, PathsApart DEF OpenTemps
  <2>2. temp' \in [Files -> Seq(Message) \cup {Absent}]
    <3>1. <<>> \in Seq(Message)
      OBVIOUS
    <3> QED
      BY <1>3, <2>1, <3>1 DEF OpenTemps, TypeOK
  <2>3. unopened' \subseteq Roles \X {"temp", "source", "final"} /\ failed' \subseteq Failures
    BY <1>3, <2>1 DEF OpenTemps, Refuses, TypeOK
  <2> QED
    BY <1>3, <2>1, <2>2, <2>3 DEF OpenTemps, Each, TypeOK
<1>4. ASSUME NEW role \in Roles, NEW message \in Message, WriteMessage(role, message)
      PROVE  TypeOK'
  <2>1. Append(written[role], message) \in Seq(Message)
    BY DEF TypeOK
  <2>2. written' \in [Roles -> Seq(Message)]
    BY <1>4, <2>1 DEF WriteMessage, TypeOK
  <2> QED
    BY <1>4, <2>2 DEF WriteMessage, TypeOK
<1>5. CASE ReturnCounts(order)
  <2>1. \A n \in DOMAIN order : Len(written[order[n]]) \in Nat
    <3>1. ASSUME NEW n \in DOMAIN order PROVE Len(written[order[n]]) \in Nat
      <4>1. order[n] \in Roles
        BY DEF IsOrder
      <4> QED
        BY <4>1 DEF TypeOK
    <3> QED
      BY <3>1
  <2>2. [n \in DOMAIN order |-> Len(written[order[n]])] \in Seq(Nat)
    <3>1. DOMAIN order = 1..Len(order) /\ Len(order) \in Nat
      BY DEF IsOrder
    <3>2. [n \in DOMAIN order |-> Len(written[order[n]])] \in [1..Len(order) -> Nat]
      BY <2>1, <3>1
    <3> QED
      BY <3>1, <3>2, SeqDef
  <2> QED
    BY <1>5, <2>2 DEF ReturnCounts, TypeOK
<1>6. CASE CloseTemps(order, "ReopenTemps")
  <2>1. r \in Roles /\ Path(r) \in Files /\ k' \in 1..Cardinality(Roles)
    BY <1>6, EachDone, PathsApart DEF CloseTemps
  <2>2. written[r] \in Seq(Message) /\ Parts(written[r]) \subseteq Seq(Message)
    BY <2>1, PartsOfSeq DEF TypeOK
  <2>3. temp' \in [Files -> Seq(Message) \cup {Absent}]
    BY <1>6, <2>1, <2>2 DEF CloseTemps, TypeOK
  <2>4. failed' \subseteq Failures
    BY <1>6 DEF CloseTemps, Refuses, TypeOK
  <2> QED
    BY <1>6, <2>1, <2>3, <2>4 DEF CloseTemps, Each, TypeOK
<1>6a. CASE ReopenTemps(opening, "OpenFinals")
  <2>1. opening[k] \in Roles /\ k' \in 1..Cardinality(Roles)
    BY <1>6a, EachDone DEF ReopenTemps
  <2>2. unopened' \subseteq Roles \X {"temp", "source", "final"} /\ failed' \subseteq Failures
    BY <1>6a, <2>1 DEF ReopenTemps, Refuses, TypeOK
  <2> QED
    BY <1>6a, <2>1, <2>2 DEF ReopenTemps, Each, TypeOK
<1>7. CASE OpenFinals(opening, "PrependHeaders")
  <2>1. opening[k] \in Roles /\ Path(opening[k]) \in Files /\ k' \in 1..Cardinality(Roles)
    BY <1>7, EachDone, PathsApart DEF OpenFinals
  <2>2. disk' \in [Files -> File \cup {Absent}] /\ origin' \in [Files -> 0..MaxRuns]
    BY <1>0, <1>7, <2>1 DEF OpenFinals, TypeOK
  <2>3. unopened' \subseteq Roles \X {"temp", "source", "final"} /\ failed' \subseteq Failures
    BY <1>7, <2>1 DEF OpenFinals, Refuses, TypeOK
  <2> QED
    BY <1>7, <2>1, <2>2, <2>3 DEF OpenFinals, Each, TypeOK
<1>8. CASE PrependHeaders(order, [s \in Roles |-> Published(s).header], "CloseFinals")
  <2>1. r \in Roles /\ Path(r) \in Files /\ k' \in 1..Cardinality(Roles)
    BY <1>8, EachDone, PathsApart DEF PrependHeaders
  <2>2. PICK messages \in Seq(Message) :
          finals' = [finals EXCEPT ![r] =
            [header |-> [s \in Roles |-> Published(s).header][r], messages |-> messages]]
    <3>1. temp[Path(r)] # Absent => temp[Path(r)] \in Seq(Message)
      BY <2>1 DEF TypeOK
    <3>2. <<>> \in Seq(Message)
      OBVIOUS
    <3> QED
      BY <1>8, <3>1, <3>2 DEF PrependHeaders
  <2>3. [header |-> Published(r).header, messages |-> messages] \in File
    BY <2>1, HeaderType DEF File
  <2>4. finals' \in [Roles -> File]
    BY <2>1, <2>2, <2>3 DEF TypeOK
  <2> QED
    BY <1>8, <2>1, <2>4 DEF PrependHeaders, Each, TypeOK
<1>9. CASE CloseFinals(order, "RemoveTemps")
  <2>1. r \in Roles /\ Path(r) \in Files /\ k' \in 1..Cardinality(Roles)
    BY <1>9, EachDone, PathsApart DEF CloseFinals
  <2>2. finals[r] \in File /\ Beginnings(finals[r]) \subseteq File
    BY <2>1, BeginningsOfFile DEF TypeOK
  <2>3. disk' \in [Files -> File \cup {Absent}]
    BY <1>9, <2>1, <2>2 DEF CloseFinals, TypeOK
  <2>4. failed' \subseteq Failures
    BY <1>9 DEF CloseFinals, Refuses, TypeOK
  <2> QED
    BY <1>9, <2>1, <2>3, <2>4 DEF CloseFinals, Each, TypeOK
<1>10. CASE RemoveTemps(order, "ended")
  <2>1. CASE Each(order, "RemoveTemps", "ended")
    <3>1. r \in Roles /\ Path(r) \in Files /\ k' \in 1..Cardinality(Roles)
      BY <2>1, EachDone, PathsApart
    <3>2. temp' \in [Files -> Seq(Message) \cup {Absent}] \/ temp' = temp
      BY <1>10, <3>1 DEF RemoveTemps, TypeOK
    <3>3. failed' \subseteq Failures
      BY <1>10 DEF RemoveTemps, Refuses, TypeOK
    <3> QED
      BY <1>10, <2>1, <3>1, <3>2, <3>3 DEF RemoveTemps, Each, End, TypeOK
  <2>2. CASE ~Each(order, "RemoveTemps", "ended")
    BY <1>10, <2>2 DEF RemoveTemps, Refuses, End, TypeOK
  <2> QED
    BY <2>1, <2>2
<1>11. ASSUME NEW command \in Commands, Invoke(command) PROVE TypeOK'
  <2>1. runs' \in 0..MaxRuns
    BY <1>11, PublishAssumption DEF Invoke, TypeOK
  <2>2. k' \in 1..Cardinality(Roles)
    BY <1>11, FirstOutput DEF Invoke
  <2>3. written' \in [Roles -> Seq(Message)] /\ finals' \in [Roles -> File]
    BY <1>0, <1>11 DEF Invoke
  <2> QED
    BY <1>11, <2>1, <2>2, <2>3 DEF Invoke, TypeOK
<1>12. ASSUME NEW role \in Roles, SpillTemp(role) PROVE TypeOK'
  <2>1. Path(role) \in Files /\ Parts(written[role]) \subseteq Seq(Message)
    BY PathsApart, PartsOfSeq DEF TypeOK
  <2>2. temp' \in [Files -> Seq(Message) \cup {Absent}]
    BY <1>12, <2>1 DEF SpillTemp, TypeOK
  <2> QED
    BY <1>12, <2>2 DEF SpillTemp, TypeOK
<1>13. ASSUME NEW role \in Roles, SpillFinal(role) PROVE TypeOK'
  <2>1. Path(role) \in Files /\ Beginnings(finals[role]) \subseteq File
    BY PathsApart, BeginningsOfFile DEF TypeOK
  <2>2. disk' \in [Files -> File \cup {Absent}]
    BY <1>13, <2>1 DEF SpillFinal, TypeOK
  <2> QED
    BY <1>13, <2>2 DEF SpillFinal, TypeOK
<1>14. CASE Kill
  BY <1>14 DEF Kill, End, TypeOK
<1>15. CASE UNCHANGED vars
  BY <1>15 DEF vars, TypeOK
<1> QED
  BY <1>1, <1>2, <1>3, <1>4, <1>5, <1>6, <1>6a, <1>7, <1>8, <1>9, <1>10, <1>11, <1>12, <1>13,
     <1>14, <1>15 DEF Moves, Environment

-----------------------------------------------------------------------------
(* Where a run is, and what it has opened and put into its streams by then.*)

BeforeHeaders == {"LoadArgs", "OpenTemps", "Read", "CloseTemps", "ReopenTemps", "OpenFinals"}
FromHeaders   == {"PrependHeaders", "CloseFinals", "RemoveTemps"}

\* The final file of the role was truncated, unless it did not open.
Opened(role) == Fresh(role) \/ <<role, "final">> \in unopened

\* No output is fresh before OpenFinals, and each that opened is when headers are
\* added; a header is added to each, once, and none is before.
ProgressInv(opening, order) ==
  /\ \A f \in Files : origin[f] <= runs
  /\ Running => runs > 0
  /\ pc \in {"LoadArgs", "Read"} => k = 1
  /\ pc \in BeforeHeaders \ {"OpenFinals"} => \A r \in Roles : ~Fresh(r)
  /\ pc \in BeforeHeaders => \A r \in Roles : finals[r] = EmptyFile
  /\ pc = "PrependHeaders" =>
       \A r \in Roles : r \in Done(order) <=> finals[r] # EmptyFile
  /\ pc \in {"CloseFinals", "RemoveTemps"} => \A r \in Roles : finals[r] # EmptyFile
  /\ pc \in {"LoadArgs", "OpenTemps"} => \A r \in Roles : written[r] = <<>>
  /\ "open" \notin failed => unopened = {}
  /\ pc = "OpenFinals" => \A r \in Done(opening) : Opened(r)
  /\ pc \in FromHeaders \/ (\E r \in Roles : finals[r] # EmptyFile) => \A r \in Roles : Opened(r)

\* Before the first run nothing is in the streams.
LEMMA InitProgressInv == ASSUME Init, NEW opening, NEW order PROVE ProgressInv(opening, order)
  BY DEF Init, ProgressInv, Running, Steps, BeforeHeaders, FromHeaders

\* A header is no empty file.
LEMMA HeaderNotEmpty ==
  ASSUME TypeOK, NEW r \in Roles, NEW messages
  PROVE  [header |-> Published(r).header, messages |-> messages] # EmptyFile
<1>1. Published(r).header # NoHeader
  BY HeaderType, PbfIoAssumption
<1> QED
  BY <1>1 DEF EmptyFile

\* Every step keeps to that progress.
LEMMA NextProgressInv ==
  ASSUME TypeOK,
         NEW order, IsOrder(order), NEW opening, IsOrder(opening),
         ProgressInv(opening, order), Moves(opening, order)
  PROVE  ProgressInv(opening, order)'
<1> USE DEF Steps, streams, Running, BeforeHeaders, FromHeaders, Opened
<1>1. CASE Proceed
  BY <1>1 DEF Proceed, ProgressInv, Fresh, Path, Done
<1>2. CASE Terminate
  BY <1>2 DEF Terminate, End, ProgressInv, Fresh, Path, Done
<1>3. CASE OpenTemps(order, "Read")
  <2>1. /\ pc = "OpenTemps" /\ pc' \in {"OpenTemps", "Read"}
        /\ pc' = "Read" => k' = 1
        /\ UNCHANGED <<asked, runs, written, finals, origin>>
    BY <1>3, EachDone DEF OpenTemps
  <2>2. "open" \notin failed' => UNCHANGED <<unopened, failed>>
    BY <1>3 DEF OpenTemps, Refuses
  <2> QED
    BY <2>1, <2>2 DEF ProgressInv, Fresh, Path
<1>4. ASSUME NEW role \in Roles, NEW message \in Message, WriteMessage(role, message)
      PROVE  ProgressInv(opening, order)'
  BY <1>4 DEF WriteMessage, ProgressInv, Fresh, Path
<1>5. CASE ReturnCounts(order)
  BY <1>5 DEF ReturnCounts, ProgressInv, Fresh, Path
<1>6. CASE CloseTemps(order, "ReopenTemps")
  <2>1. /\ pc = "CloseTemps" /\ UNCHANGED <<asked, runs, written, finals, origin, unopened>>
        /\ pc' \in {"CloseTemps", "ReopenTemps"}
    BY <1>6, EachDone DEF CloseTemps
  <2>2. "open" \notin failed' => "open" \notin failed
    BY <1>6 DEF CloseTemps, Refuses
  <2> QED
    BY <2>1, <2>2 DEF ProgressInv, Fresh, Path
<1>6a. CASE ReopenTemps(opening, "OpenFinals")
  <2>1. /\ pc = "ReopenTemps" /\ UNCHANGED <<asked, runs, written, finals, origin>>
        /\ pc' = "ReopenTemps" \/ (pc' = "OpenFinals" /\ k' = 1)
    BY <1>6a, EachDone DEF ReopenTemps
  <2>2. "open" \notin failed' => UNCHANGED <<unopened, failed>>
    BY <1>6a DEF ReopenTemps, Refuses
  <2>3. pc' = "OpenFinals" => Done(opening)' = {}
    BY <2>1, NothingDone DEF Done
  <2> QED
    BY <2>1, <2>2, <2>3 DEF ProgressInv, Fresh, Path
<1>7. CASE OpenFinals(opening, "PrependHeaders")
  <2>1. /\ opening[k] \in Roles
        /\ pc = "OpenFinals" /\ UNCHANGED <<asked, runs, written, finals>>
        /\ \/ pc' = "OpenFinals" /\ Done(opening)' = Done(opening) \cup {opening[k]}
           \/ pc' = "PrependHeaders" /\ k' = 1 /\ Roles = Done(opening) \cup {opening[k]}
    BY <1>7, EachDone DEF OpenFinals
  <2>2. \A f \in Files : origin'[f] \in {origin[f], runs}
    BY <1>7 DEF OpenFinals, TypeOK
  <2>3. ASSUME NEW r \in Done(opening) \cup {opening[k]} PROVE Opened(r)'
    <3>1. Done(opening) \subseteq Roles /\ runs > 0
      BY <2>1, DoneRoles DEF ProgressInv
    <3>2. CASE r = opening[k]
      <4>1. \/ origin'[Path(opening[k])] = runs
            \/ <<opening[k], "final">> \in unopened'
        BY <1>7, <2>1, PathsApart DEF OpenFinals, TypeOK
      <4> QED
        BY <2>1, <3>1, <3>2, <4>1 DEF Fresh, Path
    <3>3. CASE r # opening[k]
      <4>1. Opened(r) /\ r \in Roles /\ Path(r) \in Files
        BY <2>1, <3>1, <3>3, PathsApart DEF ProgressInv
      <4>2. unopened \subseteq unopened' /\ (Fresh(r) => origin'[Path(r)] = runs)
        BY <1>7, <2>2, <4>1 DEF OpenFinals, Fresh
      <4> QED
        BY <2>1, <3>1, <4>1, <4>2 DEF Fresh, Path
    <3> QED
      BY <3>2, <3>3
  <2>4. pc' = "PrependHeaders" => Done(order)' = {}
    BY <2>1, NothingDone DEF Done
  <2> QED
    <3>1. \A f \in Files : origin'[f] <= runs'
      <4>1. runs \in Nat /\ runs <= runs
        BY PublishAssumption DEF TypeOK
      <4>2. \A f \in Files : origin[f] <= runs
        BY DEF ProgressInv
      <4> QED
        BY <2>1, <2>2, <4>1, <4>2
    <3>2. runs' > 0 /\ \A r \in Roles : finals'[r] = EmptyFile
      BY <2>1 DEF ProgressInv
    <3>3. "open" \notin failed' => unopened' = {}
      BY <1>7 DEF OpenFinals, Refuses, ProgressInv
    <3> QED
      BY <2>1, <2>3, <2>4, <3>1, <3>2, <3>3 DEF ProgressInv
<1>8. CASE PrependHeaders(order, [s \in Roles |-> Published(s).header], "CloseFinals")
  <2>1. /\ order[k] \in Roles /\ order[k] \notin Done(order)
        /\ pc = "PrependHeaders" /\ UNCHANGED <<asked, runs, written, origin, unopened>>
        /\ \/ pc' = "PrependHeaders" /\ Done(order)' = Done(order) \cup {order[k]}
           \/ pc' = "CloseFinals" /\ k' = 1 /\ Roles = Done(order) \cup {order[k]}
    BY <1>8, EachDone DEF PrependHeaders
  <2>2. finals'[order[k]] # EmptyFile /\ \A r \in Roles \ {order[k]} : finals'[r] = finals[r]
    <3>1. ASSUME NEW messages,
                 finals' = [finals EXCEPT ![order[k]] =
                   [header   |-> [s \in Roles |-> Published(s).header][order[k]],
                    messages |-> messages]]
          PROVE  finals'[order[k]] # EmptyFile /\ \A r \in Roles \ {order[k]} : finals'[r] = finals[r]
      BY <2>1, <3>1, HeaderNotEmpty DEF TypeOK
    <3> QED
      BY <1>8, <3>1 DEF PrependHeaders
  <2>3. failed' = failed
    BY <1>8 DEF PrependHeaders
  <2> QED
    BY <2>1, <2>2, <2>3 DEF ProgressInv, Fresh, Path
<1>9. CASE CloseFinals(order, "RemoveTemps")
  <2>1. /\ pc = "CloseFinals" /\ pc' \in {"CloseFinals", "RemoveTemps"}
        /\ UNCHANGED <<asked, runs, written, finals, origin, unopened>>
    BY <1>9, EachDone DEF CloseFinals
  <2>2. "open" \notin failed' => "open" \notin failed
    BY <1>9 DEF CloseFinals, Refuses
  <2> QED
    BY <2>1, <2>2 DEF ProgressInv, Fresh, Path
<1>10. CASE RemoveTemps(order, "ended")
  <2>1. /\ pc = "RemoveTemps" /\ pc' \in {"RemoveTemps", "ended"}
        /\ UNCHANGED <<asked, runs, written, finals, origin, unopened>>
    BY <1>10, EachDone DEF RemoveTemps, End
  <2>2. "open" \notin failed' => "open" \notin failed
    BY <1>10 DEF RemoveTemps, Refuses
  <2> QED
    BY <2>1, <2>2 DEF ProgressInv, Fresh, Path
<1>11. ASSUME NEW command \in Commands, Invoke(command) PROVE ProgressInv(opening, order)'
  <2>1. runs' > 0 /\ \A f \in Files : origin'[f] < runs'
    BY <1>11 DEF Invoke, ProgressInv, TypeOK
  <2>2. \A r \in Roles : command.paths[r] \in Files
    BY PublishAssumption
  <2>3. \A r \in Roles : ~Fresh(r)'
    <3>1. ASSUME NEW r \in Roles PROVE origin'[asked'.paths[r]] # runs'
      <4>1. asked'.paths[r] \in Files /\ origin' = origin /\ runs' = runs + 1
        BY <1>11, <2>2 DEF Invoke
      <4>2. origin[asked'.paths[r]] \in Nat /\ runs \in Nat
        BY <4>1, PublishAssumption DEF TypeOK
      <4> QED
        BY <2>1, <4>1, <4>2
    <3> QED
      BY <3>1 DEF Fresh, Path
  <2>4. \A r \in Roles : finals'[r] = EmptyFile /\ written'[r] = <<>>
    BY <1>11 DEF Invoke
  <2>5. pc' = "LoadArgs" /\ k' = 1 /\ unopened' = {}
    BY <1>11 DEF Invoke
  <2>6. \A f \in Files : origin'[f] <= runs'
    BY <1>11, <2>1, PublishAssumption DEF Invoke, TypeOK
  <2> QED
    BY <2>1, <2>3, <2>4, <2>5, <2>6 DEF ProgressInv
<1>12. ASSUME NEW role \in Roles, SpillTemp(role) PROVE ProgressInv(opening, order)'
  BY <1>12 DEF SpillTemp, ProgressInv, Fresh, Path, Done
<1>13. ASSUME NEW role \in Roles, SpillFinal(role) PROVE ProgressInv(opening, order)'
  BY <1>13 DEF SpillFinal, ProgressInv, Fresh, Path, Done
<1>14. CASE Kill
  BY <1>14 DEF Kill, End, ProgressInv, Fresh, Path, Done
<1>15. CASE UNCHANGED vars
  BY <1>15 DEF vars, ProgressInv, Fresh, Path, Done
<1> QED
  BY <1>1, <1>2, <1>3, <1>4, <1>5, <1>6, <1>6a, <1>7, <1>8, <1>9, <1>10, <1>11, <1>12, <1>13,
     <1>14, <1>15 DEF Moves, Environment

-----------------------------------------------------------------------------
(* What the temporary files hold.                                          *)

\* From Read to CloseFinals a temporary file holds a part of what was written to
\* its stream, and all of it once it was closed on a disk that took everything.
TempsInv(order) ==
  "open" \notin failed =>
    /\ pc = "OpenTemps" => \A r \in Done(order) : temp[Path(r)] = <<>>
    /\ pc \in {"Read", "CloseTemps", "ReopenTemps", "OpenFinals", "PrependHeaders", "CloseFinals"} =>
         \A r \in Roles : temp[Path(r)] \in Parts(written[r])
    /\ "write" \notin failed =>
         /\ pc = "CloseTemps" => \A r \in Done(order) : temp[Path(r)] = written[r]
         /\ pc \in {"ReopenTemps", "OpenFinals", "PrependHeaders", "CloseFinals"} =>
              \A r \in Roles : temp[Path(r)] = written[r]

\* Before the first run there is no temporary file to speak of.
LEMMA InitTempsInv == ASSUME Init, NEW order PROVE TempsInv(order)
  BY DEF Init, TempsInv

\* Every step keeps the temporary files so.
LEMMA NextTempsInv ==
  ASSUME TypeOK,
         NEW order, IsOrder(order), NEW opening, IsOrder(opening),
         ProgressInv(opening, order), TempsInv(order), Moves(opening, order)
  PROVE  TempsInv(order)'
<1> USE DEF Steps, streams
<1> DEFINE o == order[k]
<1>0. \A r \in Roles : Path(r) \in Files /\ Path(r)' = asked'.paths[r]
  BY PathsApart DEF Path
<1>1. CASE Proceed
  <2>1. k' = 1 /\ pc' = "OpenTemps" /\ UNCHANGED <<asked, temp, written, failed>>
    BY <1>1 DEF Proceed, ProgressInv
  <2>2. Done(order)' = {}
    BY <2>1, NothingDone DEF Done
  <2> QED
    BY <2>1, <2>2 DEF TempsInv, Path
<1>2. CASE Terminate
  BY <1>2 DEF Terminate, End, TempsInv
<1>3. CASE OpenTemps(order, "Read")
  <2>1. /\ o \in Roles /\ Done(order) \subseteq Roles
        /\ pc = "OpenTemps" /\ UNCHANGED <<asked, written>>
        /\ \/ pc' = "OpenTemps" /\ Done(order)' = Done(order) \cup {o}
           \/ pc' = "Read" /\ Roles = Done(order) \cup {o}
    BY <1>3, EachDone DEF OpenTemps
  <2>2. ASSUME "open" \notin failed'
        PROVE  \A r \in Roles : r \in Done(order) \cup {o} => temp'[Path(r)] = <<>>
    <3>1. "open" \notin failed /\ temp' = [temp EXCEPT ![Path(o)] = <<>>]
      BY <1>3, <2>2 DEF OpenTemps, Refuses
    <3>2. \A r \in Done(order) : temp[Path(r)] = <<>>
      BY <2>1, <3>1 DEF TempsInv
    <3> QED
      BY <1>0, <2>1, <3>1, <3>2, PathsApart DEF TypeOK
  <2>3. \A r \in Roles : written'[r] = <<>> /\ <<>> \in Parts(written'[r])
    <3>1. \A r \in Roles : written[r] = <<>>
      BY <2>1 DEF ProgressInv
    <3>2. <<>> \in Seq(Message)
      OBVIOUS
    <3> QED
      BY <2>1, <3>1, <3>2, PartsOfSeq
  <2>4. pc' = "OpenTemps" => Done(order)' \subseteq Roles
    BY <2>1
  <2> QED
    BY <2>1, <2>2, <2>3, <2>4 DEF TempsInv, Path
<1>4. ASSUME NEW role \in Roles, NEW message \in Message, WriteMessage(role, message)
      PROVE  TempsInv(order)'
  <2>1. /\ pc = "Read" /\ pc' = "Read" /\ UNCHANGED <<asked, temp, failed>>
        /\ written' = [written EXCEPT ![role] = Append(@, message)]
    BY <1>4 DEF WriteMessage
  <2>2. ASSUME NEW r \in Roles, temp[Path(r)] \in Parts(written[r])
        PROVE  temp[Path(r)] \in Parts(written'[r])
    <3>1. written[r] \in Seq(Message)
      BY DEF TypeOK
    <3>2. temp[Path(r)] \in Parts(Append(written[r], message))
      BY <2>2, <3>1, PartsOfAppend
    <3>3. written'[r] = written[r] \/ written'[r] = Append(written[r], message)
      BY <2>1 DEF TypeOK
    <3> QED
      BY <2>2, <3>2, <3>3
  <2> QED
    BY <2>1, <2>2 DEF TempsInv, Path
<1>5. CASE ReturnCounts(order)
  <2>1. /\ k' = 1 /\ pc = "Read" /\ pc' = "CloseTemps"
        /\ UNCHANGED <<asked, temp, written, failed>>
    BY <1>5 DEF ReturnCounts, ProgressInv
  <2>2. Done(order)' = {}
    BY <2>1, NothingDone DEF Done
  <2> QED
    BY <2>1, <2>2 DEF TempsInv, Path
<1>6. CASE CloseTemps(order, "ReopenTemps")
  <2>1. /\ o \in Roles /\ Done(order) \subseteq Roles
        /\ pc = "CloseTemps" /\ UNCHANGED <<asked, written>>
        /\ \/ pc' = "CloseTemps" /\ Done(order)' = Done(order) \cup {o}
           \/ pc' = "ReopenTemps" /\ Roles = Done(order) \cup {o}
    BY <1>6, EachDone DEF CloseTemps
  <2>2. ASSUME "open" \notin failed'
        PROVE  /\ \A r \in Roles : temp'[Path(r)] \in Parts(written[r])
               /\ "write" \notin failed' =>
                    \A r \in Roles : r \in Done(order) \cup {o} => temp'[Path(r)] = written[r]
    <3>1. "open" \notin failed /\ unopened = {}
      BY <1>6, <2>2 DEF CloseTemps, Refuses, ProgressInv
    <3>2. PICK part \in Parts(written[o]) :
            /\ temp' = [temp EXCEPT ![Path(o)] = part]
            /\ "write" \notin failed' => part = written[o] /\ "write" \notin failed
      BY <1>6, <2>1, <3>1, PartsOfSeq DEF CloseTemps, Refuses, TypeOK
    <3>3. \A r \in Roles : temp[Path(r)] \in Parts(written[r])
      BY <2>1, <3>1 DEF TempsInv
    <3>4. "write" \notin failed => \A r \in Done(order) : temp[Path(r)] = written[r]
      BY <2>1, <3>1 DEF TempsInv
    <3> QED
      BY <1>0, <2>1, <3>2, <3>3, <3>4, PathsApart DEF TypeOK
  <2>3. pc' = "CloseTemps" => Done(order)' \subseteq Roles
    BY <2>1
  <2> QED
    BY <2>1, <2>2, <2>3 DEF TempsInv, Path
<1>6a. CASE ReopenTemps(opening, "OpenFinals")
  <2>1. /\ pc = "ReopenTemps" /\ pc' \in {"ReopenTemps", "OpenFinals"}
        /\ UNCHANGED <<asked, temp, written>>
    BY <1>6a, EachDone DEF ReopenTemps
  <2>2. "open" \notin failed' => failed' = failed
    BY <1>6a DEF ReopenTemps, Refuses
  <2> QED
    BY <2>1, <2>2 DEF TempsInv, Path
<1>7. CASE OpenFinals(opening, "PrependHeaders")
  <2>1. /\ pc = "OpenFinals" /\ pc' \in {"OpenFinals", "PrependHeaders"}
        /\ UNCHANGED <<asked, temp, written>>
    BY <1>7, EachDone DEF OpenFinals
  <2>2. "open" \notin failed' => failed' = failed
    BY <1>7 DEF OpenFinals, Refuses
  <2> QED
    BY <2>1, <2>2 DEF TempsInv, Path
<1>8. CASE PrependHeaders(order, [s \in Roles |-> Published(s).header], "CloseFinals")
  <2>1. /\ pc = "PrependHeaders" /\ pc' \in {"PrependHeaders", "CloseFinals"}
        /\ UNCHANGED <<asked, temp, written>>
    BY <1>8, EachDone DEF PrependHeaders
  <2>2. failed' = failed
    BY <1>8 DEF PrependHeaders
  <2> QED
    BY <2>1, <2>2 DEF TempsInv, Path
<1>9. CASE CloseFinals(order, "RemoveTemps")
  <2>1. /\ pc = "CloseFinals" /\ pc' \in {"CloseFinals", "RemoveTemps"}
        /\ UNCHANGED <<asked, temp, written>>
    BY <1>9, EachDone DEF CloseFinals
  <2>2. failed \subseteq failed'
    BY <1>9 DEF CloseFinals, Refuses
  <2> QED
    BY <2>1, <2>2 DEF TempsInv, Path
<1>10. CASE RemoveTemps(order, "ended")
  <2>1. pc' \in {"RemoveTemps", "ended"}
    BY <1>10, EachDone DEF RemoveTemps, End
  <2> QED
    BY <2>1 DEF TempsInv
<1>11. ASSUME NEW command \in Commands, Invoke(command) PROVE TempsInv(order)'
  BY <1>11 DEF Invoke, TempsInv
<1>12. ASSUME NEW role \in Roles, SpillTemp(role) PROVE TempsInv(order)'
  <2>1. pc = "Read" /\ pc' = "Read" /\ UNCHANGED <<asked, written, failed>>
    BY <1>12 DEF SpillTemp
  <2>2. PICK part \in Parts(written[role]) : temp' = [temp EXCEPT ![Path(role)] = part]
    BY <1>12 DEF SpillTemp
  <2>3. "open" \notin failed => \A r \in Roles : temp'[Path(r)] \in Parts(written[r])
    BY <1>0, <2>1, <2>2, PathsApart DEF TempsInv, TypeOK
  <2> QED
    BY <2>1, <2>3 DEF TempsInv, Path
<1>13. ASSUME NEW role \in Roles, SpillFinal(role) PROVE TempsInv(order)'
  <2>1. UNCHANGED <<pc, k, asked, temp, written, failed>>
    BY <1>13 DEF SpillFinal
  <2> QED
    BY <2>1 DEF TempsInv, Path, Done
<1>14. CASE Kill
  BY <1>14 DEF Kill, End, TempsInv
<1>15. CASE UNCHANGED vars
  BY <1>15 DEF vars, TempsInv, Path, Done
<1> QED
  BY <1>1, <1>2, <1>3, <1>4, <1>5, <1>6, <1>6a, <1>7, <1>8, <1>9, <1>10, <1>11, <1>12, <1>13,
     <1>14, <1>15 DEF Moves, Environment

-----------------------------------------------------------------------------
(* What the final files hold.                                              *)

\* A final stream gets the header the output should have, and a file of this run is
\* a beginning of it.  Where every stream opened, a part of what was written follows
\* the header, and a closed file is all of its stream.
FilesInv(order) ==
  \A r \in Roles :
    /\ finals[r] # EmptyFile => finals[r].header = Published(r).header
    /\ Fresh(r) => disk[Path(r)] \in Beginnings(finals[r])
    /\ "open" \notin failed =>
         /\ finals[r] # EmptyFile =>
              /\ finals[r].messages \in Parts(written[r])
              /\ "write" \notin failed => finals[r].messages = written[r]
         /\ "write" \notin failed /\ (pc = "RemoveTemps" \/ (pc = "CloseFinals" /\ r \in Done(order)))
              => disk[Path(r)] = finals[r]

\* Before the first run no file is one of a run.
LEMMA InitFilesInv == ASSUME Init, NEW order PROVE FilesInv(order)
  BY DEF Init, FilesInv, Fresh

\* A step that touches neither files nor streams keeps them so.
LEMMA QuietFilesInv ==
  ASSUME NEW order, FilesInv(order), failed \subseteq failed',
         UNCHANGED <<disk, asked, written, finals, origin, runs>>,
         pc' \in {"CloseFinals", "RemoveTemps"} => pc' = pc /\ (pc = "CloseFinals" => k' = k)
  PROVE  FilesInv(order)'
  BY DEF FilesInv, Fresh, Path, Published, Done

\* What is in a final stream cannot be added to any more.
LEMMA NothingToSpill ==
  ASSUME TypeOK, NEW r \in Roles,
         finals[r].header = Published(r).header, disk[Path(r)] = finals[r],
         NEW part \in Beginnings(finals[r]) \ {EmptyFile},
         HasHeader(disk[Path(r)]) => Len(part.messages) > Len(disk[Path(r)].messages)
  PROVE  FALSE
<1>1. finals[r] \in File /\ finals[r].messages \in Seq(Message)
  BY DEF TypeOK, File
<1>2. HasHeader(disk[Path(r)])
  BY <1>1, HeaderType, PbfIoAssumption DEF HasHeader
<1>3. part.messages \in Parts(finals[r].messages)
  BY <1>1, BeginningsOfFile
<1>4. Len(part.messages) <= Len(finals[r].messages)
  <2>1. PICK n \in 0..Len(finals[r].messages) : part.messages = SubSeq(finals[r].messages, 1, n)
    BY <1>3 DEF Parts
  <2> QED
    BY <1>1, <2>1
<1>5. Len(part.messages) > Len(finals[r].messages) /\ Len(finals[r].messages) \in Nat
  BY <1>1, <1>2
<1> QED
  <2>1. Len(part.messages) \in Nat
    BY <1>1, <1>3, PartsOfSeq
  <2> QED
    BY <1>4, <1>5, <2>1

\* Every step keeps the final files so.
LEMMA NextFilesInv ==
  ASSUME TypeOK,
         NEW order, IsOrder(order), NEW opening, IsOrder(opening),
         ProgressInv(opening, order), TempsInv(order), FilesInv(order),
         Moves(opening, order)
  PROVE  FilesInv(order)'
<1> USE DEF Steps, streams
<1> DEFINE o == order[k]
<1>0. \A r \in Roles : Path(r) \in Files /\ Path(r)' = asked'.paths[r]
  BY PathsApart DEF Path
<1>1. CASE Proceed
  BY <1>1, QuietFilesInv DEF Proceed
<1>2. CASE Terminate
  BY <1>2, QuietFilesInv DEF Terminate, End
<1>3. CASE OpenTemps(order, "Read")
  <2>1. pc' \in {"OpenTemps", "Read"} /\ failed \subseteq failed'
    BY <1>3, EachDone DEF OpenTemps, Refuses
  <2> QED
    BY <1>3, <2>1, QuietFilesInv DEF OpenTemps, Each
<1>4. ASSUME NEW role \in Roles, NEW message \in Message, WriteMessage(role, message)
      PROVE  FilesInv(order)'
  <2>1. pc' = "Read" /\ \A r \in Roles : finals'[r] = EmptyFile /\ ~Fresh(r)'
    BY <1>4 DEF WriteMessage, ProgressInv, BeforeHeaders, Fresh, Path
  <2> QED
    BY <2>1 DEF FilesInv
<1>5. CASE ReturnCounts(order)
  BY <1>5, QuietFilesInv DEF ReturnCounts
<1>6. CASE CloseTemps(order, "ReopenTemps")
  <2>1. pc' \in {"CloseTemps", "ReopenTemps"} /\ failed \subseteq failed'
    BY <1>6, EachDone DEF CloseTemps, Refuses
  <2> QED
    BY <1>6, <2>1, QuietFilesInv DEF CloseTemps, Each
<1>6a. CASE ReopenTemps(opening, "OpenFinals")
  <2>1. pc' \in {"ReopenTemps", "OpenFinals"} /\ failed \subseteq failed'
    BY <1>6a, EachDone DEF ReopenTemps, Refuses
  <2> QED
    BY <1>6a, <2>1, QuietFilesInv DEF ReopenTemps, Each
<1>7. CASE OpenFinals(opening, "PrependHeaders")
  <2>1. /\ opening[k] \in Roles /\ pc = "OpenFinals"
        /\ pc' \in {"OpenFinals", "PrependHeaders"} /\ UNCHANGED <<asked, runs, finals>>
    BY <1>7, EachDone DEF OpenFinals
  <2>2. \A r \in Roles : finals[r] = EmptyFile
    BY <2>1 DEF ProgressInv, BeforeHeaders
  <2>3. ASSUME NEW r \in Roles, Fresh(r)' PROVE disk'[Path(r)'] = EmptyFile
    <3>1. Path(r)' = Path(r) /\ Path(r) \in Files
      BY <1>0, <2>1 DEF Path
    <3>2. CASE disk'[Path(r)] = EmptyFile
      BY <3>1, <3>2
    <3>3. CASE disk'[Path(r)] # EmptyFile
      <4>1. UNCHANGED <<disk[Path(r)], origin[Path(r)]>>
        BY <1>7, <3>1, <3>3 DEF OpenFinals, TypeOK
      <4>2. Fresh(r)
        BY <2>1, <2>3, <3>1, <4>1 DEF Fresh
      <4> QED
        BY <2>2, <3>1, <4>1, <4>2, BeginningsOfEmpty DEF FilesInv
    <3> QED
      BY <3>2, <3>3
  <2>4. pc' \notin {"CloseFinals", "RemoveTemps"} /\ \A r \in Roles : finals'[r] = EmptyFile
    BY <2>1, <2>2
  <2> QED
    BY <2>3, <2>4, BeginningsOfEmpty DEF FilesInv
<1>8. CASE PrependHeaders(order, [s \in Roles |-> Published(s).header], "CloseFinals")
  <2>1. /\ o \in Roles /\ o \notin Done(order)
        /\ pc = "PrependHeaders" /\ UNCHANGED <<asked, runs, disk, written, origin>>
        /\ pc' = "PrependHeaders" \/ (pc' = "CloseFinals" /\ k' = 1)
    BY <1>8, EachDone DEF PrependHeaders
  <2>2. pc' = "CloseFinals" => Done(order)' = {}
    BY <2>1, NothingDone DEF Done
  <2>3. PICK messages :
          finals' = [finals EXCEPT ![o] = [header |-> Published(o).header, messages |-> messages]]
    BY <1>8, <2>1 DEF PrependHeaders
  <2>4. ASSUME "open" \notin failed
        PROVE  /\ finals' = [finals EXCEPT ![o] =
                    [header |-> Published(o).header, messages |-> temp[Path(o)]]]
               /\ temp[Path(o)] \in Parts(written[o])
               /\ "write" \notin failed => temp[Path(o)] = written[o]
    <3>1. /\ temp[Path(o)] \in Parts(written[o]) /\ unopened = {}
          /\ "write" \notin failed => temp[Path(o)] = written[o]
      BY <2>1, <2>4 DEF TempsInv, ProgressInv
    <3>2. temp[Path(o)] # Absent
      BY <2>1, <3>1, PartsOfSeq, PbfIoAssumption DEF TypeOK
    <3> QED
      BY <1>8, <2>1, <3>1, <3>2 DEF PrependHeaders
  <2>5. ASSUME NEW r \in Roles
        PROVE  /\ finals'[r] # EmptyFile => finals'[r].header = Published(r).header
               /\ Fresh(r) => disk[Path(r)] \in Beginnings(finals'[r])
               /\ "open" \notin failed /\ finals'[r] # EmptyFile =>
                    /\ finals'[r].messages \in Parts(written[r])
                    /\ "write" \notin failed => finals'[r].messages = written[r]
    <3>1. CASE r # o
      <4>1. finals'[r] = finals[r]
        BY <2>3, <3>1 DEF TypeOK
      <4> QED
        BY <4>1 DEF FilesInv
    <3>2. CASE r = o
      <4>1. Fresh(o) => disk[Path(o)] = EmptyFile
        BY <2>1, BeginningsOfEmpty DEF FilesInv, ProgressInv
      <4>2. finals'[o] = [header |-> Published(o).header, messages |-> messages]
        BY <2>1, <2>3 DEF TypeOK
      <4>3. "open" \notin failed =>
              finals'[o] = [header |-> Published(o).header, messages |-> temp[Path(o)]]
        BY <2>1, <2>4 DEF TypeOK
      <4>4. EmptyFile \in Beginnings(finals'[o])
        BY DEF Beginnings
      <4> QED
        BY <2>4, <3>2, <4>1, <4>2, <4>3, <4>4
    <3> QED
      BY <3>1, <3>2
  <2>6. failed' = failed
    BY <1>8 DEF PrependHeaders
  <2> QED
    BY <2>1, <2>2, <2>5, <2>6 DEF FilesInv, Fresh, Path, Published
<1>9. CASE CloseFinals(order, "RemoveTemps")
  <2>1. /\ o \in Roles /\ Done(order) \subseteq Roles /\ pc = "CloseFinals"
        /\ UNCHANGED <<asked, runs, written, finals, origin>>
        /\ \/ pc' = "CloseFinals" /\ Done(order)' = Done(order) \cup {o}
           \/ pc' = "RemoveTemps" /\ Roles = Done(order) \cup {o}
    BY <1>9, EachDone DEF CloseFinals
  <2>2. failed \subseteq failed'
    BY <1>9 DEF CloseFinals, Refuses
  <2> SUFFICES ASSUME NEW r \in Roles
      PROVE  /\ Fresh(r) => disk'[Path(r)] \in Beginnings(finals[r])
             /\ "open" \notin failed' /\ "write" \notin failed' /\ r \in Done(order) \cup {o}
                  => disk'[Path(r)] = finals[r]
    BY <2>1, <2>2 DEF FilesInv, Fresh, Path, Published
  <2>3. \/ disk' = disk /\ <<o, "final">> \in unopened
        \/ \E part \in Beginnings(finals[o]) :
             /\ disk' = [disk EXCEPT ![Path(o)] = part]
             /\ "write" \notin failed' => part = finals[o]
    <3>1. finals[o] \in Beginnings(finals[o])
      BY <2>1, BeginningsOfFile DEF TypeOK
    <3> QED
      BY <1>9, <3>1 DEF CloseFinals, Refuses
  <2>4. CASE disk' = disk /\ <<o, "final">> \in unopened
    BY <2>1, <2>2, <2>4 DEF FilesInv, ProgressInv
  <2>5. ASSUME NEW part \in Beginnings(finals[o]), disk' = [disk EXCEPT ![Path(o)] = part],
               "write" \notin failed' => part = finals[o]
        PROVE  /\ Fresh(r) => disk'[Path(r)] \in Beginnings(finals[r])
               /\ "open" \notin failed' /\ "write" \notin failed' /\ r \in Done(order) \cup {o}
                    => disk'[Path(r)] = finals[r]
    <3>1. CASE r = o
      BY <1>0, <2>1, <2>5, <3>1 DEF TypeOK
    <3>2. CASE r # o
      <4>1. disk'[Path(r)] = disk[Path(r)]
        BY <1>0, <2>1, <2>5, <3>2, PathsApart DEF TypeOK
      <4> QED
        BY <2>1, <2>2, <3>2, <4>1 DEF FilesInv
    <3> QED
      BY <3>1, <3>2
  <2> QED
    BY <2>3, <2>4, <2>5
<1>10. CASE RemoveTemps(order, "ended")
  <2>1. /\ pc = "RemoveTemps" /\ pc' \in {"RemoveTemps", "ended"} /\ failed \subseteq failed'
        /\ UNCHANGED <<asked, runs, disk, written, finals, origin>>
    BY <1>10, EachDone DEF RemoveTemps, End, Refuses
  <2> QED
    BY <2>1, QuietFilesInv
<1>11. ASSUME NEW command \in Commands, Invoke(command) PROVE FilesInv(order)'
  <2>1. ProgressInv(opening, order)'
    BY NextProgressInv
  <2>2. pc' = "LoadArgs" /\ \A r \in Roles : finals'[r] = EmptyFile /\ ~Fresh(r)'
    BY <1>11, <2>1 DEF Invoke, ProgressInv, BeforeHeaders
  <2> QED
    BY <2>2 DEF FilesInv
<1>12. ASSUME NEW role \in Roles, SpillTemp(role) PROVE FilesInv(order)'
  BY <1>12, QuietFilesInv DEF SpillTemp
<1>13. ASSUME NEW role \in Roles, SpillFinal(role) PROVE FilesInv(order)'
  <2>1. /\ UNCHANGED <<pc, k, asked, written, finals, origin, failed, runs>>
        /\ pc \in {"PrependHeaders", "CloseFinals"} /\ finals[role] # EmptyFile
    BY <1>13 DEF SpillFinal
  <2>2. PICK part \in Beginnings(finals[role]) \ {EmptyFile} :
          /\ HasHeader(disk[Path(role)]) => Len(part.messages) > Len(disk[Path(role)].messages)
          /\ disk' = [disk EXCEPT ![Path(role)] = part]
    BY <1>13 DEF SpillFinal
  <2>3. "open" \notin failed /\ "write" \notin failed /\ pc = "CloseFinals" => role \notin Done(order)
    BY <2>1, <2>2, NothingToSpill DEF FilesInv
  <2>4. disk'[Path(role)] = part /\ \A r \in Roles \ {role} : disk'[Path(r)] = disk[Path(r)]
    BY <1>0, <2>2, PathsApart DEF TypeOK
  <2> QED
    BY <2>1, <2>2, <2>3, <2>4 DEF FilesInv, Fresh, Path, Published, Done
<1>14. CASE Kill
  BY <1>14, QuietFilesInv DEF Kill, End
<1>15. CASE UNCHANGED vars
  BY <1>15, QuietFilesInv DEF vars
<1> QED
  BY <1>1, <1>2, <1>3, <1>4, <1>5, <1>6, <1>6a, <1>7, <1>8, <1>9, <1>10, <1>11, <1>12, <1>13,
     <1>14, <1>15 DEF Moves, Environment

-----------------------------------------------------------------------------
(* What follows in every state, and what a run leaves behind.              *)

\* While a run goes on, nothing of its outputs is lost.
LEMMA RunningNothingLost ==
  ASSUME NEW order, NEW opening,
         ProgressInv(opening, order), TempsInv(order), FilesInv(order), Running
  PROVE  NothingLost
<1> SUFFICES ASSUME failed \subseteq {"remove"}, NEW role \in Roles, Fresh(role), NEW r \in Roles
    PROVE  \/ temp[Path(r)] = written[r]
           \/ /\ disk[Path(r)] = finals[r]
              /\ finals[r] # EmptyFile /\ finals[r].messages = written[r]
  BY DEF NothingLost
<1>1. "open" \notin failed /\ "write" \notin failed
  OBVIOUS
<1>2. pc \in {"OpenFinals", "PrependHeaders", "CloseFinals", "RemoveTemps"}
  BY DEF ProgressInv, BeforeHeaders, Running, Steps
<1>3. CASE pc = "RemoveTemps"
  <2>1. finals[r] # EmptyFile
    BY <1>3 DEF ProgressInv
  <2> QED
    BY <1>1, <1>3, <2>1 DEF FilesInv
<1>4. CASE pc # "RemoveTemps"
  BY <1>1, <1>2, <1>4 DEF TempsInv
<1> QED
  BY <1>3, <1>4

\* A header of this run is on the disk only when every output is fresh, or did not
\* open; it is then the one the output should have.
LEMMA PublishedHeader ==
  ASSUME TypeOK, NEW order, NEW opening, ProgressInv(opening, order), FilesInv(order),
         NEW r \in Roles, Fresh(r), HasHeader(disk[Path(r)])
  PROVE  /\ finals[r] # EmptyFile
         /\ \A s \in Roles : Opened(s)
         /\ disk[Path(r)].header = Published(r).header
         /\ disk[Path(r)].messages \in Parts(finals[r].messages)
<1>1. disk[Path(r)] \in Beginnings(finals[r]) /\ disk[Path(r)] # EmptyFile
  BY DEF FilesInv, HasHeader, EmptyFile
<1>2. finals[r] # EmptyFile
  BY <1>1, BeginningsOfEmpty
<1>3. \A s \in Roles : Opened(s)
  BY <1>2 DEF ProgressInv
<1>4. /\ disk[Path(r)].header = finals[r].header
      /\ disk[Path(r)].messages \in Parts(finals[r].messages)
  BY <1>1, BeginningsOfFile DEF TypeOK
<1> QED
  BY <1>2, <1>3, <1>4 DEF FilesInv

\* An output of an earlier run stands next to one of this run only if it did not open.
LEMMA InvNeverMixed ==
  ASSUME TypeOK, NEW order, NEW opening, ProgressInv(opening, order), FilesInv(order)
  PROVE  NeverMixed
  BY PublishedHeader DEF NeverMixed, Opened

\* Every header of this run counts all messages of its output.
LEMMA InvCountsTellAll ==
  ASSUME TypeOK, NEW order, NEW opening, ProgressInv(opening, order), FilesInv(order)
  PROVE  CountsTellAll
<1> SUFFICES ASSUME NEW r \in Roles, Fresh(r), HasHeader(disk[Path(r)])
    PROVE  /\ disk[Path(r)].header.count = Len(written[r])
           /\ "open" \notin failed => disk[Path(r)].messages \in Parts(written[r])
  BY DEF CountsTellAll
<1>1. /\ finals[r] # EmptyFile /\ disk[Path(r)].header = Published(r).header
      /\ disk[Path(r)].messages \in Parts(finals[r].messages)
  BY PublishedHeader
<1>2. Published(r).header.count = Len(written[r])
  BY DEF Published
<1>3. ASSUME "open" \notin failed PROVE disk[Path(r)].messages \in Parts(written[r])
  <2>1. finals[r].messages \in Parts(written[r])
    BY <1>1, <1>3 DEF FilesInv
  <2>2. written[r] \in Seq(Message)
    BY DEF TypeOK
  <2> QED
    BY <1>1, <2>1, <2>2, PartsTransitive
<1> QED
  BY <1>1, <1>2, <1>3

\* What the run has removed, and what it leaves when it is over.
EndInv(order) ==
  /\ pc = "RemoveTemps" => \A r \in Done(order) : temp[Path(r)] = Absent
  /\ pc = "ended" => NothingLost /\ OkPublishes

\* Before the first run nothing is lost and nothing was delivered.
LEMMA InitEndInv == ASSUME Init, NEW order PROVE EndInv(order)
  BY DEF Init, EndInv, NothingLost, OkPublishes, Fresh, Ok

\* Every end of a run leaves what EndInv says.
LEMMA NextEndInv ==
  ASSUME TypeOK, NEW order, IsOrder(order), NEW opening, IsOrder(opening),
         ProgressInv(opening, order), TempsInv(order), FilesInv(order), EndInv(order),
         Moves(opening, order)
  PROVE  EndInv(order)'
<1> USE DEF Steps, streams
<1> DEFINE o == order[k]
<1>1. CASE Running /\ pc' = "ended" /\ exit' # "kOk" /\ failed' \subseteq failed \cup {"remove"} /\
           failed \subseteq failed' /\ UNCHANGED <<disk, temp, asked, written, finals, origin, runs>>
  <2>1. NothingLost
    BY <1>1, RunningNothingLost
  <2>2. NothingLost'
    BY <1>1, <2>1 DEF NothingLost, Fresh, Path
  <2> QED
    BY <1>1, <2>2 DEF EndInv, OkPublishes, Ok
<1>2. CASE /\ Each(order, "RemoveTemps", "ended")
           /\ temp' = [temp EXCEPT ![Path(o)] = Absent]
           /\ UNCHANGED <<disk, written, finals, origin, failed>>
  <2>1. /\ o \in Roles /\ Done(order) \subseteq Roles /\ pc = "RemoveTemps"
        /\ \/ pc' = "RemoveTemps" /\ Done(order)' = Done(order) \cup {o}
           \/ pc' = "ended" /\ Roles = Done(order) \cup {o}
        /\ UNCHANGED <<asked, runs>>
    BY <1>2, EachDone
  <2>2. /\ temp' = [temp EXCEPT ![Path(o)] = Absent]
        /\ UNCHANGED <<disk, written, finals, origin, failed>>
    BY <1>2
  <2>3. \A r \in Done(order) \cup {o} : temp'[Path(r)'] = Absent
    BY <2>1, <2>2, PathsApart DEF EndInv, TypeOK, Path
  <2>4. ASSUME "open" \notin failed, "write" \notin failed, NEW r \in Roles
        PROVE  /\ disk[Path(r)] = finals[r] /\ finals[r] # EmptyFile
               /\ finals[r].messages = written[r] /\ finals[r] = Published(r)
    <3>1. /\ disk[Path(r)] = finals[r] /\ finals[r] # EmptyFile
          /\ finals[r].header = Published(r).header /\ finals[r].messages = written[r]
      BY <2>1, <2>4 DEF FilesInv, ProgressInv
    <3>2. finals[r] \in File
      BY DEF TypeOK
    <3> QED
      BY <3>1, <3>2 DEF File, Published
  <2>5. NothingLost'
    BY <2>1, <2>2, <2>4 DEF NothingLost, Fresh, Path
  <2>6. pc' = "ended" => OkPublishes'
    BY <2>1, <2>2, <2>3, <2>4 DEF OkPublishes, Published, Path
  <2> QED
    BY <2>1, <2>3, <2>5, <2>6 DEF EndInv
<1>3. CASE pc' \in {"LoadArgs", "OpenTemps", "Read", "CloseTemps", "ReopenTemps", "OpenFinals",
                   "PrependHeaders", "CloseFinals"}
  BY <1>3 DEF EndInv
<1>4. CASE pc = "CloseFinals" /\ pc' = "RemoveTemps" /\ k' = 1
  <2>1. Done(order)' = {}
    BY <1>4, NothingDone DEF Done
  <2> QED
    BY <1>4, <2>1 DEF EndInv
<1>5. CASE UNCHANGED <<disk, temp, pc, k, asked, written, finals, origin, failed, runs, exit>>
  BY <1>5 DEF EndInv, NothingLost, OkPublishes, Ok, Published, Fresh, Path, Done
<1>6. CASE Proceed
  BY <1>6, <1>3 DEF Proceed
<1>7. CASE pc \in {"LoadArgs", "Read"} /\ Terminate
  BY <1>7, <1>1 DEF Terminate, End, Running
<1>8. CASE OpenTemps(order, "Read")
  BY <1>8, <1>3, EachDone DEF OpenTemps
<1>9. ASSUME NEW role \in Roles, NEW message \in Message, WriteMessage(role, message)
      PROVE  EndInv(order)'
  BY <1>9, <1>3 DEF WriteMessage
<1>10. CASE ReturnCounts(order)
  BY <1>10, <1>3 DEF ReturnCounts
<1>11. CASE CloseTemps(order, "ReopenTemps")
  BY <1>11, <1>3, EachDone DEF CloseTemps
<1>11a. CASE ReopenTemps(opening, "OpenFinals")
  BY <1>11a, <1>3, EachDone DEF ReopenTemps
<1>12. CASE OpenFinals(opening, "PrependHeaders")
  BY <1>12, <1>3, EachDone DEF OpenFinals
<1>13. CASE PrependHeaders(order, [s \in Roles |-> Published(s).header], "CloseFinals")
  BY <1>13, <1>3, EachDone DEF PrependHeaders
<1>14. CASE CloseFinals(order, "RemoveTemps")
  BY <1>14, <1>3, <1>4, EachDone DEF CloseFinals
<1>15. CASE RemoveTemps(order, "ended")
  BY <1>15, <1>1, <1>2 DEF RemoveTemps, Refuses, End, Running
<1>16. ASSUME NEW command \in Commands, Invoke(command) PROVE EndInv(order)'
  BY <1>16, <1>3 DEF Invoke
<1>17. ASSUME NEW role \in Roles, SpillTemp(role) PROVE EndInv(order)'
  BY <1>17, <1>3 DEF SpillTemp
<1>18. ASSUME NEW role \in Roles, SpillFinal(role) PROVE EndInv(order)'
  BY <1>18, <1>3 DEF SpillFinal
<1>19. CASE Kill
  BY <1>19, <1>1 DEF Kill, End, Running
<1>20. CASE UNCHANGED vars
  BY <1>20, <1>5 DEF vars
<1> QED
  BY <1>6, <1>7, <1>8, <1>9, <1>10, <1>11, <1>11a, <1>12, <1>13, <1>14, <1>15, <1>16, <1>17,
     <1>18, <1>19, <1>20 DEF Moves, Environment
-----------------------------------------------------------------------------
(* The counts, and everything together.                                    *)

\* What the library returned counts, in its order, what it wrote.
CountsInv(order) ==
  pc \in {"CloseTemps", "ReopenTemps", "OpenFinals"} \cup FromHeaders =>
    counts = [n \in DOMAIN order |-> Len(written[order[n]])]

\* The counts are returned when nothing is written any more.
LEMMA NextCountsInv ==
  ASSUME NEW order, IsOrder(order), NEW opening, IsOrder(opening),
         TypeOK, CountsInv(order), Moves(opening, order)
  PROVE  CountsInv(order)'
<1> USE DEF FromHeaders
<1>1. CASE ReturnCounts(order)
  BY <1>1 DEF ReturnCounts, CountsInv
<1>2. CASE UNCHANGED <<counts, written>> /\ (pc' = pc \/ pc' \in {"OpenTemps", "Read", "ended"} \/
             pc \in {"CloseTemps", "ReopenTemps", "OpenFinals"} \cup FromHeaders)
  BY <1>2 DEF CountsInv
<1>3. CASE Proceed \/ OpenTemps(order, "Read") \/ (pc \in {"LoadArgs", "Read"} /\ Terminate)
  BY <1>2, <1>3, EachDone DEF Proceed, OpenTemps, Terminate, End, streams
<1>4. ASSUME NEW role \in Roles, NEW message \in Message, WriteMessage(role, message)
      PROVE  CountsInv(order)'
  BY <1>4 DEF WriteMessage, CountsInv
<1>5. CASE \/ CloseTemps(order, "ReopenTemps") \/ ReopenTemps(opening, "OpenFinals")
           \/ OpenFinals(opening, "PrependHeaders")
  BY <1>2, <1>5, EachDone DEF CloseTemps, ReopenTemps, OpenFinals
<1>6. CASE PrependHeaders(order, [r \in Roles |-> Published(r).header], "CloseFinals")
  BY <1>2, <1>6, EachDone DEF PrependHeaders
<1>7. CASE CloseFinals(order, "RemoveTemps") \/ RemoveTemps(order, "ended")
  BY <1>2, <1>7, EachDone DEF CloseFinals, RemoveTemps, End, streams
<1>8. CASE Environment
  BY <1>2, <1>8 DEF Environment, Invoke, SpillTemp, SpillFinal, Kill, End, streams, CountsInv
<1>9. CASE UNCHANGED vars
  BY <1>2, <1>9 DEF vars, streams
<1> QED
  BY <1>1, <1>3, <1>4, <1>5, <1>6, <1>7, <1>8, <1>9 DEF Moves

\* The invariant of a command that opens its final files in one order and does
\* everything else in another.
PublishInv(opening, order) ==
  /\ TypeOK
  /\ ProgressInv(opening, order)
  /\ TempsInv(order)
  /\ FilesInv(order)
  /\ EndInv(order)
  /\ CountsInv(order)

\* It holds before the first run.
LEMMA InitPublishInv == ASSUME Init, NEW opening, NEW order PROVE PublishInv(opening, order)
<1>1. CountsInv(order)
  BY DEF Init, CountsInv, FromHeaders
<1> QED
  BY <1>1, InitTypeOK, InitProgressInv, InitTempsInv, InitFilesInv, InitEndInv DEF PublishInv

\* Every step keeps it.
LEMMA NextPublishInv ==
  ASSUME NEW order, IsOrder(order), NEW opening, IsOrder(opening),
         PublishInv(opening, order), Moves(opening, order)
  PROVE  PublishInv(opening, order)'
  BY NextTypeOK, NextProgressInv, NextTempsInv, NextFilesInv, NextEndInv, NextCountsInv
     DEF PublishInv

\* The properties of both commands follow from it.
LEMMA PublishInvProperties ==
  ASSUME NEW opening, NEW order, PublishInv(opening, order)
  PROVE  TypeOK /\ NothingLost /\ NeverMixed /\ CountsTellAll /\ OkPublishes
<1>1. NothingLost
  <2>1. CASE pc = "ended"
    BY <2>1 DEF PublishInv, EndInv
  <2>2. CASE pc # "ended"
    BY <2>2, RunningNothingLost DEF PublishInv, TypeOK, Running
  <2> QED
    BY <2>1, <2>2
<1>2. OkPublishes
  BY DEF PublishInv, EndInv, OkPublishes, Ok
<1> QED
  BY <1>1, <1>2, InvNeverMixed, InvCountsTellAll DEF PublishInv

-----------------------------------------------------------------------------
(* Every command made of these steps implements PublishSet.                *)

\* A final stream holds a beginning of the file its role should get.
LEMMA StreamBeginsFile ==
  ASSUME NEW opening, NEW order, PublishInv(opening, order), "open" \notin failed, NEW r \in Roles
  PROVE  /\ Published(r) \in File
         /\ finals[r] \in Beginnings(Published(r))
<1>1. Published(r) \in File
  BY HeaderType DEF PublishInv, TypeOK, Published, File
<1>2. CASE finals[r] = EmptyFile
  BY <1>1, <1>2, BeginningsOfFile
<1>3. CASE finals[r] # EmptyFile
  <2>1. /\ finals[r] \in File /\ finals[r].header = Published(r).header
        /\ finals[r].messages \in Parts(written[r])
    BY <1>3 DEF PublishInv, TypeOK, FilesInv
  <2>2. finals[r] = [Published(r) EXCEPT !.messages = finals[r].messages]
    BY <2>1 DEF File, Published
  <2>3. finals[r].messages \in Parts(Published(r).messages)
    BY <2>1 DEF Published
  <2> QED
    BY <1>1, <2>2, <2>3 DEF Beginnings
<1> QED
  BY <1>1, <1>2, <1>3

\* PublishSet speaks of the same files.
LEMMA SameFiles ==
  /\ Promise!EmptyFile = EmptyFile /\ Promise!Message = Message
  /\ \A file : Promise!Beginnings(file) = Beginnings(file)
<1>1. Promise!EmptyFile = EmptyFile /\ Promise!Message = Message
  BY DEF Promise!EmptyFile, EmptyFile, Promise!Message, Message, Promise!NoId, NoId,
         Promise!NoBody, NoBody
<1>2. \A messages : Promise!Parts(messages) = Parts(messages)
  BY DEF Promise!Parts, Parts
<1> QED
  BY <1>1, <1>2 DEF Promise!Beginnings, Beginnings

\* Where every stream opened, every output is fresh when headers are added.
LEMMA AllFresh ==
  ASSUME NEW opening, NEW order, PublishInv(opening, order), "open" \notin failed, pc \in FromHeaders
  PROVE  \A r \in Roles : Fresh(r)
  BY DEF PublishInv, ProgressInv, Opened

\* More of a final stream on the disk fills the file of its role.
LEMMA FlushFills ==
  ASSUME NEW opening, NEW order, PublishInv(opening, order), "open" \notin failed,
         NEW r \in Roles, pc \in {"PrependHeaders", "CloseFinals"},
         NEW part \in Beginnings(finals[r]),
         HasHeader(disk[Path(r)]) => HasHeader(part) /\ Len(part.messages) >= Len(disk[Path(r)].messages),
         disk' = [disk EXCEPT ![Path(r)] = part],
         UNCHANGED <<asked, written, origin, runs>>, Running'
  PROVE  Promise!Fill(r)
<1>1. TypeOK /\ ProgressInv(opening, order) /\ FilesInv(order) /\ \A s \in Roles : Fresh(s)
  BY AllFresh DEF PublishInv, FromHeaders
<1>2. finals[r] \in File /\ disk[Path(r)] \in Beginnings(finals[r])
  BY <1>1 DEF FilesInv, TypeOK
<1>3. part \in File /\ disk[Path(r)] \in File
  BY <1>2, BeginningsOfFile
<1>4. disk[Path(r)] \in Beginnings(part)
  <2>1. disk[Path(r)] # EmptyFile => HasHeader(disk[Path(r)])
    <3>1. CASE disk[Path(r)] # EmptyFile
      <4>1. finals[r] # EmptyFile /\ disk[Path(r)].header = finals[r].header
        BY <1>2, <3>1, BeginningsOfFile, BeginningsOfEmpty
      <4>2. disk[Path(r)].header = Published(r).header
        BY <1>1, <4>1 DEF FilesInv
      <4> QED
        BY <1>1, <1>3, <4>2, HeaderType, PbfIoAssumption DEF HasHeader
    <3> QED
      BY <3>1
  <2>2. Len(part.messages) \in Nat /\ Len(disk[Path(r)].messages) \in Nat
    BY <1>3 DEF File
  <2>3. disk[Path(r)] # EmptyFile => part # EmptyFile /\ Len(disk[Path(r)].messages) <= Len(part.messages)
    BY <2>1, <2>2 DEF HasHeader, EmptyFile
  <2> QED
    BY <1>2, <2>3, BeginningsNested
<1>5. part \in Beginnings(Published(r))
  BY StreamBeginsFile, BeginningsTransitive
<1>6. Published(r) = Promise!Whole(r)
  BY DEF Published, Promise!Whole
<1>7. FreshRoles = Roles /\ FreshRoles' = FreshRoles
  BY <1>1 DEF FreshRoles, Fresh, Path
<1>8. Outcome = "running" /\ Outcome' = "running"
  BY DEF Outcome, Running, Steps
<1>9. Promise!At(r) = Path(r) /\ Promise!Running
  BY <1>8 DEF Promise!Running, Promise!At, Path
<1> QED
  BY <1>4, <1>5, <1>6, <1>7, <1>8, <1>9, SameFiles DEF Promise!Fill

\* Before the first run nothing was asked for.
LEMMA InitPromise == Init => Promise!Init
<1> SUFFICES ASSUME Init PROVE Promise!Init
  OBVIOUS
<1>1. FreshRoles = {} /\ Outcome = "none"
  BY DEF Init, FreshRoles, Fresh, Outcome, Running, Steps
<1>2. disk \in [Files -> Contents] /\ asked \in Commands /\ written = [r \in Roles |-> <<>>]
  BY DEF Init
<1> QED
  BY <1>1, <1>2 DEF Promise!Init

\* Where nothing keeps a file from being opened, every step is one of PublishSet, or
\* none.
LEMMA NextPromise ==
  ASSUME "open" \notin Failures,
         NEW order, IsOrder(order), NEW opening, IsOrder(opening),
         PublishInv(opening, order), Moves(opening, order)
  PROVE  Promise!Next \/ UNCHANGED Promise!vars
<1> USE DEF Steps, streams
<1>0. TypeOK /\ "open" \notin failed /\ ProgressInv(opening, order) /\ ~Refuses("open")
  BY DEF PublishInv, TypeOK, Refuses
<1>1. ASSUME UNCHANGED <<disk, asked, written, origin, runs>>, Running, Running'
      PROVE  UNCHANGED Promise!vars
  BY <1>1 DEF Promise!vars, FreshRoles, Fresh, Path, Outcome
<1>2. ASSUME UNCHANGED <<disk, asked, written, origin, runs>>, Running, pc' = "ended",
             exit' \in {"terminated", "killed"} \/ (exit' = "kOk" /\ "write" \in failed')
      PROVE  Promise!Abandon
  BY <1>2 DEF Promise!Abandon, Promise!Running, FreshRoles, Fresh, Path, Outcome, Running
<1>3. CASE Proceed
  BY <1>3, <1>1 DEF Proceed, Running
<1>4. CASE pc \in {"LoadArgs", "Read"} /\ Terminate
  BY <1>4, <1>2 DEF Terminate, End, Running, Promise!Next
<1>5. CASE OpenTemps(order, "Read")
  BY <1>5, <1>1, EachDone, <1>0 DEF OpenTemps, Running
<1>6. ASSUME NEW role \in Roles, NEW message \in Message, WriteMessage(role, message)
      PROVE  Promise!Find(role)
  <2>1. FreshRoles = {} /\ FreshRoles' = FreshRoles
    BY <1>0, <1>6 DEF WriteMessage, ProgressInv, BeforeHeaders, FreshRoles, Fresh, Path
  <2>2. Outcome = "running" /\ Outcome' = "running"
    BY <1>6 DEF WriteMessage, Outcome, Running
  <2>3. UNCHANGED <<disk, asked>> /\ written' = [written EXCEPT ![role] = Append(@, message)]
    BY <1>6 DEF WriteMessage
  <2> QED
    BY <2>1, <2>2, <2>3, SameFiles DEF Promise!Find, Promise!Running
<1>7. CASE ReturnCounts(order)
  BY <1>7, <1>1 DEF ReturnCounts, Running
<1>8. CASE CloseTemps(order, "ReopenTemps")
  BY <1>8, <1>1, EachDone, <1>0 DEF CloseTemps, Running
<1>8a. CASE ReopenTemps(opening, "OpenFinals")
  BY <1>8a, <1>1, EachDone, <1>0 DEF ReopenTemps, Running
<1>9. CASE OpenFinals(opening, "PrependHeaders")
  <2> DEFINE o == opening[k]
  <2>1. /\ o \in Roles /\ pc = "OpenFinals" /\ pc' \in {"OpenFinals", "PrependHeaders"}
        /\ UNCHANGED <<asked, runs, written>>
    BY <1>0, <1>9, EachDone DEF OpenFinals
  <2>2. /\ disk' = [disk EXCEPT ![Path(o)] = EmptyFile]
        /\ origin' = [origin EXCEPT ![Path(o)] = runs]
    BY <1>0, <1>9 DEF OpenFinals
  <2>3. FreshRoles' = FreshRoles \cup {o}
    <3>1. runs > 0 /\ Path(o) \in Files
      BY <1>0, <2>1, PathsApart DEF ProgressInv, Running
    <3>2. \A r \in Roles : Fresh(r)' <=> Fresh(r) \/ r = o
      BY <1>0, <2>1, <2>2, <3>1, PathsApart DEF Fresh, Path, TypeOK
    <3> QED
      BY <2>1, <3>2 DEF FreshRoles
  <2>4. Outcome = "running" /\ Outcome' = "running"
    BY <2>1 DEF Outcome, Running
  <2>5. Promise!At(o) = Path(o) /\ Promise!Running
    BY <2>4 DEF Promise!Running, Promise!At, Path
  <2>6. Promise!Truncate(o)
    BY <2>1, <2>2, <2>3, <2>4, <2>5, SameFiles DEF Promise!Truncate
  <2> QED
    BY <2>1, <2>6 DEF Promise!Next
<1>10. CASE PrependHeaders(order, [r \in Roles |-> Published(r).header], "CloseFinals")
  BY <1>10, <1>1, EachDone, <1>0 DEF PrependHeaders, Running
<1>11. CASE CloseFinals(order, "RemoveTemps")
  <2> DEFINE o == order[k]
  <2>1. /\ o \in Roles /\ pc = "CloseFinals" /\ pc' \in {"CloseFinals", "RemoveTemps"}
        /\ UNCHANGED <<asked, runs, written, origin>>
    BY <1>0, <1>11, EachDone DEF CloseFinals
  <2>2. finals[o] \in File /\ disk[Path(o)] \in Beginnings(finals[o]) /\ unopened = {}
    BY <1>0, <2>1, AllFresh DEF PublishInv, ProgressInv, FilesInv, FromHeaders, TypeOK
  <2>3. PICK part \in Beginnings(finals[o]) :
          /\ disk' = [disk EXCEPT ![Path(o)] = part]
          /\ \/ part = finals[o]
             \/ HasHeader(disk[Path(o)]) =>
                  /\ HasHeader(part)
                  /\ Len(part.messages) >= Len(disk[Path(o)].messages)
    BY <1>11, <2>2, BeginningsOfFile DEF CloseFinals
  <2>4. HasHeader(disk[Path(o)]) =>
          HasHeader(part) /\ Len(part.messages) >= Len(disk[Path(o)].messages)
    <3>1. CASE part = finals[o]
      <4>1. ASSUME HasHeader(disk[Path(o)])
            PROVE  HasHeader(finals[o]) /\ Len(disk[Path(o)].messages) <= Len(finals[o].messages)
        <5>1. /\ disk[Path(o)].header = finals[o].header
              /\ disk[Path(o)].messages \in Parts(finals[o].messages)
          BY <2>2, <4>1, BeginningsOfFile DEF HasHeader, EmptyFile
        <5>2. PICK n \in 0..Len(finals[o].messages) :
                disk[Path(o)].messages = SubSeq(finals[o].messages, 1, n)
          BY <5>1 DEF Parts
        <5>3. Len(disk[Path(o)].messages) = n /\ Len(finals[o].messages) \in Nat
          BY <2>2, <5>2 DEF File
        <5>4. finals[o] # Absent
          BY <2>2, PbfIoAssumption
        <5> QED
          BY <4>1, <5>1, <5>3, <5>4 DEF HasHeader
      <4>2. Len(finals[o].messages) \in Nat /\ Len(disk[Path(o)].messages) \in Nat
        BY <2>2, BeginningsOfFile DEF File
      <4> QED
        BY <3>1, <4>1, <4>2
    <3> QED
      BY <2>3, <3>1
  <2>5. Promise!Fill(o)
    BY <1>0, <2>1, <2>3, <2>4, FlushFills DEF Running
  <2> QED
    BY <2>1, <2>5 DEF Promise!Next
<1>12. CASE RemoveTemps(order, "ended")
  <2>1. CASE pc' = "RemoveTemps"
    BY <1>1, <1>12, <2>1, <1>0, EachDone DEF RemoveTemps, Running, End
  <2>2. CASE pc' = "ended" /\ (exit' = "terminated" \/ "write" \in failed')
    <3>1. exit' \in {"terminated", "kOk"} /\ Running /\ UNCHANGED <<disk, asked, written, origin, runs>>
      BY <1>0, <1>12, <2>2, EachDone DEF RemoveTemps, Running, End
    <3> QED
      BY <1>2, <2>2, <3>1 DEF Promise!Next
  <2>3. CASE pc' # "RemoveTemps" /\ ~(pc' = "ended" /\ (exit' = "terminated" \/ "write" \in failed'))
    <3>1. /\ Each(order, "RemoveTemps", "ended")
          /\ UNCHANGED <<disk, written, finals, origin, failed>>
      BY <1>12, <2>3 DEF RemoveTemps, End
    <3>2. /\ pc = "RemoveTemps" /\ pc' = "ended" /\ exit' = "kOk" /\ UNCHANGED <<asked, runs>>
          /\ "write" \notin failed
      BY <1>0, <2>3, <3>1, EachDone
    <3>3. FreshRoles = Roles /\ FreshRoles' = FreshRoles
      BY <1>0, <3>1, <3>2, AllFresh DEF FromHeaders, FreshRoles, Fresh, Path
    <3>4. Outcome = "running" /\ Outcome' = "ok"
      BY <3>1, <3>2 DEF Outcome, Running
    <3>5. ASSUME NEW r \in Roles PROVE disk[Path(r)] = Promise!Whole(r)
      <4>1. /\ finals[r] # EmptyFile /\ finals[r].header = Published(r).header
            /\ finals[r].messages = written[r] /\ disk[Path(r)] = finals[r] /\ finals[r] \in File
        BY <1>0, <3>2 DEF PublishInv, ProgressInv, FilesInv, TypeOK
      <4> QED
        BY <4>1 DEF File, Published, Promise!Whole
    <3>6. Promise!Deliver
      BY <3>1, <3>2, <3>3, <3>4, <3>5 DEF Promise!Deliver, Promise!Running, Promise!At, Path
    <3> QED
      BY <3>6 DEF Promise!Next
  <2> QED
    BY <2>1, <2>2, <2>3
<1>13. ASSUME NEW command \in Commands, Invoke(command) PROVE Promise!Ask(command)
  <2>1. runs' = runs + 1 /\ origin' = origin /\ asked' = command
    BY <1>13 DEF Invoke
  <2>2. FreshRoles' = {}
    <3>1. ASSUME NEW r \in Roles PROVE ~Fresh(r)'
      <4>1. command.paths[r] \in Files
        BY PublishAssumption
      <4>2. origin[command.paths[r]] <= runs /\ origin[command.paths[r]] \in Nat /\ runs \in Nat
        BY <1>0, <4>1, PublishAssumption DEF ProgressInv, TypeOK
      <4> QED
        BY <2>1, <4>2 DEF Fresh, Path
    <3> QED
      BY <3>1 DEF FreshRoles
  <2>3. Outcome # "running" /\ Outcome' = "running"
    BY <1>13 DEF Invoke, Outcome, Running
  <2> QED
    BY <1>13, <2>1, <2>2, <2>3 DEF Invoke, Promise!Ask, Promise!Running
<1>14. ASSUME NEW role \in Roles, SpillTemp(role) PROVE UNCHANGED Promise!vars
  BY <1>1, <1>14 DEF SpillTemp, Running
<1>15. ASSUME NEW role \in Roles, SpillFinal(role) PROVE Promise!Fill(role)
  <2>1. PICK part \in Beginnings(finals[role]) \ {EmptyFile} :
          /\ HasHeader(disk[Path(role)]) => Len(part.messages) > Len(disk[Path(role)].messages)
          /\ disk' = [disk EXCEPT ![Path(role)] = part]
    BY <1>15 DEF SpillFinal
  <2>2. /\ pc \in {"PrependHeaders", "CloseFinals"} /\ UNCHANGED <<pc, asked, written, origin, runs>>
        /\ finals[role] # EmptyFile
    BY <1>15 DEF SpillFinal
  <2>3. HasHeader(part)
    <3>1. part \in File /\ part.header = finals[role].header
      BY <1>0, <2>1, BeginningsOfFile DEF TypeOK
    <3>2. part.header = Published(role).header
      BY <1>0, <2>2, <3>1 DEF PublishInv, FilesInv
    <3> QED
      BY <1>0, <3>1, <3>2, HeaderType, PbfIoAssumption DEF HasHeader
  <2>4. HasHeader(disk[Path(role)]) => Len(part.messages) >= Len(disk[Path(role)].messages)
    <3>1. part \in File /\ (HasHeader(disk[Path(role)]) => disk[Path(role)] \in File)
      BY <1>0, <2>1, BeginningsOfFile, PathsApart DEF TypeOK, HasHeader
    <3> QED
      BY <2>1, <3>1 DEF File
  <2> QED
    BY <1>0, <2>1, <2>2, <2>3, <2>4, FlushFills DEF Running
<1>16. CASE Kill
  BY <1>16, <1>2 DEF Kill, End, Promise!Next
<1>17. CASE UNCHANGED vars
  <2>1. UNCHANGED <<disk, pc, exit, asked, written, origin, failed, runs>>
    BY <1>17 DEF vars
  <2> QED
    BY <2>1 DEF Promise!vars, FreshRoles, Fresh, Path, Outcome, Running
<1> QED
  BY <1>3, <1>4, <1>5, <1>6, <1>7, <1>8, <1>8a, <1>9, <1>10, <1>11, <1>12, <1>13, <1>14, <1>15,
     <1>16, <1>17 DEF Moves, Environment, Promise!Next
=============================================================================
