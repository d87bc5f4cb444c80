------------------------------- MODULE PbfMerge ------------------------------
(***************************************************************************)
(* What a combining command promises, with no streams, buffers, temporary  *)
(* files or loops: a request names inputs and an output, and the output    *)
(* ends up as the combination of the inputs, or empty because they have no *)
(* combination, or -- when the process dies -- as some beginning of what   *)
(* it would have been.  No other file ever changes.                        *)
(*                                                                         *)
(* The combination is defined on whole files: the messages of the inputs   *)
(* in the order of their positions, less every message whose OpenAlex id   *)
(* is at an earlier position.                                              *)
(***************************************************************************)
EXTENDS PbfIo, FiniteSets

CONSTANTS Requests, InitialDisks

VARIABLES
  disk,     \* the file at each path
  request,  \* the last request, [inputs, output]
  outcome   \* "none", "running", "ok", "refused" or "abandoned"

vars == <<disk, request, outcome>>

-----------------------------------------------------------------------------
(* What the combination of a sequence of files is.                         *)

Type(files) == files[1].header.type

\* The first language a file states is the language of all files after it.
LanguagesAgree(files) ==
  \A m, n \in DOMAIN files :
    m < n /\ files[m].header.language # LANGUAGE_UNSPECIFIED
      => files[n].header.language = files[m].header.language

Combinable(files) ==
  /\ files # <<>>
  /\ \A n \in DOMAIN files : HasHeader(files[n]) /\ files[n].header.type = Type(files)
  /\ \/ Type(files) \in OpenAlexTypes
     \/ Type(files) \in DumpTypes /\ LanguagesAgree(files)
     \/ Type(files) = "OTHER" /\ \A n \in DOMAIN files : files[n].header.count = 0

\* Where messages are counted: <<n, k>> is the k-th of the n-th file.
Positions(files) ==
  UNION {{<<n, k>> : k \in 1..files[n].header.count} : n \in DOMAIN files}

Precedes(p, q) == p[1] < q[1] \/ (p[1] = q[1] /\ p[2] < q[2])

\* A file with fewer messages than its header counts reads as if default
\* messages filled it up; messages beyond the count are not read.
At(files, p) ==
  IF p[2] <= Len(files[p[1]].messages) THEN files[p[1]].messages[p[2]] ELSE DefaultMessage

IsFirst(files, p) ==
  \/ Type(files) \notin OpenAlexTypes
  \/ At(files, p).id = NoId
  \/ \A q \in Positions(files) : Precedes(q, p) => At(files, q).id # At(files, p).id

Kept(files) == {p \in Positions(files) : IsFirst(files, p)}

Rank(files, p) == Cardinality({q \in Kept(files) : Precedes(q, p)})

Combination(files) ==
  [k \in 1..Cardinality(Kept(files)) |->
     At(files, CHOOSE p \in Kept(files) : Rank(files, p) = k - 1)]

Inputs == [n \in DOMAIN request.inputs |-> disk[request.inputs[n]]]

Results ==
  {[header   |-> [type     |-> Type(Inputs),
                  count    |-> Len(Combination(Inputs)),
                  language |-> language],
    messages |-> Combination(Inputs)] :
     language \in IF Type(Inputs) \in DumpTypes THEN Languages \cup {LANGUAGE_UNSPECIFIED}
                  ELSE {LANGUAGE_UNSPECIFIED}}

-----------------------------------------------------------------------------
Output(file) == disk' = [disk EXCEPT ![request.output] = file]
Running == outcome = "running"

Ask(asked) ==
  /\ ~Running
  /\ request' = asked /\ outcome' = "running"
  /\ UNCHANGED disk

Truncate == Running /\ Output(EmptyFile) /\ UNCHANGED <<request, outcome>>

\* More of the output than before, or other than before.
Begin ==
  /\ Running /\ disk' # disk /\ UNCHANGED <<request, outcome>>
  /\ Combinable(Inputs)
  /\ \E result \in Results : \E beginning \in Beginnings(result) : Output(beginning)

Deliver ==
  /\ Running /\ outcome' = "ok" /\ UNCHANGED request
  /\ Combinable(Inputs)
  /\ \E result \in Results : Output(result)

Refuse ==
  /\ Running /\ outcome' = "refused" /\ UNCHANGED request
  /\ ~Combinable(Inputs)
  /\ Output(EmptyFile)

\* The process dies, or part of the combination is all the disk takes.
Abandon ==
  /\ Running /\ outcome' = "abandoned" /\ UNCHANGED request
  /\ \/ UNCHANGED disk
     \/ /\ Combinable(Inputs)
        /\ \E result \in Results : \E beginning \in Beginnings(result) : Output(beginning)

Init ==
  /\ disk \in InitialDisks
  /\ request \in [inputs : {<<>>}, output : Files]
  /\ outcome = "none"

Next == \/ \E asked \in Requests : Ask(asked)
        \/ Truncate \/ Begin \/ Deliver \/ Refuse \/ Abandon

Spec == Init /\ [][Next]_vars
=============================================================================
