------------------------------ MODULE PublishSet -----------------------------
(***************************************************************************)
(* What a publishing command promises, with no streams, buffers, temporary *)
(* files or counters: a request names a path for each role, the messages   *)
(* found for the roles are published as one set of files.  No file of the  *)
(* set is touched until everything was found; none has anything in it      *)
(* until no file of an earlier set is left; each only grows, as a header   *)
(* that counts all its messages and a beginning of them.  No other file    *)
(* ever changes.                                                           *)
(***************************************************************************)
EXTENDS PbfIo

CONSTANTS Roles, Types, Requests, InitialDisks

VARIABLES
  disk,     \* the file at each path
  request,  \* the last request, [paths, language]
  product,  \* the messages found for each role
  fresh,    \* the roles whose path holds a file of the last request
  outcome   \* "none", "running", "ok" or "abandoned"

vars == <<disk, request, product, fresh, outcome>>

-----------------------------------------------------------------------------
Running == outcome = "running"

At(role) == request.paths[role]

Whole(role) ==
  [header   |-> [type |-> Types[role], count |-> Len(product[role]), language |-> request.language],
   messages |-> product[role]]

Ask(asked) ==
  /\ ~Running
  /\ request' = asked /\ product' = [r \in Roles |-> <<>>] /\ fresh' = {}
  /\ outcome' = "running"
  /\ UNCHANGED disk

Find(role) ==
  /\ Running /\ fresh = {}
  /\ \E message \in Message : product' = [product EXCEPT ![role] = Append(@, message)]
  /\ UNCHANGED <<disk, request, fresh, outcome>>

Truncate(role) ==
  /\ Running
  /\ disk' = [disk EXCEPT ![At(role)] = EmptyFile]
  /\ fresh' = fresh \cup {role}
  /\ UNCHANGED <<request, product, outcome>>

Fill(role) ==
  /\ Running /\ fresh = Roles
  /\ \E file \in Beginnings(Whole(role)) :
       /\ disk[At(role)] \in Beginnings(file)
       /\ disk' = [disk EXCEPT ![At(role)] = file]
  /\ UNCHANGED <<request, product, fresh, outcome>>

Deliver ==
  /\ Running /\ fresh = Roles
  /\ \A role \in Roles : disk[At(role)] = Whole(role)
  /\ outcome' = "ok"
  /\ UNCHANGED <<disk, request, product, fresh>>

Abandon ==
  /\ Running
  /\ outcome' = "abandoned"
  /\ UNCHANGED <<disk, request, product, fresh>>

Init ==
  /\ disk \in InitialDisks
  /\ request \in Requests
  /\ product = [r \in Roles |-> <<>>]
  /\ fresh = {} /\ outcome = "none"

Next == \/ \E asked \in Requests : Ask(asked)
        \/ \E role \in Roles : Find(role) \/ Truncate(role) \/ Fill(role)
        \/ Deliver \/ Abandon

Spec == Init /\ [][Next]_vars
=============================================================================
