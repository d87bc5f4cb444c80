------------------------------ MODULE MCProcess ------------------------------
(* A session of `openalex process` over the same three paths. *)
EXTENDS Process

CONSTANTS a, i, w  \* the paths of authors, institutions and works

MCTypes == [authors |-> "AUTHORS", institutions |-> "INSTITUTIONS", works |-> "WORKS"]

MCCommands ==
  {[paths    |-> [authors |-> a, institutions |-> i, works |-> w],
    language |-> LANGUAGE_UNSPECIFIED]}

OldFile ==
  [header   |-> [type |-> "WORKS", count |-> 1, language |-> LANGUAGE_UNSPECIFIED],
   messages |-> <<[id |-> "W1", body |-> NoBody]>>]

MCContents == {Absent, OldFile}
=============================================================================
