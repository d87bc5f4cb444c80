------------------------------ MODULE MCExtract ------------------------------
(***************************************************************************)
(* A session of `dump extract` over the same two paths, for two wikis: one *)
(* whose language has another code too, named by its database, and one     *)
(* whose code has hyphens, named by its code.                              *)
(***************************************************************************)
EXTENDS WikiExtract, SequencesExt

CONSTANTS p, r  \* the paths of pages and revisions

ZhMinNan == <<"zh", "-", "min", "-", "nan">>

\* Two of the codes of languages.gperf share a language.
MCLanguageTable ==
  <<"en">> :> "en" @@ <<"mn">> :> "mn" @@ <<"mnw">> :> "mn" @@ ZhMinNan :> "nan"

\* Every name of up to two pieces, and some longer ones.
MCNames ==
  SeqOf({"en", "mn", "mnw", "xx", "wiki", ".", "-"}, 2)
    \cup {<<code, ".", "wiki", "pedia", ".", "org">> : code \in {"en", "mn"}}
    \cup {<<code, "wiki", last>> : code \in {"en", "mn"}, last \in {"wiki", "pedia", "en"}}
    \cup {ZhMinNan, DatabaseName(ZhMinNan), Append(ZhMinNan, "wiki"),
          <<"zh">>, <<"zh", "-", "min">>, <<"min", "-", "nan", "wiki">>}

MCTypes == [pages |-> "PAGES", revisions |-> "REVISIONS"]

MCCommands ==
  {Asking([pages |-> p, revisions |-> r], name) :
     name \in {<<"mnw", "wiki">>, ZhMinNan}}

OldFile(type) ==
  [header   |-> [type |-> type, count |-> 1, language |-> "en"],
   messages |-> <<[id |-> NoId, body |-> "x"]>>]

MCContents == {Absent, OldFile("REVISIONS")}
=============================================================================
