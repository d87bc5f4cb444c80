----------------------------- MODULE WikiExtract -----------------------------
(***************************************************************************)
(* `dump extract` with the language of its files taken from --wiki: the    *)
(* composition of Extract with LangMap.                                    *)
(***************************************************************************)
EXTENDS Extract, LangMap

\* LoadArgs: the command line that names a wiki.
Asking(paths, name) == [paths |-> paths, language |-> LanguageOfWiki(name)]

(***************************************************************************)
(* A run that is asked for a wiki of the table puts its language into the  *)
(* files, when the wiki is named by its code, and when it is named by its  *)
(* database, unless the code has a hyphen in it: nothing turns the "_" of  *)
(* zh_min_nanwiki back, so that such files state no language at all.       *)
(***************************************************************************)
NamesFound ==
  pc = "LoadArgs" =>
    \A code \in DOMAIN LanguageTable :
      /\ Asking(asked.paths, code).language = LanguageTable[code]
      /\ Asking(asked.paths, DatabaseName(code)).language =
           IF Hyphenated(code) THEN LANGUAGE_UNSPECIFIED ELSE LanguageTable[code]

(***************************************************************************)
(* No name but a code and a code with "wiki" after it -- not that of a     *)
(* project that is no Wikipedia, not a domain, not one with the suffix     *)
(* twice or in front -- gives the files of a run its language.             *)
(***************************************************************************)
NoNameOfAnother ==
  pc = "LoadArgs" /\ asked.language # LANGUAGE_UNSPECIFIED =>
    \A name \in Names :
      LanguageOfWiki(name) = asked.language =>
        \E code \in CodesOf(asked.language) : name \in {code, Append(code, "wiki")}
=============================================================================
