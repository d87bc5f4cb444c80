-------------------------------- MODULE LangMap ------------------------------
(***************************************************************************)
(* From the name of a wiki, as `dump extract --wiki` has it, to a language:*)
(* ExtractLangCode of src/dump/extract.cc, src/langmap.cc and the table    *)
(* gperf makes of src/languages.gperf.                                     *)
(*                                                                         *)
(* A name is the sequence of its pieces: "wiki" wherever that occurs in it,*)
(* ".", "-", "__" for a low line, and what is between: "zh-yue" is         *)
(* <<"zh", "-", "yue">>, "zh_yuewiki" <<"zh", "__", "yue", "wiki">>.  (No  *)
(* end of "wiki" is a beginning of it, so that it never overlaps itself.)  *)
(*                                                                         *)
(* WikipediaDomainToLanguage, which no command calls, is left out.         *)
(***************************************************************************)
EXTENDS PbfIo, FiniteSetsExt

CONSTANTS
  LanguageTable,  \* Languages::lookup: the language of each code
  Names           \* what a user can give as the name of a wiki

ASSUME LangMapAssumption ==
  /\ Names \cup DOMAIN LanguageTable \subseteq Seq(STRING)
  /\ \A code \in DOMAIN LanguageTable :
       LanguageTable[code] \in Languages /\ \A n \in DOMAIN code : code[n] \notin {"wiki", ".", "__"}
  /\ <<>> \notin DOMAIN LanguageTable

Occurrences(piece, name) == {n \in DOMAIN name : name[n] = piece}

WikipediaCodeToLanguage(code) ==
  IF code \in DOMAIN LanguageTable THEN LanguageTable[code] ELSE LANGUAGE_UNSPECIFIED

\* Mutant: the place of the suffix is compared with the end of the name, where it
\* never is.
ExtractLangCode_PastSuffix(name) ==
  IF Occurrences("wiki", name) # {} /\ Max(Occurrences("wiki", name)) = Len(name) + 1
  THEN SubSeq(name, 1, Len(name) - 1) ELSE name

\* Mutant: wherever "wiki" is found last, it is taken for the suffix.
ExtractLangCode_AnyPlace(name) ==
  IF Occurrences("wiki", name) = {} THEN name
  ELSE SubSeq(name, 1, Max(Occurrences("wiki", name)) - 1)

\* rfind, and a check that what it found is the end.
ExtractLangCode(name) ==
  IF Occurrences("wiki", name) # {} /\ Max(Occurrences("wiki", name)) = Len(name)
  THEN SubSeq(name, 1, Len(name) - 1) ELSE name

\* args_.language of ExtractCommand::LoadArgs.
LanguageOfWiki(name) == WikipediaCodeToLanguage(ExtractLangCode(name))

-----------------------------------------------------------------------------
(* What wikis are called.                                                  *)

\* The wikis in a language, by their codes in the table.
CodesOf(language) == {code \in DOMAIN LanguageTable : LanguageTable[code] = language}

\* The database of a Wikipedia is called by its code, with "_" in place of "-", and
\* "wiki": en is enwiki, zh-min-nan is zh_min_nanwiki.
DatabaseName(code) ==
  Append([n \in DOMAIN code |-> IF code[n] = "-" THEN "__" ELSE code[n]], "wiki")

Hyphenated(code) == \E n \in DOMAIN code : code[n] = "-"
=============================================================================
