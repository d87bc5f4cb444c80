---------------------------- MODULE Extract_proofs ----------------------------
(***************************************************************************)
(* Proofs about Extract.  Its steps are steps Publish_proofs is about: the *)
(* invariant, the properties and the refinement stated there hold for it.  *)
(***************************************************************************)
EXTENDS WikiExtract, Publish_proofs, WellFoundedInduction

\* Every output comes once in their order.
LEMMA Orders == IsOrder(Outputs)
<1>1. Roles = {"pages", "revisions"}
  BY ExtractAssumption
<1>2. Cardinality(Roles) = 2
  <2>1. Cardinality({}) = 0 /\ IsFiniteSet({})
    BY FS_EmptySet
  <2>2. Cardinality({"pages"}) = 1 /\ IsFiniteSet({"pages"})
    <3>1. {"pages"} = {} \cup {"pages"}
      OBVIOUS
    <3> QED
      BY <2>1, <3>1, FS_AddElement
  <2>3. Cardinality({"pages", "revisions"}) = 2 /\ IsFiniteSet({"pages", "revisions"})
    <3>1. {"pages", "revisions"} = {"pages"} \cup {"revisions"} /\ "revisions" \notin {"pages"}
      OBVIOUS
    <3> QED
      BY <2>2, <3>1, FS_AddElement
  <2> QED
    BY <1>1, <2>3
<1>3. /\ Outputs \in Seq(Roles) /\ Len(Outputs) = 2
      /\ \A r \in Roles : \E i \in 1..Len(Outputs) : Outputs[i] = r
      /\ \A i, j \in 1..Len(Outputs) : Outputs[i] = Outputs[j] => i = j
  <2>1. Outputs \in Seq(Roles) /\ Len(Outputs) = 2 /\ 1..2 = {1, 2}
    BY <1>1 DEF Outputs
  <2>2. Outputs[1] = "pages" /\ Outputs[2] = "revisions"
    BY DEF Outputs
  <2> QED
    BY <1>1, <2>1, <2>2
<1> QED
  BY <1>2, <1>3 DEF IsOrder

\* The tuple the library returns gives each header its own count.
LEMMA HeadersCount ==
  ASSUME TypeOK, CountsInv(Outputs), pc = "PrependHeaders"
  PROVE  FileHeaders = [r \in Roles |-> Published(r).header]
<1>1. counts = [i \in DOMAIN Outputs |-> Len(written[Outputs[i]])]
  BY DEF CountsInv, FromHeaders
<1>2. DOMAIN Outputs = 1..2 /\ Outputs[1] = "pages" /\ Outputs[2] = "revisions"
  BY DEF Outputs
<1>3. counts[1] = Len(written["pages"]) /\ counts[2] = Len(written["revisions"])
  BY <1>1, <1>2
<1>4. Roles = {"pages", "revisions"} /\ Types["pages"] = "PAGES" /\ Types["revisions"] = "REVISIONS"
  BY ExtractAssumption
<1> QED
  BY <1>3, <1>4 DEF FileHeaders, Published

\* Every step of the command is one of those Publish_proofs is about.
LEMMA NextMoves ==
  ASSUME PublishInv(Outputs, Outputs), [Next]_vars
  PROVE  Moves(Outputs, Outputs)
<1>1. CASE LoadArgs
  BY <1>1 DEF LoadArgs, Proceed, Moves
<1>2. CASE OpenStreams
  BY <1>2 DEF OpenStreams, Moves
<1>3. CASE ExtractMessages
  <2>1. \A body \in Bodies : [id |-> NoId, body |-> body] \in Message
    BY DEF Message
  <2> QED
    BY <1>3, <2>1 DEF ExtractMessages, Moves
<1>4. CASE CloseStreams
  BY <1>4 DEF CloseStreams, Moves
<1>4a. CASE OpenTempFiles
  BY <1>4a DEF OpenTempFiles, Moves
<1>5. CASE OpenFinalStreams
  BY <1>5 DEF OpenFinalStreams, Moves
<1>6. CASE AddFileHeaders
  <2>1. FileHeaders = [r \in Roles |-> Published(r).header]
    BY <1>6, HeadersCount DEF AddFileHeaders, PrependHeaders, Each, PublishInv
  <2> QED
    BY <1>6, <2>1 DEF AddFileHeaders, Moves
<1>7. CASE CloseFinalStreams
  BY <1>7 DEF CloseFinalStreams, Moves
<1>8. CASE RemoveTempFiles
  BY <1>8 DEF RemoveTempFiles, Moves
<1>9. CASE Environment \/ UNCHANGED vars
  BY <1>9 DEF Moves
<1> QED
  BY <1>1, <1>2, <1>3, <1>4, <1>4a, <1>5, <1>6, <1>7, <1>8, <1>9 DEF Next, Step

\* The invariant of Publish_proofs is one of the command.
THEOREM Invariance == Spec => []PublishInv(Outputs, Outputs)
<1>1. Init => PublishInv(Outputs, Outputs)
  BY InitPublishInv
<1>2. PublishInv(Outputs, Outputs) /\ [Next]_vars => PublishInv(Outputs, Outputs)'
  BY NextMoves, NextPublishInv, Orders
<1> QED
  BY <1>1, <1>2, PTL DEF Spec

\* Each variable of the command keeps its type, whatever the file system refuses.
THEOREM TypeCorrect == Spec => []TypeOK
<1>1. PublishInv(Outputs, Outputs) => TypeOK
  BY PublishInvProperties
<1> QED
  BY <1>1, Invariance, PTL

\* From the first truncation of an output on, every output is whole on the disk, in
\* one place or the other, whenever a run is killed or fails to remove a file.
THEOREM NothingIsLost == Spec => []NothingLost
<1>1. PublishInv(Outputs, Outputs) => NothingLost
  BY PublishInvProperties
<1> QED
  BY <1>1, Invariance, PTL

\* A header of an earlier run is on the disk together with one of this run only where
\* the file system refused to open that final file.
THEOREM SetsNeverMixed == Spec => []NeverMixed
<1>1. PublishInv(Outputs, Outputs) => NeverMixed
  BY PublishInvProperties
<1> QED
  BY <1>1, Invariance, PTL

\* A header on the disk counts all messages that were found, whatever the file system
\* refuses; if it opened every file, a beginning of them follows.
THEOREM CountsAreOfTheWhole == Spec => []CountsTellAll
<1>1. PublishInv(Outputs, Outputs) => CountsTellAll
  BY PublishInvProperties
<1> QED
  BY <1>1, Invariance, PTL

\* kOk from a run nothing was refused: the two files are complete and nothing else is left.
THEOREM OkIsPublished == Spec => []OkPublishes
<1>1. PublishInv(Outputs, Outputs) => OkPublishes
  BY PublishInvProperties
<1> QED
  BY <1>1, Invariance, PTL

\* Where every file can be opened, the command implements PublishSet.
THEOREM Refinement ==
  ASSUME "open" \notin Failures
  PROVE  Spec => KeepsPromise
<1>1. Init => Promise!Init
  BY InitPromise
<1>2. PublishInv(Outputs, Outputs) /\ [Next]_vars => [Promise!Next]_Promise!vars
  BY NextMoves, NextPromise, Orders
<1> QED
  BY <1>1, <1>2, Invariance, PTL DEF Spec, KeepsPromise, Promise!Spec

-----------------------------------------------------------------------------
(* The names of wikis.                                                     *)

\* A set of positions has a greatest one.
LEMMA Greatest ==
  ASSUME NEW n \in Nat, NEW S \in SUBSET (1..n), S # {}
  PROVE  Max(S) \in S /\ \A s \in S : Max(S) >= s
<1> DEFINE Less == OpToRel(<, Nat)
           Left == {n - s : s \in S}
<1>1. \A x, y \in Nat : <<x, y>> \in Less <=> x < y
  BY DEF OpToRel
<1>2. IsWellFoundedOn(Less, Nat)
  BY NatLessThanWellFounded
<1> HIDE DEF Less
<1>3. Left \in SUBSET Nat /\ Left # {}
  <2>1. \A s \in S : n - s \in Nat
    OBVIOUS
  <2> QED
    BY <2>1
<1>4. PICK x \in Left : \A y \in Left : ~(<<y, x>> \in Less)
  BY <1>2, <1>3, WFMin
<1>5. PICK s \in S : x = n - s
  BY <1>4
<1>6. ASSUME NEW y \in S PROVE s >= y
  <2>1. n - y \in Left /\ n - y \in Nat /\ n - s \in Nat
    BY <1>3, <1>4, <1>5
  <2>2. ~(n - y < n - s)
    BY <1>1, <1>4, <1>5, <2>1
  <2>3. s \in 1..n /\ y \in 1..n
    OBVIOUS
  <2> QED
    BY <2>2, <2>3
<1> QED
  BY <1>5, <1>6 DEF Max

\* The pieces of names, those that are written here in particular.
Pieces == STRING \cup {"wiki", "-", "__"}

\* The suffix is taken off a name that has it once, at its end.
LEMMA SuffixTakenOff ==
  ASSUME NEW stem \in Seq(Pieces), \A n \in 1..Len(stem) : stem[n] # "wiki"
  PROVE  ExtractLangCode(stem) = stem /\ ExtractLangCode(Append(stem, "wiki")) = stem
<1>1. ExtractLangCode(stem) = stem
  <2>1. Occurrences("wiki", stem) = {}
    BY DEF Occurrences
  <2> QED
    BY <2>1 DEF ExtractLangCode
<1>2. ExtractLangCode(Append(stem, "wiki")) = stem
  <2> DEFINE name == Append(stem, "wiki")
  <2>1. /\ Len(stem) \in Nat /\ name \in Seq(Pieces)
        /\ Len(name) = Len(stem) + 1 /\ DOMAIN name = 1..(Len(stem) + 1)
        /\ name[Len(name)] = "wiki" /\ Len(name) - 1 = Len(stem)
        /\ \A n \in 1..Len(stem) : name[n] = stem[n]
    BY DEF Pieces
  <2>2. Occurrences("wiki", name) = {Len(name)}
    BY <2>1 DEF Occurrences
  <2>3. Max({Len(name)}) = Len(name)
    <3>1. Len(name) \in Nat /\ {Len(name)} \in SUBSET (1..Len(name)) /\ {Len(name)} # {}
      BY <2>1
    <3>2. Max({Len(name)}) \in {Len(name)}
      BY <3>1, Greatest
    <3> QED
      BY <3>2
  <2>4. SubSeq(name, 1, Len(name) - 1) = stem
    BY <2>1
  <2> QED
    BY <2>2, <2>3, <2>4 DEF ExtractLangCode
<1> QED
  BY <1>1, <1>2

\* A code of the table is made of pieces, none of which is the suffix or a low line.
LEMMA CodesPlain ==
  ASSUME NEW code \in DOMAIN LanguageTable
  PROVE  /\ code \in Seq(Pieces)
         /\ \A n \in 1..Len(code) : code[n] # "wiki" /\ code[n] # "__"
<1>1. code \in Seq(STRING)
  BY LangMapAssumption
<1>2. code \in Seq(Pieces)
  BY <1>1 DEF Pieces
<1>3. \A n \in DOMAIN code : code[n] \notin {"wiki", ".", "__"}
  BY LangMapAssumption
<1> QED
  BY <1>1, <1>2, <1>3

\* A wiki is found by its code.
LEMMA CodeFound ==
  ASSUME NEW code \in DOMAIN LanguageTable
  PROVE  LanguageOfWiki(code) = LanguageTable[code]
<1>1. ExtractLangCode(code) = code
  BY CodesPlain, SuffixTakenOff
<1> QED
  BY <1>1 DEF LanguageOfWiki, WikipediaCodeToLanguage

\* A wiki is found by its database name if its code has no hyphen, and only then.
LEMMA DatabaseFound ==
  ASSUME NEW code \in DOMAIN LanguageTable
  PROVE  LanguageOfWiki(DatabaseName(code)) =
           IF Hyphenated(code) THEN LANGUAGE_UNSPECIFIED ELSE LanguageTable[code]
<1> DEFINE stem == [n \in DOMAIN code |-> IF code[n] = "-" THEN "__" ELSE code[n]]
<1>1. /\ code \in Seq(Pieces) /\ DOMAIN code = 1..Len(code) /\ Len(code) \in Nat
      /\ \A n \in 1..Len(code) : code[n] \in Pieces /\ code[n] # "wiki" /\ code[n] # "__"
  BY CodesPlain
<1>2. /\ stem \in Seq(Pieces) /\ Len(stem) = Len(code)
      /\ \A n \in 1..Len(code) : stem[n] = IF code[n] = "-" THEN "__" ELSE code[n]
  <2>1. stem \in [1..Len(code) -> Pieces]
    BY <1>1 DEF Pieces
  <2> QED
    BY <1>1, <2>1, SeqDef
<1>3. ExtractLangCode(DatabaseName(code)) = stem
  <2>1. \A n \in 1..Len(stem) : stem[n] # "wiki"
    BY <1>1, <1>2
  <2> HIDE DEF stem
  <2>2. DatabaseName(code) = Append(stem, "wiki")
    BY DEF DatabaseName, stem
  <2> QED
    BY <1>2, <2>1, <2>2, SuffixTakenOff
<1>4. CASE Hyphenated(code)
  <2>1. PICK n \in 1..Len(code) : code[n] = "-"
    BY <1>1, <1>4 DEF Hyphenated
  <2>2. n \in 1..Len(stem) /\ stem[n] = "__"
    BY <1>2, <2>1
  <2>3. stem \notin DOMAIN LanguageTable
    BY <2>2, CodesPlain
  <2> QED
    BY <1>3, <1>4, <2>3 DEF LanguageOfWiki, WikipediaCodeToLanguage
<1>5. CASE ~Hyphenated(code)
  <2>1. \A n \in 1..Len(code) : code[n] # "-"
    BY <1>1, <1>5 DEF Hyphenated
  <2>2. stem = code
    BY <1>1, <1>2, <2>1
  <2> QED
    BY <1>3, <1>5, <2>2 DEF LanguageOfWiki, WikipediaCodeToLanguage
<1> QED
  BY <1>4, <1>5

\* A name in which a code of the table is found is that code or ends in the suffix
\* after it.
LEMMA NameOfCode ==
  ASSUME NEW name \in Names, ExtractLangCode(name) \in DOMAIN LanguageTable
  PROVE  name \in {ExtractLangCode(name), Append(ExtractLangCode(name), "wiki")}
<1> DEFINE code   == ExtractLangCode(name)
           places == Occurrences("wiki", name)
<1>1. name \in Seq(STRING) /\ Len(name) \in Nat /\ places \in SUBSET (1..Len(name))
  BY LangMapAssumption DEF Occurrences
<1>2. CASE places # {} /\ Max(places) = Len(name)
  <2>1. Len(name) \in places
    BY <1>1, <1>2, Greatest
  <2>2. name[Len(name)] = "wiki" /\ Len(name) > 0
    BY <1>1, <2>1 DEF Occurrences
  <2>3. code = SubSeq(name, 1, Len(name) - 1)
    BY <1>2 DEF ExtractLangCode
  <2>4. Append(SubSeq(name, 1, Len(name) - 1), name[Len(name)]) = name
    BY <1>1, <2>2
  <2> QED
    BY <2>2, <2>3, <2>4
<1>3. CASE ~(places # {} /\ Max(places) = Len(name))
  BY <1>3 DEF ExtractLangCode
<1> QED
  BY <1>2, <1>3

\* Whatever table gperf makes its lookup of: the code of a wiki gives the files of a
\* run its language, and its database name does if, and only if, the code has no hyphen.
THEOREM WikisFound == Spec => []NamesFound
<1>1. NamesFound
  BY CodeFound, DatabaseFound DEF NamesFound, Asking
<1> QED
  BY <1>1, PTL

\* No name but a code and a code with "wiki" after it gives a run the language of that
\* code, whatever pieces a name is made of.
THEOREM NoOtherFound == Spec => []NoNameOfAnother
<1>1. ASSUME asked.language # LANGUAGE_UNSPECIFIED, NEW name \in Names,
             LanguageOfWiki(name) = asked.language
      PROVE  \E code \in CodesOf(asked.language) : name \in {code, Append(code, "wiki")}
  <2> DEFINE code == ExtractLangCode(name)
  <2>1. code \in DOMAIN LanguageTable /\ LanguageTable[code] = asked.language
    BY <1>1 DEF LanguageOfWiki, WikipediaCodeToLanguage
  <2>2. name \in {code, Append(code, "wiki")}
    BY <2>1, NameOfCode
  <2> QED
    BY <2>1, <2>2 DEF CodesOf
<1>2. NoNameOfAnother
  BY <1>1 DEF NoNameOfAnother
<1> QED
  BY <1>2, PTL
=============================================================================
