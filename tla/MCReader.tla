------------------------------- MODULE MCReader ------------------------------
(* Files of every kind a reader can be given, while they are being written. *)
EXTENDS Reader

M(id, body) == [id |-> id, body |-> body]
PbfFile(type, count, lang, messages) ==
  [header |-> [type |-> type, count |-> count, language |-> lang], messages |-> messages]

\* Whole files, a count too high and too low, and headers no command takes.
MCTargets == {
  PbfFile("WORKS", 2, LANGUAGE_UNSPECIFIED, <<M("W1", "x"), M("W1", "y")>>),
  PbfFile("WORKS", 3, LANGUAGE_UNSPECIFIED, <<M("W1", "x"), M("W1", "y")>>),
  PbfFile("PAGES", 2, "en", <<M(NoId, "x"), M(NoId, "y")>>),
  PbfFile("REVISIONS", 1, "unnamed", <<M(NoId, "x"), M(NoId, "y")>>),
  PbfFile("PAGES", 0, LANGUAGE_UNSPECIFIED, <<>>),
  PbfFile("OTHER", 1, LANGUAGE_UNSPECIFIED, <<M("W1", "x")>>),
  PbfFile("OTHER", 0, LANGUAGE_UNSPECIFIED, <<>>),
  PbfFile("UNSPECIFIED", 1, LANGUAGE_UNSPECIFIED, <<M("W1", "x")>>),
  PbfFile("UNNAMED", 1, LANGUAGE_UNSPECIFIED, <<M("W1", "x")>>),
  EmptyFile}

\* Around every change of unit and of decimals, and where a decimal is a tie.
MCWholes == {1, 9, 10, 99, 100, 1023}
MCFractions == {0, 128, 512, 1019, 1023}
MCSizes ==
  {<<whole>> : whole \in MCWholes}
    \cup {low \o <<fraction, whole>> :
            low \in {<<>>, <<1, 0, 0>>}, fraction \in MCFractions, whole \in MCWholes}
    \cup {<<1, 0, 0, fraction, 1024 + whole>> : fraction \in {0, 1023}, whole \in {0, 1023}}
=============================================================================
