------------------------------ MODULE Cli_proofs ------------------------------
(***************************************************************************)
(* What the front end makes of a command line, for lines of any length and *)
(* any spelling of words.                                                  *)
(***************************************************************************)
EXTENDS Cli, FiniteSetTheorems, WellFoundedInduction, TLAPS

-----------------------------------------------------------------------------
(* Elements in the order of their positions.                               *)

\* A place among finitely many positions is one of their numbers, later positions have
\* later places, and only the position itself has its place.
LEMMA Places ==
  ASSUME NEW S \in SUBSET Nat, IsFiniteSet(S), NEW p \in S
  PROVE  /\ Place(S, p) \in 1..Cardinality(S)
         /\ \A q \in S : q < p => Place(S, q) < Place(S, p)
<1> DEFINE Below(r) == {m \in S : m <= r}
<1>1. \A r : IsFiniteSet(Below(r)) /\ Cardinality(Below(r)) \in Nat
               /\ Cardinality(Below(r)) <= Cardinality(S)
  <2>1. \A r : Below(r) \in SUBSET S
    OBVIOUS
  <2> HIDE DEF Below
  <2> QED
    BY <2>1, FS_Subset, FS_CardinalityType
<1>2. Cardinality(S) \in Nat
  BY FS_CardinalityType
<1>3. Cardinality(Below(p)) # 0
  <2>1. p \in Below(p)
    OBVIOUS
  <2> QED
    BY <1>1, <2>1, FS_EmptySet
<1>4. ASSUME NEW q \in S, q < p PROVE Cardinality(Below(q)) < Cardinality(Below(p))
  <2>. p \in Nat /\ q \in Nat
    OBVIOUS
  <2>1. Below(q) \in SUBSET Below(p)
    <3>1. \A m \in S : m \in Nat /\ (m <= q => m <= p)
      BY <1>4
    <3> QED
      BY <3>1
  <2>2. p \in Below(p) /\ p \notin Below(q)
    BY <1>4
  <2> HIDE DEF Below
  <2>3. Cardinality(Below(q)) <= Cardinality(Below(p)) /\ Cardinality(Below(q)) # Cardinality(Below(p))
    BY <1>1, <2>1, <2>2, FS_Subset
  <2> QED
    BY <1>1, <2>3
<1>5. \A r : Place(S, r) = Cardinality(Below(r))
  BY DEF Place
<1> HIDE DEF Below
<1> QED
  BY <1>1, <1>2, <1>3, <1>4, <1>5

\* Two positions with one place are the same.
LEMMA PlacesDiffer ==
  ASSUME NEW S \in SUBSET Nat, IsFiniteSet(S), NEW p \in S, NEW q \in S,
         Place(S, p) = Place(S, q)
  PROVE  p = q
<1>1. Place(S, p) \in Nat
  BY Places
<1>2. ~(p < q) /\ ~(q < p)
  BY <1>1, Places
<1> QED
  BY <1>2

\* Every number up to that of the positions is the place of one.
LEMMA PlacesOnto ==
  ASSUME NEW S \in SUBSET Nat, IsFiniteSet(S), NEW k \in 1..Cardinality(S)
  PROVE  \E p \in S : Place(S, p) = k
<1> DEFINE all == 1..Cardinality(S)
           f   == [p \in S |-> Place(S, p)]
<1>1. Cardinality(S) \in Nat
  BY FS_CardinalityType
<1>2. IsFiniteSet(all) /\ Cardinality(all) = Cardinality(S)
  BY <1>1, FS_Interval
<1>3. \A p \in S : Place(S, p) \in all
  BY Places
<1>4. f \in Injection(S, all)
  BY <1>3, PlacesDiffer DEF Injection, IsInjective
<1>5. f \in Surjection(S, all)
  BY <1>2, <1>4, FS_Injection
<1>6. \E p \in S : f[p] = k
  BY <1>5 DEF Surjection
<1> QED
  BY <1>6

\* What InOrder lists: at the place of a position, its element, and nothing else.
LEMMA InOrderLists ==
  ASSUME NEW seq, NEW S \in SUBSET Nat, IsFiniteSet(S)
  PROVE  /\ Len(InOrder(seq, S)) = Cardinality(S)
         /\ DOMAIN InOrder(seq, S) = 1..Cardinality(S) /\ Cardinality(S) \in Nat
         /\ \A p \in S : InOrder(seq, S)[Place(S, p)] = seq[p]
         /\ \A k \in 1..Cardinality(S) : \E p \in S :
              Place(S, p) = k /\ InOrder(seq, S)[k] = seq[p]
<1>1. Cardinality(S) \in Nat
  BY FS_CardinalityType
<1>2. DOMAIN InOrder(seq, S) = 1..Cardinality(S)
  BY DEF InOrder
<1>3. Len(InOrder(seq, S)) = Cardinality(S)
  BY <1>1 DEF InOrder
<1>4. ASSUME NEW p \in S PROVE InOrder(seq, S)[Place(S, p)] = seq[p]
  <2> DEFINE n == CHOOSE n \in S : Place(S, n) = Place(S, p)
  <2>1. n \in S /\ Place(S, n) = Place(S, p)
    OBVIOUS
  <2>2. n = p
    BY <2>1, PlacesDiffer
  <2>3. Place(S, p) \in 1..Cardinality(S)
    BY Places
  <2> QED
    BY <2>2, <2>3 DEF InOrder
<1>5. ASSUME NEW k \in 1..Cardinality(S)
      PROVE  \E p \in S : Place(S, p) = k /\ InOrder(seq, S)[k] = seq[p]
  BY <1>4, PlacesOnto
<1> QED
  BY <1>1, <1>2, <1>3, <1>4, <1>5

\* What is listed is of the kind of what was there.
LEMMA InOrderType ==
  ASSUME NEW V, NEW seq \in Seq(V), NEW S \in SUBSET DOMAIN seq
  PROVE  /\ S \in SUBSET Nat /\ IsFiniteSet(S)
         /\ InOrder(seq, S) \in Seq(V)
<1>1. S \in SUBSET Nat
  OBVIOUS
<1>2. IsFiniteSet(S)
  <2>1. IsFiniteSet(1..Len(seq)) /\ S \in SUBSET (1..Len(seq))
    BY FS_Interval
  <2> QED
    BY <2>1, FS_Subset
<1>3. DOMAIN InOrder(seq, S) = 1..Cardinality(S) /\ Cardinality(S) \in Nat
  BY <1>1, <1>2, InOrderLists
<1>4. \A k \in 1..Cardinality(S) : InOrder(seq, S)[k] \in V
  BY <1>1, <1>2, InOrderLists
<1>5. InOrder(seq, S) = [k \in 1..Cardinality(S) |-> InOrder(seq, S)[k]]
  BY <1>3 DEF InOrder
<1>6. InOrder(seq, S) \in [1..Cardinality(S) -> V]
  BY <1>4, <1>5
<1> QED
  BY <1>1, <1>2, <1>3, <1>6

\* Where a position is taken out, those behind it move up by one place.
LEMMA PlaceWithout ==
  ASSUME NEW S \in SUBSET Nat, IsFiniteSet(S), NEW p \in S, NEW q \in S, q # p
  PROVE  Place(S \ {p}, q) = IF q < p THEN Place(S, q) ELSE Place(S, q) - 1
<1>. p \in Nat /\ q \in Nat
  OBVIOUS
<1>1. CASE q < p
  <2>1. {m \in S \ {p} : m <= q} = {m \in S : m <= q}
    BY <1>1
  <2> QED
    BY <1>1, <2>1 DEF Place
<1>2. CASE ~(q < p)
  <2> DEFINE below == {m \in S : m <= q}
  <2>1. {m \in S \ {p} : m <= q} = below \ {p}
    OBVIOUS
  <2>2. p \in below /\ below \in SUBSET S
    BY <1>2
  <2> HIDE DEF below
  <2>3. Cardinality(below \ {p}) = Cardinality(below) - 1
    BY <2>2, FS_Subset, FS_RemoveElement
  <2> USE DEF below
  <2> QED
    BY <1>2, <2>1, <2>3 DEF Place
<1> QED
  BY <1>1, <1>2

\* What RemoveAt leaves of a sequence.
LEMMA RemoveAtLeaves ==
  ASSUME NEW V, NEW seq \in Seq(V), NEW n \in 1..Len(seq)
  PROVE  /\ RemoveAt(seq, n) \in Seq(V) /\ Len(RemoveAt(seq, n)) = Len(seq) - 1
         /\ \A k \in 1..(Len(seq) - 1) : RemoveAt(seq, n)[k] = IF k < n THEN seq[k] ELSE seq[k + 1]
<1> DEFINE before == SubSeq(seq, 1, n - 1)
           after  == SubSeq(seq, n + 1, Len(seq))
<1>0. Len(seq) \in Nat /\ n \in Nat /\ 1 <= n /\ n <= Len(seq)
  OBVIOUS
<1>1. before \in Seq(V) /\ Len(before) = n - 1 /\ \A k \in 1..(n - 1) : before[k] = seq[k]
  BY <1>0
<1>2. after \in Seq(V) /\ Len(after) = Len(seq) - n
        /\ \A k \in 1..(Len(seq) - n) : after[k] = seq[k + n]
  BY <1>0
<1>3. RemoveAt(seq, n) = before \o after
  BY DEF RemoveAt
<1> HIDE DEF before, after
<1>4. before \o after \in Seq(V) /\ Len(before \o after) = Len(seq) - 1
  <2>1. before \o after \in Seq(V) /\ Len(before \o after) = Len(before) + Len(after)
    <3>1. before \in Seq(V) /\ after \in Seq(V)
      BY <1>1, <1>2
    <3> QED
      BY <3>1
  <2> QED
    BY <1>0, <1>1, <1>2, <2>1
<1>5. ASSUME NEW k \in 1..(Len(seq) - 1)
      PROVE  (before \o after)[k] = IF k < n THEN seq[k] ELSE seq[k + 1]
  <2>. k \in Nat /\ 1 <= k /\ k <= Len(seq) - 1
    BY <1>0
  <2>1. CASE k < n
    <3>1. k \in 1..Len(before) /\ k \in 1..(n - 1)
      BY <1>0, <1>1, <2>1
    <3>2. (before \o after)[k] = before[k]
      BY <1>1, <1>2, <3>1
    <3> QED
      BY <1>1, <2>1, <3>1, <3>2
  <2>2. CASE ~(k < n)
    <3>1. (before \o after)[k] = after[k - (n - 1)]
      BY <1>0, <1>1, <1>2, <2>2
    <3>2. k - (n - 1) \in 1..(Len(seq) - n) /\ (k - (n - 1)) + n = k + 1
      BY <1>0, <2>2
    <3> QED
      BY <1>2, <2>2, <3>1, <3>2
  <2> QED
    BY <2>1, <2>2
<1> QED
  BY <1>3, <1>4, <1>5

\* Removing the element of a position is listing the others.
LEMMA RemovedPosition ==
  ASSUME NEW V, NEW seq \in Seq(V), NEW S \in SUBSET DOMAIN seq, NEW p \in S
  PROVE  RemoveAt(InOrder(seq, S), Place(S, p)) = InOrder(seq, S \ {p})
<1> DEFINE all  == InOrder(seq, S)
           rest == InOrder(seq, S \ {p})
           left == RemoveAt(all, Place(S, p))
           n    == Cardinality(S)
<1>1. /\ S \in SUBSET Nat /\ IsFiniteSet(S) /\ all \in Seq(V) /\ Len(all) = n /\ n \in Nat
      /\ Place(S, p) \in 1..n
  BY InOrderType, InOrderLists, Places
<1>2. /\ S \ {p} \in SUBSET Nat /\ IsFiniteSet(S \ {p}) /\ rest \in Seq(V)
      /\ Cardinality(S \ {p}) = n - 1 /\ Len(rest) = n - 1
  <2>1. S \ {p} \in SUBSET DOMAIN seq /\ S \ {p} \in SUBSET Nat
    BY <1>1
  <2>2. Cardinality(S \ {p}) = n - 1
    BY <1>1, FS_RemoveElement
  <2>3. IsFiniteSet(S \ {p}) /\ rest \in Seq(V)
    BY <2>1, InOrderType
  <2> QED
    BY <2>1, <2>2, <2>3, InOrderLists
<1>3. /\ left \in Seq(V) /\ Len(left) = n - 1
      /\ \A k \in 1..(n - 1) : left[k] = IF k < Place(S, p) THEN all[k] ELSE all[k + 1]
  BY <1>1, RemoveAtLeaves
<1>4. ASSUME NEW k \in 1..(n - 1) PROVE left[k] = rest[k]
  <2>1. PICK q \in S \ {p} : Place(S \ {p}, q) = k /\ rest[k] = seq[q]
    BY <1>2, InOrderLists
  <2>2. all[Place(S, q)] = seq[q] /\ Place(S, q) \in 1..n
    BY <1>1, InOrderLists, Places
  <2>3. k = IF q < p THEN Place(S, q) ELSE Place(S, q) - 1
    BY <1>1, <2>1, PlaceWithout
  <2>4. p \in Nat /\ q \in Nat
    BY <1>1
  <2>5. IF q < p THEN Place(S, q) < Place(S, p) ELSE Place(S, p) < Place(S, q)
    BY <1>1, <2>1, <2>4, Places
  <2> HIDE DEF all, rest, left, n
  <2>6. k \in Nat /\ n \in Nat /\ Place(S, p) \in Nat /\ Place(S, q) \in Nat
    BY <1>1, <2>2
  <2>7. left[k] = all[Place(S, q)]
    <3>1. CASE q < p
      BY <1>3, <2>3, <2>5, <2>6, <3>1
    <3>2. CASE ~(q < p)
      <4>1. k = Place(S, q) - 1 /\ ~(k < Place(S, p)) /\ k + 1 = Place(S, q)
        BY <2>3, <2>5, <2>6, <3>2
      <4> QED
        BY <1>3, <4>1
    <3> QED
      BY <3>1, <3>2
  <2> QED
    BY <2>1, <2>2, <2>7
<1> HIDE DEF all, rest, left, n
<1>5. left = rest
  BY <1>1, <1>2, <1>3, <1>4
<1> QED
  BY <1>5 DEF all, rest, left

\* The first element that is spelled so goes.
LEMMA FirstRemoved ==
  ASSUME NEW V, NEW seq \in Seq(V), NEW S \in SUBSET DOMAIN seq, NEW p \in S,
         \A m \in S : m < p => seq[m] # seq[p]
  PROVE  WithoutFirst(InOrder(seq, S), seq[p]) = InOrder(seq, S \ {p})
<1> DEFINE all  == InOrder(seq, S)
           k    == Place(S, p)
           same == {i \in 1..Len(all) : all[i] = seq[p]}
<1>1. /\ S \in SUBSET Nat /\ IsFiniteSet(S) /\ all \in Seq(V) /\ Len(all) = Cardinality(S)
      /\ k \in 1..Len(all) /\ k \in Nat /\ all[k] = seq[p]
  BY InOrderType, InOrderLists, Places
<1>2. k \in same
  BY <1>1
<1>3. ASSUME NEW i \in same PROVE k <= i
  <2>1. i \in 1..Cardinality(S) /\ i \in Nat /\ all[i] = seq[p]
    BY <1>1
  <2>2. PICK q \in S : Place(S, q) = i /\ all[i] = seq[q]
    BY <1>1, <2>1, InOrderLists
  <2>3. ~(q < p)
    BY <2>1, <2>2
  <2>4. q = p \/ p < q
    BY <1>1, <2>3
  <2> HIDE DEF all, same
  <2> QED
    BY <1>1, <2>1, <2>2, <2>4, Places DEF k
<1>4. Min(same) = k
  <2>1. \A i \in same : i \in Nat
    OBVIOUS
  <2> HIDE DEF same, k
  <2>2. Min(same) \in same /\ \A i \in same : Min(same) <= i
    BY <1>2, <1>3 DEF Min
  <2> QED
    BY <1>2, <1>3, <2>1, <2>2
<1>5. SelectInSeq(all, LAMBDA v : v = seq[p]) = k
  <2>1. same # {}
    BY <1>2
  <2> QED
    BY <1>4, <2>1 DEF SelectInSeq
<1>6. \E i \in 1..Len(all) : all[i] = seq[p]
  BY <1>1
<1>7. RemoveFirst(all, seq[p]) = RemoveAt(all, k)
  BY <1>5, <1>6 DEF RemoveFirst
<1> QED
  BY <1>7, RemovedPosition DEF WithoutFirst

\* Where nothing is spelled so, nothing goes.
LEMMA NoneRemoved ==
  ASSUME NEW V, NEW seq \in Seq(V), NEW S \in SUBSET DOMAIN seq, NEW text,
         \A m \in S : seq[m] # text
  PROVE  WithoutFirst(InOrder(seq, S), text) = InOrder(seq, S)
<1>1. ~ \E i \in 1..Len(InOrder(seq, S)) : InOrder(seq, S)[i] = text
  BY InOrderType, InOrderLists
<1> QED
  BY <1>1 DEF WithoutFirst, RemoveFirst

-----------------------------------------------------------------------------
(* What a line gives the topic, the command and the arguments.             *)

\* Neither the topic nor the command is given twice.
Once == Len(Given("topic", 1)) <= 1 /\ Len(Given("command", 2)) <= 1

\* The topic and the command that were found.
Found  == topic = Lookup(Given("topic", 1)) /\ topic \in TopicNames
Chosen == command = Lookup(Given("command", 2)) /\ command # NotGiven

\* What RemoveUsedArgs makes of the line.
Left == WithoutFirst(WithoutFirst(InOrder(Texts, Positions({"word", "unknown"})), topic), command)

\* A line has texts; those of words have no dash, those of unknown options have one.
LEMMA LineIs ==
  ASSUME line \in Lines
  PROVE  /\ Texts \in Seq(STRING) /\ DOMAIN Texts = DOMAIN line
         /\ \A kinds : Positions(kinds) \in SUBSET DOMAIN Texts
         /\ \A n \in Positions({"word"}) : Texts[n] \notin Dashed
         /\ \A n \in Positions({"unknown"}) : Texts[n] \in Dashed
         /\ Positions({"word"}) \in SUBSET Nat /\ IsFiniteSet(Positions({"word"}))
         /\ Positions({"word", "unknown"}) = Positions({"word"}) \cup Positions({"unknown"})
<1> DEFINE Token == [kind : Kinds, text : STRING]
<1>1. line \in Seq(Token)
  BY CliAssumption
<1>. \A token \in Token : token.text \in STRING
  OBVIOUS
<1> HIDE DEF Token
<1>2. Texts \in Seq(STRING) /\ DOMAIN Texts = DOMAIN line
  <2>1. DOMAIN line = 1..Len(line) /\ Len(line) \in Nat
    BY <1>1
  <2>2. ASSUME NEW n \in 1..Len(line) PROVE line[n].text \in STRING
    <3>1. line[n] \in Token
      BY <1>1
    <3> QED
      BY <3>1
  <2>3. Texts = [n \in 1..Len(line) |-> line[n].text]
    BY <2>1 DEF Texts
  <2>4. Texts \in Seq(STRING)
    BY <2>1, <2>2, <2>3
  <2> QED
    BY <2>1, <2>3, <2>4
<1>3. \A kinds : Positions(kinds) \in SUBSET DOMAIN Texts
  BY <1>2 DEF Positions
<1>4. \A n \in Positions({"word"}) : Texts[n] \notin Dashed
  <2>1. \A n \in DOMAIN line : line[n].kind = "word" => line[n].text \notin Dashed
    BY CliAssumption
  <2> QED
    BY <2>1 DEF Positions, Texts
<1>5. \A n \in Positions({"unknown"}) : Texts[n] \in Dashed
  <2>1. \A n \in DOMAIN line : line[n].kind = "unknown" => line[n].text \in Dashed
    BY CliAssumption
  <2> QED
    BY <2>1 DEF Positions, Texts
<1>6. Positions({"word", "unknown"}) = Positions({"word"}) \cup Positions({"unknown"})
  BY DEF Positions
<1> QED
  BY <1>2, <1>3, <1>4, <1>5, <1>6, InOrderType

\* What the options of a name and the words give.
LEMMA OfIs ==
  ASSUME line \in Lines, NEW kind
  PROVE  /\ Of(kind) \in Seq(STRING) /\ Len(Of(kind)) = Cardinality(Positions({kind}))
         /\ Len(Of(kind)) \in Nat
         /\ Has(kind) <=> Len(Of(kind)) > 0
         /\ Of(kind) = <<>> => Positions({kind}) = {}
<1>1. /\ Positions({kind}) \in SUBSET DOMAIN Texts /\ Texts \in Seq(STRING)
  BY LineIs
<1>2. /\ Of(kind) \in Seq(STRING) /\ IsFiniteSet(Positions({kind}))
      /\ Positions({kind}) \in SUBSET Nat
  BY <1>1, InOrderType DEF Of
<1>3. Len(Of(kind)) = Cardinality(Positions({kind}))
  BY <1>2, InOrderLists DEF Of
<1>4. Of(kind) # <<>> <=> Len(Of(kind)) > 0
  <2> HIDE DEF Of
  <2> QED
    BY <1>2
<1>5. Len(Of(kind)) = 0 => Positions({kind}) = {}
  BY <1>2, <1>3, FS_EmptySet
<1>6. Len(Of(kind)) \in Nat
  BY <1>2
<1> QED
  BY <1>2, <1>3, <1>4, <1>5, <1>6 DEF Has

\* What Lookup finds in what a line gives a name, by option or by its n-th word.
LEMMA GivenIs ==
  ASSUME line \in Lines, NEW name, NEW n \in Nat \ {0}
  PROVE  /\ Len(Given(name, n)) \in Nat
         /\ Has(name) => Lookup(Given(name, n)) = Of(name)[1]
         /\ ~Has(name) /\ n <= Len(Words) => Lookup(Given(name, n)) = Words[n]
         /\ ~Has(name) /\ ~(n <= Len(Words)) => Lookup(Given(name, n)) = NotGiven
         /\ Has(name) /\ n <= Len(Words) => Len(Given(name, n)) > 1
<1>1. /\ Of(name) \in Seq(STRING) /\ Len(Of(name)) \in Nat
      /\ Has(name) <=> Len(Of(name)) > 0
      /\ Words \in Seq(STRING) /\ Len(Words) \in Nat
  BY OfIs DEF Words
<1> DEFINE word == IF n <= Len(Words) THEN <<Words[n]>> ELSE <<>>
<1>2. Given(name, n) = Of(name) \o word
  BY DEF Given, Words
<1>3. word \in Seq(STRING) /\ Len(word) = IF n <= Len(Words) THEN 1 ELSE 0
  <2>1. CASE n <= Len(Words)
    <3>1. n \in 1..Len(Words)
      BY <1>1, <2>1
    <3>2. Words[n] \in STRING
      BY <1>1, <3>1
    <3> QED
      BY <2>1, <3>2
  <2>2. CASE ~(n <= Len(Words))
    BY <2>2
  <2> QED
    BY <2>1, <2>2
<1>4. Len(Of(name) \o word) = Len(Of(name)) + Len(word)
  BY <1>1, <1>3
<1>5. CASE Has(name)
  <2>1. (Of(name) \o word)[1] = Of(name)[1] /\ Of(name) \o word # <<>>
    <3> HIDE DEF word
    <3> QED
      BY <1>1, <1>3, <1>4, <1>5
  <2> QED
    BY <1>1, <1>2, <1>3, <1>4, <1>5, <2>1 DEF Lookup
<1>6. CASE ~Has(name)
  <2>1. Of(name) \o word = word
    <3>1. Of(name) = <<>>
      BY <1>6 DEF Has
    <3>2. <<>> \o word = word
      BY <1>3
    <3> QED
      BY <3>1, <3>2
  <2> QED
    BY <1>1, <1>2, <1>3, <1>6, <2>1 DEF Lookup
<1> QED
  BY <1>5, <1>6

\* A topic or command that was found is the one typed.
LEMMA NamesAreTyped ==
  ASSUME line \in Lines
  PROVE  /\ Found => topic = NameTyped("topic", 1)
         /\ Chosen => command = NameTyped("command", 2)
<1>1. Found => topic # NotGiven
  BY CliAssumption DEF Found
<1> QED
  BY <1>1, GivenIs DEF NameTyped, Found, Chosen

\* The n-th word stands at a position that n - 1 words precede.
LEMMA WordAt ==
  ASSUME line \in Lines, NEW n \in 1..Len(Words)
  PROVE  /\ \E p \in Positions({"word"}) : Place(Positions({"word"}), p) = n /\ Texts[p] = Words[n]
         /\ \A p, q \in Positions({"word"}) :
              q < p <=> Place(Positions({"word"}), q) < Place(Positions({"word"}), p)
<1> DEFINE W == Positions({"word"})
<1>1. W \in SUBSET Nat /\ IsFiniteSet(W) /\ Len(Words) = Cardinality(W)
  BY LineIs, OfIs DEF Words
<1>2. Words = InOrder(Texts, W)
  BY DEF Words, Of
<1> HIDE DEF W
<1>3. \E p \in W : Place(W, p) = n /\ Words[n] = Texts[p]
  BY <1>1, <1>2, InOrderLists
<1>4. ASSUME NEW p \in W, NEW q \in W PROVE q < p <=> Place(W, q) < Place(W, p)
  <2>1. p \in Nat /\ q \in Nat /\ Place(W, p) \in Nat /\ Place(W, q) \in Nat
    BY <1>1, Places
  <2>2. (q < p => Place(W, q) < Place(W, p)) /\ (p < q => Place(W, p) < Place(W, q))
    BY <1>1, Places
  <2> QED
    BY <2>1, <2>2
<1> QED
  BY <1>3, <1>4 DEF W

\* No topic and no command of one, by whichever name, begins with a dash.
LEMMA NamesHaveNoDash ==
  /\ \A name \in TopicNames : name \notin Dashed
  /\ \A name \in DOMAIN Topics : \A own \in Topics[name] : own \notin Dashed
  BY CliAssumption

\* What is left of the arguments are the words and options of the command's own.
LEMMA LeftIsRest ==
  ASSUME line \in Lines, Once, Found, Chosen, command \notin Dashed
  PROVE  Left = Rest
<1> DEFINE W    == Positions({"word"})
           U    == Positions({"unknown"})
           Args == W \cup U
<1>1. /\ Texts \in Seq(STRING) /\ W \in SUBSET DOMAIN Texts /\ Args \in SUBSET DOMAIN Texts
      /\ \A n \in W : Texts[n] \notin Dashed
      /\ \A n \in U : Texts[n] \in Dashed
      /\ \A n \in Args : n \in Nat
      /\ Positions({"word", "unknown"}) = Args
  BY LineIs
<1>2. /\ Len(Words) \in Nat
      /\ Len(Words) = 0 => W = {}
      /\ Len(Words) = Cardinality(W)
      /\ W \in SUBSET Nat /\ IsFiniteSet(W)
  BY OfIs, LineIs DEF Words
<1>3. topic \notin Dashed
  BY NamesHaveNoDash DEF Found
<1>4. Left = WithoutFirst(WithoutFirst(InOrder(Texts, Args), topic), command)
  BY <1>1 DEF Left
<1>5. Rest = InOrder(Texts, Args \ NamingPositions)
  BY <1>1 DEF Rest
<1>6. NamingPositions = {n \in W : Place(W, n) <= 2}
  BY DEF NamingPositions
<1>7. CASE Len(Words) = 0
  <2>1. Args = U /\ NamingPositions = {}
    BY <1>2, <1>6, <1>7
  <2>2. \A n \in Args : Texts[n] # topic /\ Texts[n] # command
    BY <1>1, <1>3, <2>1
  <2> HIDE DEF W, U, Args
  <2> QED
    BY <1>1, <1>4, <1>5, <2>1, <2>2, NoneRemoved
<1>8. CASE Len(Words) > 0
  <2>1. PICK p \in W : Place(W, p) = 1 /\ Texts[p] = Words[1]
    BY <1>2, <1>8, WordAt
  <2>2. topic = Words[1]
    <3>1. Len(Given("topic", 1)) \in Nat /\ ~(Len(Given("topic", 1)) > 1)
      BY GivenIs DEF Once
    <3>2. 1 <= Len(Words)
      BY <1>2, <1>8
    <3>3. ~Has("topic")
      BY <3>1, <3>2, GivenIs
    <3> QED
      BY <3>2, <3>3, GivenIs DEF Found
  <2>3. \A m \in Args : m < p => Texts[m] # Texts[p]
    <3>1. ASSUME NEW m \in W PROVE ~(m < p)
      <4>1. Place(W, m) \in 1..Cardinality(W)
        BY <1>2, Places
      <4> QED
        BY <1>2, <1>8, <2>1, <4>1, WordAt
    <3> QED
      BY <1>1, <1>3, <2>1, <2>2, <3>1
  <2>4. WithoutFirst(InOrder(Texts, Args), topic) = InOrder(Texts, Args \ {p})
    <3> HIDE DEF W, U
    <3>1. p \in Args
      OBVIOUS
    <3> HIDE DEF Args
    <3> QED
      BY <1>1, <2>1, <2>2, <2>3, <3>1, FirstRemoved
  <2>5. CASE Len(Words) = 1
    <3>1. W = {p}
      <4>1. \A m \in W : Place(W, m) = 1
        <5>1. \A m \in W : Place(W, m) \in 1..Cardinality(W)
          BY <1>2, Places
        <5>2. Cardinality(W) = 1
          BY <1>2, <2>5
        <5> QED
          BY <5>1, <5>2
      <4> QED
        BY <1>2, <2>1, <4>1, PlacesDiffer
    <3>2. NamingPositions = {p}
      BY <1>6, <2>1, <3>1
    <3>3. \A n \in Args \ {p} : Texts[n] # command
      BY <1>1, <3>1
    <3>4. Args \ {p} \in SUBSET DOMAIN Texts
      BY <1>1
    <3> HIDE DEF W, U, Args
    <3> QED
      BY <1>1, <1>4, <1>5, <2>4, <3>2, <3>3, <3>4, NoneRemoved
  <2>6. CASE Len(Words) > 1
    <3>1. PICK q \in W : Place(W, q) = 2 /\ Texts[q] = Words[2]
      BY <1>2, <2>6, WordAt
    <3>2. command = Words[2]
      <4>1. Len(Given("command", 2)) \in Nat /\ ~(Len(Given("command", 2)) > 1)
        BY GivenIs DEF Once
      <4>2. 2 <= Len(Words)
        BY <1>2, <2>6
      <4>3. ~Has("command")
        BY <4>1, <4>2, GivenIs
      <4> QED
        BY <4>2, <4>3, GivenIs DEF Chosen
    <3>3. \A m \in W : m < q => m = p
      <4>1. ASSUME NEW m \in W, m < q PROVE Place(W, m) = 1
        <5>1. Place(W, m) \in 1..Cardinality(W)
          BY <1>2, Places
        <5>2. Place(W, m) < 2
          BY <1>2, <1>8, <3>1, <4>1, WordAt
        <5> QED
          BY <5>1, <5>2
      <4> QED
        BY <1>2, <2>1, <4>1, PlacesDiffer
    <3>4. p # q /\ NamingPositions = {p, q}
      <4>1. ASSUME NEW m \in W, Place(W, m) <= 2 PROVE m = p \/ m = q
        <5>1. Place(W, m) \in 1..Cardinality(W)
          BY <1>2, Places
        <5>2. Place(W, m) = 1 \/ Place(W, m) = 2
          BY <4>1, <5>1
        <5> QED
          BY <1>2, <2>1, <3>1, <5>2, PlacesDiffer
      <4> QED
        BY <1>6, <2>1, <3>1, <4>1
    <3>5. \A m \in Args \ {p} : m < q => Texts[m] # Texts[q]
      BY <1>1, <3>1, <3>2, <3>3
    <3>6. Args \ {p} \in SUBSET DOMAIN Texts /\ q \in Args \ {p}
      BY <1>1, <3>4
    <3>7. (Args \ {p}) \ {q} = Args \ NamingPositions
      BY <3>4
    <3> HIDE DEF W, U, Args
    <3>8. WithoutFirst(InOrder(Texts, Args \ {p}), command) = InOrder(Texts, (Args \ {p}) \ {q})
      BY <1>1, <3>1, <3>2, <3>5, <3>6, FirstRemoved
    <3> QED
      BY <1>4, <1>5, <2>4, <3>7, <3>8
  <2> QED
    BY <1>2, <1>8, <2>5, <2>6
<1> QED
  BY <1>2, <1>7, <1>8

-----------------------------------------------------------------------------
(* The invariant of the front end.                                         *)

\* The steps from HandleImmediateExecutionFlags on, from GetTopic on, and so forth.
Running     == {"LoadArgs", "Run"}
Dispatching == {"Dispatch"} \cup Running
Removing    == {"RemoveUsedArgs"} \cup Dispatching
Commanding  == {"GetCommand"} \cup Removing
Topical     == {"GetTopic"} \cup Commanding
Parsed      == {"HandleImmediateExecutionFlags"} \cup Topical

\* What the steps have found out about the line.
FoundInv ==
  /\ pc \in Parsed => Once /\ level = LogLevel(Lookup(Of("log-level")))
  /\ pc \in Topical => ~Has("help") /\ ~Has("version")
  /\ pc \in {"SetDebug", "ParseGlobalArgs", "HandleImmediateExecutionFlags"} => topic = NotGiven
  /\ pc \in Commanding => Found
  /\ pc \in Removing => Chosen
  /\ pc \in Dispatching => args = Left

\* What was done about it.
DoneInv ==
  /\ pc \notin Running \cup {"ended"} => ran = <<>> /\ shown = <<>>
  /\ pc \in Running =>
       /\ ran = << [topic |-> topic, command |-> command, args |-> args] >> /\ shown = <<>>
       /\ topic \in DOMAIN Topics /\ command \in Topics[topic]

\* The values are those of a command that exists, made of its own arguments.
ValuesInv ==
  /\ pc \notin {"Run", "ended"} => values = NotGiven
  /\ values # NotGiven =>
       /\ topic \in DOMAIN Topics /\ command \in Topics[topic]
       /\ args = Rest /\ values = ParseArgs(command, args)

CliInv ==
  /\ line \in Lines
  /\ FoundInv /\ DoneInv /\ ValuesInv
  /\ RunsWhatWasTyped /\ NothingElseRuns /\ HelpIsOfTheTopic

\* The help topic is given three words: the text is that of the third of the second.
LEMMA HelpTextIs ==
  ASSUME line \in Lines, Once, Found, Chosen, args = Left, command \in TopicNames,
         Of("unknown") = <<>>, Len(Words) = 3, Words[2] \in DOMAIN Topics,
         Words[3] \in Topics[Words[2]]
  PROVE  HelpText = <<"command", Words[2], Words[3]>>
<1> DEFINE W == Positions({"word"})
           N == NamingPositions
<1>1. command = Words[2]
  <2>1. Len(Given("command", 2)) \in Nat /\ ~(Len(Given("command", 2)) > 1)
    BY GivenIs DEF Once
  <2>2. ~Has("command")
    BY <2>1, GivenIs
  <2> QED
    BY <2>2, GivenIs DEF Chosen
<1>2. args = InOrder(Texts, W \ N)
  <2>1. Left = Rest
    BY LeftIsRest, NamesHaveNoDash
  <2>2. Positions({"unknown"}) = {}
    BY OfIs
  <2>3. Positions({"word", "unknown"}) = W
    BY <2>2, LineIs
  <2> QED
    BY <2>1, <2>3 DEF Rest
<1>3. PICK r \in W : Place(W, r) = 3 /\ Texts[r] = Words[3]
  BY WordAt
<1>4. W \in SUBSET Nat /\ IsFiniteSet(W) /\ Cardinality(W) = 3
  BY LineIs, OfIs DEF Words
<1>5. W \ N = {r}
  <2>1. ASSUME NEW m \in W, ~(Place(W, m) <= 2) PROVE m = r
    <3>1. Place(W, m) \in 1..Cardinality(W)
      BY <1>4, Places
    <3>2. Place(W, m) = 3
      BY <1>4, <2>1, <3>1
    <3> QED
      BY <1>3, <1>4, <3>2, PlacesDiffer
  <2> QED
    BY <1>3, <2>1 DEF NamingPositions
<1>6. args # <<>> /\ args[1] = Words[3]
  <2>1. {r} \in SUBSET Nat /\ IsFiniteSet({r}) /\ Cardinality({r}) = 1
    BY <1>4, FS_Singleton
  <2>2. /\ DOMAIN InOrder(Texts, {r}) = 1..1
        /\ \A k \in 1..1 : \E p \in {r} : Place({r}, p) = k /\ InOrder(Texts, {r})[k] = Texts[p]
    BY <2>1, InOrderLists
  <2>3. 1 \in DOMAIN InOrder(Texts, {r}) /\ InOrder(Texts, {r})[1] = Texts[r]
    BY <2>2
  <2>4. 1 \in DOMAIN args /\ args[1] = Words[3]
    BY <1>2, <1>3, <1>5, <2>3
  <2>5. 1 \notin DOMAIN <<>>
    OBVIOUS
  <2> QED
    BY <2>4, <2>5
<1>7. command # "help"
  BY <1>1 DEF Topics
<1> QED
  BY <1>1, <1>6, <1>7 DEF HelpText

\* What is said of a line stays so while the line stays.
LEMMA SameLine ==
  ASSUME line' = line
  PROVE  /\ \A kind : (Of(kind))' = Of(kind) /\ (Has(kind))' = Has(kind)
         /\ \A name, n : (Given(name, n))' = Given(name, n)
         /\ Once' = Once /\ Words' = Words /\ Rest' = Rest
         /\ \A kind, n : (NameTyped(kind, n))' = NameTyped(kind, n)
<1>1. Texts' = Texts /\ \A kinds : (Positions(kinds))' = Positions(kinds)
  BY DEF Texts, Positions
<1>2. \A kind : (Of(kind))' = Of(kind)
  BY <1>1 DEF Of
<1>3. \A kind : (Has(kind))' = Has(kind)
  BY <1>2 DEF Has
<1>4. \A name, n : (Given(name, n))' = Given(name, n)
  BY <1>2 DEF Given
<1>5. Words' = Words
  BY <1>2 DEF Words
<1>6. Once' = Once
  BY <1>4 DEF Once
<1>7. Rest' = Rest
  BY <1>1 DEF Rest, NamingPositions
<1>8. \A kind, n : (NameTyped(kind, n))' = NameTyped(kind, n)
  BY <1>2, <1>3, <1>5 DEF NameTyped
<1> QED
  BY <1>2, <1>3, <1>4, <1>5, <1>6, <1>7, <1>8

\* What a command of the topic is given is what was typed.
LEMMA GivenIsTyped ==
  ASSUME line \in Lines, Once, Found, Chosen, args = Left, topic \in DOMAIN Topics,
         command \in Topics[topic], level = LogLevel(Lookup(Of("log-level")))
  PROVE  /\ args = Rest
         /\ topic = NameTyped("topic", 1) /\ command = NameTyped("command", 2)
         /\ level = LogLevel(IF Has("log-level") THEN Of("log-level")[1] ELSE NotGiven)
<1>1. args = Rest
  BY LeftIsRest, NamesHaveNoDash
<1>2. topic = NameTyped("topic", 1) /\ command = NameTyped("command", 2)
  BY NamesAreTyped
<1>3. Lookup(Of("log-level")) = IF Has("log-level") THEN Of("log-level")[1] ELSE NotGiven
  BY DEF Lookup, Has
<1> QED
  BY <1>1, <1>2, <1>3

\* What ran stays right while the line and the level stay.
LEMMA RanStays ==
  ASSUME RunsWhatWasTyped, line' = line, ran' = ran, level' = level
  PROVE  RunsWhatWasTyped'
<1>1. (LogLevel(IF Has("log-level") THEN Of("log-level")[1] ELSE NotGiven))'
        = LogLevel(IF Has("log-level") THEN Of("log-level")[1] ELSE NotGiven)
  BY SameLine DEF LogLevel
<1>2. (Range(ran))' = Range(ran)
  BY DEF Range
<1> QED
  BY <1>1, <1>2, SameLine DEF RunsWhatWasTyped

\* While nothing has run and the program goes on, there is nothing to be wrong.
LEMMA QuietIs ==
  ASSUME ran' = <<>>, pc' # "ended"
  PROVE  RunsWhatWasTyped' /\ NothingElseRuns' /\ HelpIsOfTheTopic'
<1>1. (Range(ran))' = {}
  BY DEF Range
<1> QED
  BY <1>1 DEF RunsWhatWasTyped, NothingElseRuns, HelpIsOfTheTopic

\* Steps before the dispatch that end the run end it with nothing run; an exception is
\* not the code of anything.
LEMMA EndIs ==
  ASSUME ran' = <<>>, shown' = <<>>, pc' = "ended", exit' = "terminated" \/
           (exit' = "kCliArgsError" /\ ~(Has("help"))' /\ ~(Has("version"))')
  PROVE  RunsWhatWasTyped' /\ NothingElseRuns' /\ HelpIsOfTheTopic'
<1>1. (Range(ran))' = {}
  BY DEF Range
<1>2. Len(ran') = 0 /\ Len(shown') = 0
  OBVIOUS
<1> QED
  BY <1>1, <1>2 DEF RunsWhatWasTyped, NothingElseRuns, HelpIsOfTheTopic

\* The initial states have it.
LEMMA CliStart == Init => CliInv
<1> SUFFICES ASSUME Init PROVE CliInv
  OBVIOUS
<1>1. Range(ran) = {}
  BY DEF Init, Range
<1>2. RunsWhatWasTyped /\ NothingElseRuns /\ HelpIsOfTheTopic
  BY <1>1 DEF Init, RunsWhatWasTyped, NothingElseRuns, HelpIsOfTheTopic
<1>3. FoundInv /\ DoneInv /\ ValuesInv
  BY DEF Init, FoundInv, DoneInv, ValuesInv, Parsed, Topical, Commanding, Removing, Dispatching,
         Running
<1> QED
  BY <1>2, <1>3 DEF Init, CliInv

\* Every step keeps it.
LEMMA CliStep == CliInv /\ [Next]_vars => CliInv'
<1> SUFFICES ASSUME CliInv, [Next]_vars PROVE CliInv'
  OBVIOUS
<1> USE DEF Parsed, Topical, Commanding, Removing, Dispatching, Running
<1>1. CASE SetDebug
  <2>1. line' = line /\ topic' = topic /\ ran' = <<>> /\ shown' = <<>> /\ values' = NotGiven
          /\ pc = "SetDebug" /\ pc' = "ParseGlobalArgs"
    BY <1>1 DEF SetDebug, Goto, found, results, CliInv, DoneInv, ValuesInv
  <2>2. FoundInv' /\ DoneInv' /\ ValuesInv'
    BY <2>1 DEF CliInv, FoundInv, DoneInv, ValuesInv
  <2> QED
    BY <2>1, <2>2, QuietIs DEF CliInv
<1>2. CASE ParseGlobalArgs
  <2>1. line' = line /\ topic' = topic /\ ran' = <<>> /\ shown' = <<>> /\ values' = NotGiven
          /\ pc = "ParseGlobalArgs"
    BY <1>2 DEF ParseGlobalArgs, Throw, Return, Goto, found, results, CliInv, DoneInv, ValuesInv
  <2>2. CASE pc' = "ended" /\ exit' = "terminated"
    <3>1. FoundInv' /\ DoneInv' /\ ValuesInv'
      BY <2>1, <2>2 DEF CliInv, FoundInv, DoneInv, ValuesInv
    <3> QED
      BY <2>1, <2>2, <3>1, EndIs DEF CliInv
  <2>3. CASE /\ pc' = "HandleImmediateExecutionFlags"
             /\ ~(Len(Given("topic", 1)) > 1) /\ ~(Len(Given("command", 2)) > 1)
             /\ level' = LogLevel(Lookup(Of("log-level")))
    <3>1. Once
      <4>1. Len(Given("topic", 1)) \in Nat /\ Len(Given("command", 2)) \in Nat
        BY GivenIs DEF CliInv
      <4> QED
        BY <2>3, <4>1 DEF Once
    <3>2. (LogLevel(Lookup(Of("log-level"))))' = LogLevel(Lookup(Of("log-level")))
      BY <2>1, SameLine DEF LogLevel, Lookup
    <3>3. FoundInv' /\ DoneInv' /\ ValuesInv'
      BY <2>1, <2>3, <3>1, <3>2, SameLine DEF CliInv, FoundInv, DoneInv, ValuesInv
    <3> QED
      BY <2>1, <2>3, <3>3, QuietIs DEF CliInv
  <2> QED
    BY <1>2, <2>2, <2>3 DEF ParseGlobalArgs, Throw, Return, Goto
<1>3. CASE HandleImmediateExecutionFlags
  <2>1. line' = line /\ topic' = topic /\ level' = level /\ ran' = <<>> /\ values' = NotGiven
          /\ pc = "HandleImmediateExecutionFlags" /\ shown = <<>> /\ topic = NotGiven
    BY <1>3 DEF HandleImmediateExecutionFlags, found, CliInv, FoundInv, DoneInv, ValuesInv
  <2>2. (LogLevel(Lookup(Of("log-level"))))' = LogLevel(Lookup(Of("log-level")))
    BY <2>1, SameLine DEF LogLevel, Lookup
  <2>3. CASE pc' = "ended" /\ exit' = "kOk" /\ \E text : shown' = Append(<<>>, text)
    <3>1. FoundInv' /\ DoneInv' /\ ValuesInv'
      BY <2>1, <2>3 DEF CliInv, FoundInv, DoneInv, ValuesInv
    <3>2. Len(ran') = 0 /\ Len(shown') = 1 /\ shown' # <<>> /\ (Range(ran))' = {}
      BY <2>1, <2>3 DEF Range
    <3>3. topic' # "help"
      BY <2>1, CliAssumption DEF TopicNames
    <3>4. RunsWhatWasTyped' /\ NothingElseRuns' /\ HelpIsOfTheTopic'
      BY <2>1, <2>3, <3>2, <3>3 DEF RunsWhatWasTyped, NothingElseRuns, HelpIsOfTheTopic
    <3> QED
      BY <2>1, <3>1, <3>4 DEF CliInv
  <2>4. CASE pc' = "GetTopic" /\ shown' = shown /\ ~Has("help") /\ ~Has("version")
    <3>1. FoundInv' /\ DoneInv' /\ ValuesInv'
      BY <2>1, <2>2, <2>4, SameLine DEF CliInv, FoundInv, DoneInv, ValuesInv
    <3> QED
      BY <2>1, <2>4, <3>1, QuietIs DEF CliInv
  <2> QED
    BY <1>3, <2>1, <2>3, <2>4 DEF HandleImmediateExecutionFlags, Shows, Return, Goto
<1>4. CASE GetTopic
  <2>1. line' = line /\ level' = level /\ ran' = <<>> /\ shown' = <<>> /\ values' = NotGiven
          /\ pc = "GetTopic" /\ topic' = Lookup(Given("topic", 1)) /\ command' = command
    BY <1>4 DEF GetTopic, ArgsError, Return, Goto, results, CliInv, DoneInv, ValuesInv
  <2>2. (LogLevel(Lookup(Of("log-level"))))' = LogLevel(Lookup(Of("log-level")))
    BY <2>1, SameLine DEF LogLevel, Lookup
  <2>3. CASE pc' = "ended" /\ exit' = "kCliArgsError"
    <3>1. FoundInv' /\ DoneInv' /\ ValuesInv'
      BY <2>1, <2>3 DEF CliInv, FoundInv, DoneInv, ValuesInv
    <3>2. ~(Has("help"))' /\ ~(Has("version"))'
      BY <2>1, SameLine DEF CliInv, FoundInv
    <3> QED
      BY <2>1, <2>3, <3>1, <3>2, EndIs DEF CliInv
  <2>4. CASE pc' = "GetCommand" /\ topic' \in TopicNames
    <3>1. Found'
      BY <2>1, <2>4, SameLine DEF Found, Lookup
    <3>2. FoundInv' /\ DoneInv' /\ ValuesInv'
      BY <2>1, <2>2, <2>4, <3>1, SameLine DEF CliInv, FoundInv, DoneInv, ValuesInv
    <3> QED
      BY <2>1, <2>4, <3>2, QuietIs DEF CliInv
  <2> QED
    BY <1>4, <2>3, <2>4 DEF GetTopic, ArgsError, Return, Goto
<1>5. CASE GetCommand
  <2>1. line' = line /\ level' = level /\ ran' = <<>> /\ shown' = <<>> /\ values' = NotGiven
          /\ pc = "GetCommand" /\ topic' = topic /\ command' = Lookup(Given("command", 2))
    BY <1>5 DEF GetCommand, Return, Goto, results, CliInv, DoneInv, ValuesInv
  <2>2. (LogLevel(Lookup(Of("log-level"))))' = LogLevel(Lookup(Of("log-level")))
    BY <2>1, SameLine DEF LogLevel, Lookup
  <2>3. CASE pc' = "ended" /\ exit' = "kCliArgsError"
    <3>1. FoundInv' /\ DoneInv' /\ ValuesInv'
      BY <2>1, <2>3 DEF CliInv, FoundInv, DoneInv, ValuesInv
    <3>2. ~(Has("help"))' /\ ~(Has("version"))'
      BY <2>1, SameLine DEF CliInv, FoundInv
    <3> QED
      BY <2>1, <2>3, <3>1, <3>2, EndIs DEF CliInv
  <2>4. CASE pc' = "RemoveUsedArgs" /\ command' # NotGiven
    <3>1. Found' /\ Chosen'
      BY <2>1, <2>4, SameLine DEF Found, Chosen, Lookup, CliInv, FoundInv
    <3>2. FoundInv' /\ DoneInv' /\ ValuesInv'
      BY <2>1, <2>2, <2>4, <3>1, SameLine DEF CliInv, FoundInv, DoneInv, ValuesInv
    <3> QED
      BY <2>1, <2>4, <3>2, QuietIs DEF CliInv
  <2> QED
    BY <1>5, <2>3, <2>4 DEF GetCommand, Return, Goto
<1>6. CASE RemoveUsedArgs
  <2>1. line' = line /\ level' = level /\ ran' = <<>> /\ shown' = <<>> /\ values' = NotGiven
          /\ pc = "RemoveUsedArgs" /\ pc' = "Dispatch" /\ topic' = topic /\ command' = command
          /\ args' = Left
    BY <1>6 DEF RemoveUsedArgs, Left, Goto, results, CliInv, DoneInv, ValuesInv
  <2>2. (LogLevel(Lookup(Of("log-level"))))' = LogLevel(Lookup(Of("log-level")))
    BY <2>1, SameLine DEF LogLevel, Lookup
  <2>3. Found' /\ Chosen'
    BY <2>1, SameLine DEF Found, Chosen, Lookup, CliInv, FoundInv
  <2>4. Left' = Left
    BY <2>1 DEF Left, Texts, Positions
  <2>5. FoundInv' /\ DoneInv' /\ ValuesInv'
    BY <2>1, <2>2, <2>3, <2>4, SameLine DEF CliInv, FoundInv, DoneInv, ValuesInv
  <2> QED
    BY <2>1, <2>5, QuietIs DEF CliInv
<1>7. CASE RunTopic
  <2>1. line' = line /\ level' = level /\ shown' = <<>> /\ values' = NotGiven
          /\ pc = "Dispatch" /\ topic' = topic /\ command' = command /\ args' = args /\ ran = <<>>
    BY <1>7 DEF RunTopic, ArgsError, Return, Goto, found, results, CliInv, DoneInv, ValuesInv
  <2>2. Once /\ Found /\ Chosen /\ args = Left /\ level = LogLevel(Lookup(Of("log-level")))
          /\ ~Has("help") /\ ~Has("version")
    BY <2>1 DEF CliInv, FoundInv
  <2>3. CASE pc' = "ended" /\ exit' = "kCliArgsError" /\ ran' = ran
    <3>1. FoundInv' /\ DoneInv' /\ ValuesInv'
      BY <2>1, <2>3 DEF CliInv, FoundInv, DoneInv, ValuesInv
    <3>2. ~(Has("help"))' /\ ~(Has("version"))'
      BY <2>1, <2>2, SameLine
    <3> QED
      BY <2>1, <2>3, <3>1, <3>2, EndIs DEF CliInv
  <2>4. CASE /\ pc' = "LoadArgs" /\ command \in Topics[topic] /\ topic # "help"
             /\ ran' = Append(ran, [topic |-> topic, command |-> command, args |-> args])
    <3> DEFINE run == [topic |-> topic, command |-> command, args |-> args]
    <3>1. topic \in DOMAIN Topics
      BY <2>2, <2>4 DEF Found, TopicNames
    <3>2. ran' = <<run>>
      BY <2>1, <2>4
    <3>3. FoundInv'
      <4>1. (LogLevel(Lookup(Of("log-level"))))' = LogLevel(Lookup(Of("log-level")))
        BY <2>1, SameLine DEF LogLevel, Lookup
      <4>2. Found' /\ Chosen'
        BY <2>1, <2>2, SameLine DEF Found, Chosen, Lookup
      <4>3. Left' = Left
        BY <2>1 DEF Left, Texts, Positions
      <4> QED
        BY <2>1, <2>2, <2>4, <4>1, <4>2, <4>3, SameLine DEF FoundInv
    <3>4. DoneInv' /\ ValuesInv'
      BY <2>1, <2>4, <3>1, <3>2 DEF DoneInv, ValuesInv
    <3>5. RunsWhatWasTyped'
      <4>1. (Range(ran))' = {run}
        <5>1. DOMAIN ran' = {1} /\ ran'[1] = run
          BY <3>2
        <5> QED
          BY <5>1 DEF Range
      <4>2. /\ args = Rest /\ topic = NameTyped("topic", 1) /\ command = NameTyped("command", 2)
            /\ level = LogLevel(IF Has("log-level") THEN Of("log-level")[1] ELSE NotGiven)
        BY <2>2, <2>4, <3>1, GivenIsTyped DEF CliInv
      <4>3. (LogLevel(IF Has("log-level") THEN Of("log-level")[1] ELSE NotGiven))'
              = LogLevel(IF Has("log-level") THEN Of("log-level")[1] ELSE NotGiven)
        BY <2>1, SameLine DEF LogLevel
      <4> QED
        BY <2>1, <4>1, <4>2, <4>3, SameLine DEF RunsWhatWasTyped
    <3>6. NothingElseRuns' /\ HelpIsOfTheTopic'
      BY <2>4 DEF NothingElseRuns, HelpIsOfTheTopic
    <3> QED
      BY <2>1, <3>3, <3>4, <3>5, <3>6 DEF CliInv
  <2> QED
    BY <1>7, <2>3, <2>4 DEF RunTopic, ArgsError, Return, Goto, results
<1>8. CASE LoadArgs
  <2>1. line' = line /\ level' = level /\ ran' = ran /\ shown' = <<>> /\ values = NotGiven
          /\ pc = "LoadArgs" /\ topic' = topic /\ command' = command /\ args' = args
    BY <1>8 DEF LoadArgs, Throw, Return, Goto, found, results, CliInv, DoneInv, ValuesInv
  <2>2. Once /\ Found /\ Chosen /\ args = Left /\ level = LogLevel(Lookup(Of("log-level")))
          /\ ~Has("help") /\ ~Has("version") /\ topic \in DOMAIN Topics /\ command \in Topics[topic]
    BY <2>1 DEF CliInv, FoundInv, DoneInv
  <2>3. RunsWhatWasTyped'
    BY <2>1, RanStays DEF CliInv
  <2>4. CASE pc' = "ended" /\ exit' = "terminated" /\ values' = values
    <3>1. FoundInv' /\ DoneInv' /\ ValuesInv'
      BY <2>1, <2>4 DEF FoundInv, DoneInv, ValuesInv
    <3>2. NothingElseRuns' /\ HelpIsOfTheTopic'
      BY <2>4 DEF NothingElseRuns, HelpIsOfTheTopic
    <3> QED
      BY <2>1, <2>3, <3>1, <3>2 DEF CliInv
  <2>5. CASE pc' = "Run" /\ values' = ParseArgs(command, args)
    <3>1. FoundInv'
      <4>1. (LogLevel(Lookup(Of("log-level"))))' = LogLevel(Lookup(Of("log-level")))
        BY <2>1, SameLine DEF LogLevel, Lookup
      <4>2. Found' /\ Chosen'
        BY <2>1, <2>2, SameLine DEF Found, Chosen, Lookup
      <4>3. Left' = Left
        BY <2>1 DEF Left, Texts, Positions
      <4> QED
        BY <2>1, <2>2, <2>5, <4>1, <4>2, <4>3, SameLine DEF FoundInv
    <3>2. DoneInv'
      BY <2>1, <2>2, <2>5 DEF CliInv, DoneInv
    <3>3. ValuesInv'
      <4>1. args = Rest
        BY <2>2, GivenIsTyped DEF CliInv
      <4>2. Rest' = Rest
        BY <2>1, SameLine
      <4>3. (ParseArgs(command, args))' = ParseArgs(command, args)
        BY <2>1 DEF ParseArgs
      <4> QED
        BY <2>1, <2>2, <2>5, <4>1, <4>2, <4>3 DEF ValuesInv
    <3>4. NothingElseRuns' /\ HelpIsOfTheTopic'
      BY <2>5 DEF NothingElseRuns, HelpIsOfTheTopic
    <3> QED
      BY <2>1, <2>3, <3>1, <3>2, <3>3, <3>4 DEF CliInv
  <2> QED
    BY <1>8, <2>4, <2>5 DEF LoadArgs, Throw, Return, Goto, results
<1>9. CASE RunCommand
  <2>1. line' = line /\ level' = level /\ ran' = ran /\ shown' = <<>> /\ values' = values
          /\ pc = "Run" /\ topic' = topic /\ command' = command /\ args' = args
          /\ pc' = "ended" /\ exit' \in {"kOk", "kGeneralError", "terminated"}
    BY <1>9 DEF RunCommand, Return, found, results, CliInv, DoneInv
  <2>2. ~Has("help") /\ ~Has("version") /\ topic \in DOMAIN Topics
          /\ ran = << [topic |-> topic, command |-> command, args |-> args] >>
    BY <2>1 DEF CliInv, FoundInv, DoneInv
  <2>3. RunsWhatWasTyped'
    BY <2>1, RanStays DEF CliInv
  <2>4. FoundInv' /\ DoneInv'
    BY <2>1 DEF FoundInv, DoneInv
  <2>5. ValuesInv'
    <3>1. (ParseArgs(command, args))' = ParseArgs(command, args)
      BY <2>1 DEF ParseArgs
    <3>2. Rest' = Rest
      BY <2>1, SameLine
    <3> QED
      BY <2>1, <3>1, <3>2 DEF CliInv, ValuesInv
  <2>6. NothingElseRuns'
    <3>1. Len(ran') = 1 /\ Len(shown') = 0 /\ ran' # <<>>
      BY <2>1, <2>2
    <3> QED
      BY <2>1, <2>2, <3>1, SameLine DEF NothingElseRuns
  <2>7. HelpIsOfTheTopic'
    BY <2>1, <2>2 DEF HelpIsOfTheTopic, Topics
  <2> QED
    BY <2>1, <2>3, <2>4, <2>5, <2>6, <2>7 DEF CliInv
<1>10. CASE RunHelp
  <2>1. line' = line /\ level' = level /\ values' = NotGiven
          /\ pc = "Dispatch" /\ topic' = topic /\ command' = command /\ args' = args
          /\ ran' = <<>> /\ shown = <<>> /\ pc' = "ended"
    BY <1>10 DEF RunHelp, Throw, ArgsError, Return, found, results, CliInv, DoneInv, ValuesInv
  <2>2. Once /\ Found /\ Chosen /\ args = Left /\ ~Has("help") /\ ~Has("version")
    BY <2>1 DEF CliInv, FoundInv
  <2>3. FoundInv' /\ DoneInv' /\ ValuesInv'
    BY <2>1 DEF FoundInv, DoneInv, ValuesInv
  <2>4. CASE shown' = shown /\ exit' \in {"terminated", "kCliArgsError"}
    <3>1. ~(Has("help"))' /\ ~(Has("version"))'
      BY <2>1, <2>2, SameLine
    <3> QED
      BY <2>1, <2>3, <2>4, <3>1, EndIs DEF CliInv
  <2>5. CASE /\ Len(args) <= 1 /\ Of("unknown") = <<>> /\ command \in TopicNames
             /\ shown' = Append(shown, HelpText) /\ exit' = "kOk"
    <3>1. shown' = <<HelpText>> /\ Len(shown') = 1 /\ shown' # <<>> /\ Len(ran') = 0
            /\ (Range(ran))' = {}
      BY <2>1, <2>5 DEF Range
    <3>2. RunsWhatWasTyped' /\ NothingElseRuns'
      BY <2>1, <2>5, <3>1 DEF RunsWhatWasTyped, NothingElseRuns
    <3>3. HelpIsOfTheTopic'
      <4>1. Words' = Words
        BY <2>1, SameLine
      <4>2. ASSUME Len(Words) = 3, Words[2] \in DOMAIN Topics, Words[3] \in Topics[Words[2]]
            PROVE  HelpText = <<"command", Words[2], Words[3]>>
        BY <2>2, <2>5, <4>2, HelpTextIs DEF CliInv
      <4> QED
        BY <3>1, <4>1, <4>2 DEF HelpIsOfTheTopic
    <3> QED
      BY <2>1, <2>3, <3>2, <3>3 DEF CliInv
  <2> QED
    BY <1>10, <2>4, <2>5 DEF RunHelp, Throw, ArgsError, Return, Shows, results
<1>11. CASE UNCHANGED vars
  <2>1. UNCHANGED <<line, pc, topic, command, args, level, ran, values, shown, exit>>
    BY <1>11 DEF vars, found, results
  <2>2. FoundInv'
    <3>1. (LogLevel(Lookup(Of("log-level"))))' = LogLevel(Lookup(Of("log-level")))
      BY <2>1, SameLine DEF LogLevel, Lookup
    <3>2. Found' = Found /\ Chosen' = Chosen
      BY <2>1, SameLine DEF Found, Chosen, Lookup
    <3>3. Left' = Left
      BY <2>1 DEF Left, Texts, Positions
    <3> QED
      BY <2>1, <3>1, <3>2, <3>3, SameLine DEF CliInv, FoundInv
  <2>3. DoneInv'
    BY <2>1 DEF CliInv, DoneInv
  <2>4. ValuesInv'
    <3>1. (ParseArgs(command, args))' = ParseArgs(command, args)
      BY <2>1 DEF ParseArgs
    <3>2. Rest' = Rest
      BY <2>1, SameLine
    <3> QED
      BY <2>1, <3>1, <3>2 DEF CliInv, ValuesInv
  <2>5. RunsWhatWasTyped' /\ NothingElseRuns' /\ HelpIsOfTheTopic'
    BY <2>1, SameLine, RanStays DEF CliInv, NothingElseRuns, HelpIsOfTheTopic
  <2> QED
    BY <2>1, <2>2, <2>3, <2>4, <2>5 DEF CliInv
<1> QED
  BY <1>1, <1>2, <1>3, <1>4, <1>5, <1>6, <1>7, <1>8, <1>9, <1>10, <1>11 DEF Next

-----------------------------------------------------------------------------
(* Which arguments are the values of options.                              *)

\* Some number of a set of numbers is the least.
LEMMA Least ==
  ASSUME NEW S \in SUBSET Nat, S # {}
  PROVE  \E x \in S : \A y \in S : x <= y
<1> DEFINE Less == OpToRel(<, Nat)
<1>1. \A x, y \in Nat : <<x, y>> \in Less <=> x < y
  BY DEF OpToRel
<1>2. IsWellFoundedOn(Less, Nat)
  BY NatLessThanWellFounded
<1> HIDE DEF Less
<1>3. PICK x \in S : \A y \in S : ~(<<y, x>> \in Less)
  BY <1>2, WFMin
<1>4. ASSUME NEW y \in S PROVE x <= y
  <2>1. x \in Nat /\ y \in Nat /\ ~(y < x)
    BY <1>1, <1>3
  <2> QED
    BY <2>1
<1> QED
  BY <1>4

\* IsValue is what its definition says: the function exists, because whether an argument is
\* a value depends on how many options that take one stand in a row before it.
LEMMA IsValueIs ==
  ASSUME NEW c, NEW a \in Seq(STRING)
  PROVE  \A n \in 0..(Len(a) + 1) :
           IsValue(c, a)[n] <=> n > 1 /\ ~IsValue(c, a)[n - 1] /\ Takes(c, a[n - 1])
<1> DEFINE D == 0..(Len(a) + 1)
           T(i) == Takes(c, a[i])
           Row(m, n) == (\A i \in m..(n - 1) : T(i)) /\ (m = 1 \/ ~T(m - 1))
           F == [n \in D |-> \E m \in 1..n : Row(m, n) /\ (n - m) % 2 = 1]
           Step(f) == [n \in D |-> n > 1 /\ ~f[n - 1] /\ T(n - 1)]
<1>0. Len(a) \in Nat /\ \A n \in D : n \in Nat
  OBVIOUS
<1>1. ASSUME NEW n \in D, n > 0 PROVE \E m \in 1..n : Row(m, n)
  <2> DEFINE S == {m \in 1..n : \A i \in m..(n - 1) : T(i)}
  <2> n \in Nat
    BY <1>0
  <2>1. n \in S /\ S \in SUBSET Nat
    BY <1>1
  <2> HIDE DEF S, T
  <2>2. PICK m \in S : \A k \in S : m <= k
    BY <2>1, Least
  <2>3. m \in 1..n /\ \A i \in m..(n - 1) : T(i)
    BY DEF S
  <2>4. ASSUME m # 1, T(m - 1) PROVE FALSE
    <3>1. m - 1 \in 1..n /\ m - 1 \in Nat /\ m \in Nat
      BY <2>3, <2>4
    <3>2. \A i \in (m - 1)..(n - 1) : i = m - 1 \/ i \in m..(n - 1)
      BY <3>1
    <3>3. m - 1 \in S
      BY <2>3, <2>4, <3>1, <3>2 DEF S
    <3>4. m <= m - 1
      BY <2>2, <3>3
    <3> QED
      BY <3>1, <3>4
  <2> QED
    BY <2>3, <2>4
<1>2. ASSUME NEW n \in D, NEW m \in 1..n, NEW k \in 1..n, Row(m, n), Row(k, n) PROVE m = k
  <2> HIDE DEF T
  <2>0. n \in Nat /\ m \in Nat /\ k \in Nat
    BY <1>0
  <2>1. ASSUME m < k PROVE FALSE
    <3>1. k - 1 \in m..(n - 1) /\ k # 1
      BY <2>0, <2>1
    <3> QED
      BY <1>2, <3>1
  <2>2. ASSUME k < m PROVE FALSE
    <3>1. m - 1 \in k..(n - 1) /\ m # 1
      BY <2>0, <2>2
    <3> QED
      BY <1>2, <3>1
  <2> QED
    BY <2>0, <2>1, <2>2
<1>3. ASSUME NEW n \in D PROVE F[n] <=> n > 1 /\ ~F[n - 1] /\ T(n - 1)
  <2> HIDE DEF T
  <2>0. n \in Nat
    BY <1>0
  <2>1. CASE n = 0
    BY <2>1
  <2>2. CASE n = 1
    <3>1. \A m \in 1..n : ~((n - m) % 2 = 1)
      BY <2>2
    <3> QED
      BY <2>2, <3>1
  <2>3. CASE n > 1 /\ ~T(n - 1)
    <3>1. ASSUME NEW m \in 1..n, Row(m, n) PROVE m = n
      <4>1. m \in Nat /\ ~(n - 1 \in m..(n - 1))
        BY <2>3, <3>1
      <4> QED
        BY <2>0, <2>3, <4>1
    <3>2. ~((n - n) % 2 = 1)
      BY <2>0
    <3> QED
      BY <2>3, <3>1, <3>2
  <2>4. CASE n > 1 /\ T(n - 1)
    <3>1. n - 1 \in D /\ n - 1 > 0 /\ n - 1 \in Nat
      BY <1>0, <2>0, <2>4
    <3>2. PICK m \in 1..(n - 1) : Row(m, n - 1)
      BY <1>1, <3>1
    <3>3. m \in 1..n /\ m \in Nat
      BY <2>0, <3>1
    <3>4. Row(m, n)
      <4>1. \A i \in m..(n - 1) : i = n - 1 \/ i \in m..((n - 1) - 1)
        BY <2>0, <3>3
      <4> QED
        BY <2>4, <3>2, <4>1
    <3>5. F[n] <=> (n - m) % 2 = 1
      <4> HIDE DEF Row
      <4>1. \A k \in 1..n : Row(k, n) => k = m
        BY <1>2, <3>3, <3>4
      <4> QED
        BY <3>3, <3>4, <4>1
    <3>6. F[n - 1] <=> ((n - 1) - m) % 2 = 1
      <4> HIDE DEF Row
      <4>1. \A k \in 1..(n - 1) : Row(k, n - 1) => k = m
        BY <1>2, <3>1, <3>2
      <4> QED
        BY <3>1, <3>2, <4>1
    <3>7. (n - m) % 2 = 1 <=> ~(((n - 1) - m) % 2 = 1)
      BY <2>0, <3>3
    <3> QED
      BY <2>4, <3>5, <3>6, <3>7
  <2> QED
    BY <2>0, <2>1, <2>2, <2>3, <2>4
<1>4. F = Step(F)
  <2> HIDE DEF T, Row
  <2> QED
    BY <1>3, Zenon
<1>5. IsValue(c, a) = CHOOSE f : f = Step(f)
  BY DEF IsValue
<1>6. IsValue(c, a) = Step(IsValue(c, a))
  <2> HIDE DEF F, Step
  <2> QED
    BY <1>4, <1>5
<1> HIDE DEF F
<1>7. ASSUME NEW n \in D
      PROVE  IsValue(c, a)[n] <=> n > 1 /\ ~IsValue(c, a)[n - 1] /\ Takes(c, a[n - 1])
  <2>1. Step(IsValue(c, a))[n] = (n > 1 /\ ~IsValue(c, a)[n - 1] /\ T(n - 1))
    OBVIOUS
  <2> HIDE DEF D, Step
  <2> QED
    BY <1>6, <2>1
<1> QED
  BY <1>7

-----------------------------------------------------------------------------
(* What the options of the commands are given.                             *)

\* The names of options for files.
Reading == {"file", "input"}
Writing == {"output", "pages", "revisions", "authors", "institutions", "works"}

\* The options each command has.
LEMMA OptionsAre ==
  /\ DOMAIN Options = {"cat", "meta", "combine", "extract", "process"}
  /\ DOMAIN Options["cat"] = {"file"}
  /\ DOMAIN Options["meta"] = {"file", "pretty"}
  /\ DOMAIN Options["combine"] = {"input", "output"}
  /\ DOMAIN Options["extract"] = {"input", "pages", "revisions", "stdin", "wiki", "bz2"}
  /\ DOMAIN Options["process"] = {"input", "stdin", "authors", "institutions", "works"}
<1>1. /\ DOMAIN Options = {"cat", "meta", "combine", "extract", "process"}
      /\ Options["cat"] = CatOptions /\ Options["meta"] = MetaOptions
      /\ Options["combine"] = CombineOptions /\ Options["extract"] = ExtractOptions
      /\ Options["process"] = ProcessOptions
  BY DEF Options
<1>2. DOMAIN CatOptions = {"file"} /\ DOMAIN MetaOptions = {"file", "pretty"}
  BY DEF CatOptions, MetaOptions
<1>3. DOMAIN CombineOptions = {"input", "output"}
  BY DEF CombineOptions
<1>4. DOMAIN ExtractOptions = {"input", "pages", "revisions", "stdin", "wiki", "bz2"}
  BY DEF ExtractOptions
<1>5. DOMAIN ProcessOptions = {"input", "stdin", "authors", "institutions", "works"}
  BY DEF ProcessOptions
<1> QED
  BY <1>1, <1>2, <1>3, <1>4, <1>5

\* Every command of a topic has options.
LEMMA CommandsAre ==
  \A name \in DOMAIN Topics : \A own \in Topics[name] : own \in DOMAIN Options
<1>1. DOMAIN Topics = {"dump", "openalex", "pbf"}
  BY DEF Topics
<1>2. Topics["dump"] = {"extract"} /\ Topics["openalex"] = {"process"}
        /\ Topics["pbf"] = {"cat", "meta", "combine"}
  BY DEF Topics, NewDumpTopic, NewOpenalexTopic, NewPbfTopic
<1> QED
  BY <1>1, <1>2, OptionsAre

\* The kinds of option there are.
LEMMA KindsOfOption ==
  \A texts : /\ Flag(texts).texts = texts /\ Flag(texts).takes = FALSE
             /\ Optional(texts).texts = texts /\ Optional(texts).takes = TRUE
             /\ Required(texts).texts = texts /\ Required(texts).takes = TRUE
             /\ [Required(texts) EXCEPT !.many = TRUE].takes = TRUE
  BY DEF Flag, Optional, Required

\* Options for files take a value; --stdin does not.
LEMMA FileOptionsTake ==
  /\ \A c \in DOMAIN Options : \A name \in (Reading \cup Writing) \cap DOMAIN Options[c] :
       Options[c][name].takes = TRUE
  /\ \A c \in {"extract", "process"} : Options[c]["stdin"].texts = {"--stdin", "--si"}
<1>1. Options["cat"]["file"].takes = TRUE
  BY KindsOfOption DEF Options, CatOptions
<1>2. Options["meta"]["file"].takes = TRUE
  BY KindsOfOption DEF Options, MetaOptions
<1>3. Options["combine"]["input"].takes = TRUE /\ Options["combine"]["output"].takes = TRUE
  BY KindsOfOption DEF Options, CombineOptions
<1>4. /\ Options["extract"]["input"].takes = TRUE /\ Options["extract"]["pages"].takes = TRUE
      /\ Options["extract"]["revisions"].takes = TRUE
      /\ Options["extract"]["stdin"].texts = {"--stdin", "--si"}
  BY KindsOfOption DEF Options, ExtractOptions
<1>5. /\ Options["process"]["input"].takes = TRUE /\ Options["process"]["authors"].takes = TRUE
      /\ Options["process"]["institutions"].takes = TRUE /\ Options["process"]["works"].takes = TRUE
      /\ Options["process"]["stdin"].texts = {"--stdin", "--si"}
  BY KindsOfOption DEF Options, ProcessOptions
<1> QED
  BY <1>1, <1>2, <1>3, <1>4, <1>5, OptionsAre DEF Reading, Writing

\* The files a command reads and writes are what those options are given.
LEMMA FilesAreValues ==
  ASSUME NEW c \in DOMAIN Options, NEW v \in [DOMAIN Options[c] -> Seq(STRING)]
  PROVE  /\ Range(FilesWritten(c, v)) = UNION {Range(v[name]) : name \in Writing \cap DOMAIN Options[c]}
         /\ \A name \in Reading \cap DOMAIN Options[c] :
              \/ Range(v[name]) = Range(FilesRead(c, v))
              \/ c \in {"extract", "process"} /\ v["stdin"] # <<>>
<1>1. \A s, t \in Seq(STRING) : Range(s \o t) = Range(s) \cup Range(t)
  <2> TAKE s, t \in Seq(STRING)
  <2>1. /\ DOMAIN s = 1..Len(s) /\ DOMAIN t = 1..Len(t) /\ Len(s) \in Nat /\ Len(t) \in Nat
        /\ DOMAIN (s \o t) = 1..(Len(s) + Len(t))
        /\ \A k \in 1..(Len(s) + Len(t)) :
             (s \o t)[k] = IF k <= Len(s) THEN s[k] ELSE t[k - Len(s)]
    OBVIOUS
  <2>2. ASSUME NEW x \in Range(s \o t) PROVE x \in Range(s) \cup Range(t)
    <3>1. PICK k \in 1..(Len(s) + Len(t)) : x = (s \o t)[k]
      BY <2>1 DEF Range
    <3>2. CASE k <= Len(s)
      BY <2>1, <3>1, <3>2 DEF Range
    <3>3. CASE ~(k <= Len(s))
      <4>1. k - Len(s) \in 1..Len(t) /\ x = t[k - Len(s)]
        BY <2>1, <3>1, <3>3
      <4> QED
        BY <2>1, <4>1 DEF Range
    <3> QED
      BY <3>2, <3>3
  <2>3. ASSUME NEW x \in Range(s) PROVE x \in Range(s \o t)
    <3>1. PICK k \in 1..Len(s) : x = s[k]
      BY <2>1 DEF Range
    <3>2. k \in 1..(Len(s) + Len(t)) /\ (s \o t)[k] = x
      BY <2>1, <3>1
    <3> QED
      BY <2>1, <3>2 DEF Range
  <2>4. ASSUME NEW x \in Range(t) PROVE x \in Range(s \o t)
    <3>1. PICK k \in 1..Len(t) : x = t[k]
      BY <2>1 DEF Range
    <3>2. k + Len(s) \in 1..(Len(s) + Len(t)) /\ (s \o t)[k + Len(s)] = x
      <4>1. k + Len(s) \in 1..(Len(s) + Len(t)) /\ ~(k + Len(s) <= Len(s)) /\ (k + Len(s)) - Len(s) = k
        BY <2>1
      <4> QED
        BY <2>1, <3>1, <4>1
    <3> QED
      BY <2>1, <3>2 DEF Range
  <2> QED
    BY <2>2, <2>3, <2>4
<1>2. CASE c \in {"cat", "meta"}
  <2>1. Writing \cap DOMAIN Options[c] = {} /\ Reading \cap DOMAIN Options[c] = {"file"}
    BY <1>2, OptionsAre DEF Reading, Writing
  <2>2. FilesWritten(c, v) = <<>> /\ FilesRead(c, v) = v["file"]
    BY <1>2 DEF FilesWritten, FilesRead
  <2>3. Range(<<>>) = {}
    BY DEF Range
  <2> QED
    BY <2>1, <2>2, <2>3
<1>3. CASE c = "combine"
  <2>1. Writing \cap DOMAIN Options[c] = {"output"} /\ Reading \cap DOMAIN Options[c] = {"input"}
    BY <1>3, OptionsAre DEF Reading, Writing
  <2>2. FilesWritten(c, v) = v["output"] /\ FilesRead(c, v) = v["input"]
    BY <1>3 DEF FilesWritten, FilesRead
  <2> QED
    BY <2>1, <2>2
<1>4. CASE c = "extract"
  <2>1. /\ Writing \cap DOMAIN Options[c] = {"pages", "revisions"}
        /\ Reading \cap DOMAIN Options[c] = {"input"}
    BY <1>4, OptionsAre DEF Reading, Writing
  <2>2. FilesWritten(c, v) = v["pages"] \o v["revisions"]
    BY <1>4 DEF FilesWritten
  <2>3. v["stdin"] = <<>> => FilesRead(c, v) = v["input"]
    BY <1>4 DEF FilesRead
  <2>4. v["pages"] \in Seq(STRING) /\ v["revisions"] \in Seq(STRING)
    BY <1>4, OptionsAre
  <2>5. Range(FilesWritten(c, v)) = Range(v["pages"]) \cup Range(v["revisions"])
    BY <1>1, <2>2, <2>4
  <2> QED
    BY <1>4, <2>1, <2>3, <2>5
<1>5. CASE c = "process"
  <2>1. /\ Writing \cap DOMAIN Options[c] = {"authors", "institutions", "works"}
        /\ Reading \cap DOMAIN Options[c] = {"input"}
    BY <1>5, OptionsAre DEF Reading, Writing
  <2>2. FilesWritten(c, v) = v["authors"] \o v["institutions"] \o v["works"]
    BY <1>5 DEF FilesWritten
  <2>3. v["stdin"] = <<>> => FilesRead(c, v) = v["input"]
    BY <1>5 DEF FilesRead
  <2>4. v["authors"] \in Seq(STRING) /\ v["institutions"] \in Seq(STRING) /\ v["works"] \in Seq(STRING)
    BY <1>5, OptionsAre
  <2>5. Range(FilesWritten(c, v)) = Range(v["authors"]) \cup Range(v["institutions"]) \cup Range(v["works"])
    <3>1. v["authors"] \o v["institutions"] \in Seq(STRING)
      BY <2>4
    <3> QED
      BY <1>1, <2>2, <2>4, <3>1
  <2> QED
    BY <1>5, <2>1, <2>3, <2>5
<1> QED
  BY <1>2, <1>3, <1>4, <1>5, OptionsAre

\* What is listed of the elements at some positions.
LEMMA RangeInOrder ==
  ASSUME NEW V, NEW seq \in Seq(V), NEW S \in SUBSET DOMAIN seq
  PROVE  Range(InOrder(seq, S)) = {seq[n] : n \in S}
<1>1. S \in SUBSET Nat /\ IsFiniteSet(S)
  BY InOrderType
<1>2. /\ DOMAIN InOrder(seq, S) = 1..Cardinality(S)
      /\ \A p \in S : InOrder(seq, S)[Place(S, p)] = seq[p]
      /\ \A k \in 1..Cardinality(S) : \E p \in S : InOrder(seq, S)[k] = seq[p]
  BY <1>1, InOrderLists
<1>3. \A p \in S : Place(S, p) \in 1..Cardinality(S)
  BY <1>1, Places
<1>4. ASSUME NEW x \in Range(InOrder(seq, S)) PROVE x \in {seq[n] : n \in S}
  <2>1. PICK k \in 1..Cardinality(S) : x = InOrder(seq, S)[k]
    BY <1>2 DEF Range
  <2> QED
    BY <1>2, <2>1
<1>5. ASSUME NEW p \in S PROVE seq[p] \in Range(InOrder(seq, S))
  <2>1. Place(S, p) \in DOMAIN InOrder(seq, S)
    BY <1>2, <1>3
  <2> QED
    BY <1>2, <2>1 DEF Range
<1> QED
  BY <1>4, <1>5

\* An accepted command line: no value is spelled like an option of the command, no option
\* is unknown, and no word is too many.
LEMMA Accepted ==
  ASSUME NEW c, NEW a \in Seq(STRING), ~Throws(c, a)
  PROVE  /\ \A n \in DOMAIN a : IsValue(c, a)[n] => Named(c, a[n]) = {}
         /\ \A n \in DOMAIN a : ~IsValue(c, a)[n] /\ a[n] \in Dashed => Named(c, a[n]) # {}
         /\ \A n \in WordsOf(c, a) : PositionalName(c, Place(WordsOf(c, a), n)) # NotGiven
  BY DEF Throws

\* On such a line, what follows an option for a file is a value of it.
LEMMA ValueFollows ==
  ASSUME NEW c \in DOMAIN Options, NEW a \in Seq(STRING), ~Throws(c, a),
         NEW n \in 1..Len(a), n > 1, NEW name \in (Reading \cup Writing) \cap DOMAIN Options[c],
         a[n - 1] \in Options[c][name].texts
  PROVE  IsValue(c, a)[n] /\ n \in GivenTo(name, c, a)
<1>1. name \in Named(c, a[n - 1])
  BY DEF Named
<1>2. Takes(c, a[n - 1])
  BY <1>1, FileOptionsTake DEF Takes
<1>3. n - 1 \in DOMAIN a /\ n \in DOMAIN a /\ n \in 0..(Len(a) + 1)
  OBVIOUS
<1>4. ~IsValue(c, a)[n - 1]
  BY <1>1, <1>3, Accepted
<1>5. IsValue(c, a)[n]
  BY <1>2, <1>3, <1>4, IsValueIs
<1> QED
  BY <1>1, <1>3, <1>5 DEF GivenTo

\* The only word that is an output is the first of combine.
LEMMA WordWritten ==
  ASSUME NEW c \in DOMAIN Options, NEW a \in Seq(STRING), ~Throws(c, a),
         NEW n \in WordsOf(c, a), NEW name \in Writing \cap DOMAIN Options[c],
         name = PositionalName(c, Place(WordsOf(c, a), n))
  PROVE  c = "combine" /\ \A m \in WordsOf(c, a) : ~(m < n)
<1> DEFINE W == WordsOf(c, a)
<1>1. W \in SUBSET DOMAIN a
  BY DEF WordsOf
<1>2. W \in SUBSET Nat /\ IsFiniteSet(W)
  BY <1>1, InOrderType
<1>3. Place(W, n) \in Nat
  BY <1>2, Places
<1>4. PositionalName(c, Place(W, n)) # NotGiven
  BY Accepted
<1>5. c \notin {"cat", "meta"}
  BY OptionsAre DEF Writing
<1> HIDE DEF W
<1>6. c = "combine" /\ Place(W, n) = 1
  <2>1. c # "combine" => PositionalName(c, Place(W, n)) = NotGiven
    BY <1>5 DEF PositionalName
  <2>2. c = "combine" /\ Place(W, n) > 1 => PositionalName(c, Place(W, n)) = "input"
    BY <1>3 DEF PositionalName
  <2>3. name # "input"
    BY DEF Writing
  <2>4. Place(W, n) \in 1..Cardinality(W)
    BY <1>2, Places DEF W
  <2> QED
    BY <1>3, <1>4, <2>1, <2>2, <2>3, <2>4 DEF W
<1>7. ASSUME NEW m \in W, m < n PROVE FALSE
  <2>1. Place(W, m) < Place(W, n) /\ Place(W, m) \in 1..Cardinality(W)
    BY <1>2, <1>7, Places DEF W
  <2> QED
    BY <1>6, <2>1
<1> QED
  BY <1>6, <1>7 DEF W

\* The texts of the options for files, of the command that runs.
LEMMA FileTexts ==
  ASSUME command \in DOMAIN Options
  PROVE  /\ \A text : text \in ToRead <=>
              \E name \in Reading \cap DOMAIN Options[command] : text \in Options[command][name].texts
         /\ \A text : text \in ToWrite <=>
              \E name \in Writing \cap DOMAIN Options[command] : text \in Options[command][name].texts
  BY DEF ToRead, ToWrite, TextsOf, Reading, Writing

\* The values made of a command's own arguments name the files that were typed for them.
LEMMA ValuesAreTyped ==
  ASSUME args \in Seq(STRING), command \in DOMAIN Options, ~Throws(command, args), args = Rest,
         values = ParseArgs(command, args)
  PROVE  FilesAreAsTyped
<1> DEFINE V == IsValue(command, args)
           W == WordsOf(command, args)
           Got(name) == GivenTo(name, command, args)
           names == DOMAIN Options[command]
           read == Range(FilesRead(command, values))
           written == Range(FilesWritten(command, values))
           stdin == \E n \in DOMAIN args : args[n] \in {"--stdin", "--si"}
           After(n, options) == n > 1 /\ args[n - 1] \in options
           IsWord(n) == args[n] \notin Dashed /\ ~After(n, ToRead \cup ToWrite)
<1>1. Len(args) \in Nat /\ DOMAIN args = 1..Len(args)
  OBVIOUS
<1>2. \A name : Got(name) \in SUBSET DOMAIN args
  BY DEF GivenTo
<1>3. /\ values \in [names -> Seq(STRING)]
      /\ \A name \in names : Range(values[name]) = {args[n] : n \in Got(name)}
  <2>1. values = [name \in names |-> InOrder(args, Got(name))]
    BY DEF ParseArgs
  <2>2. \A name \in names : InOrder(args, Got(name)) \in Seq(STRING)
    BY <1>2, InOrderType
  <2>3. \A name \in names : Range(InOrder(args, Got(name))) = {args[n] : n \in Got(name)}
    BY <1>2, RangeInOrder
  <2> HIDE DEF Got, names
  <2> QED
    BY <2>1, <2>2, <2>3
<1>4. written = UNION {Range(values[name]) : name \in Writing \cap names}
  BY <1>3, FilesAreValues
<1>5. ASSUME NEW n \in DOMAIN args, After(n, ToWrite) PROVE args[n] \in written
  <2>1. PICK name \in Writing \cap names : args[n - 1] \in Options[command][name].texts
    BY <1>5, FileTexts
  <2>2. n \in Got(name)
    BY <1>1, <1>5, <2>1, ValueFollows
  <2>3. args[n] \in Range(values[name])
    BY <1>3, <2>1, <2>2
  <2> QED
    BY <1>4, <2>1, <2>3
<1>6. ASSUME NEW n \in DOMAIN args, After(n, ToRead) PROVE args[n] \in read \/ stdin
  <2>1. PICK name \in Reading \cap names : args[n - 1] \in Options[command][name].texts
    BY <1>6, FileTexts
  <2>2. n \in Got(name)
    BY <1>1, <1>6, <2>1, ValueFollows
  <2>3. args[n] \in Range(values[name])
    BY <1>3, <2>1, <2>2
  <2>4. CASE Range(values[name]) = read
    BY <2>3, <2>4
  <2>5. CASE command \in {"extract", "process"} /\ values["stdin"] # <<>>
    <3>1. "stdin" \in names
      BY <2>5, OptionsAre
    <3>2. Got("stdin") # {}
      <4>1. SUFFICES ASSUME Got("stdin") = {} PROVE FALSE
        OBVIOUS
      <4>2. values["stdin"] = InOrder(args, {})
        BY <3>1, <4>1 DEF ParseArgs
      <4>3. InOrder(args, {}) \in Seq(STRING) /\ Len(InOrder(args, {})) = 0
        BY InOrderType, InOrderLists, FS_EmptySet
      <4>4. InOrder(args, {}) = <<>>
        BY <4>3
      <4> QED
        BY <2>5, <4>2, <4>4
    <3>3. PICK k \in Got("stdin") : k \in DOMAIN args
      BY <1>2, <3>2
    <3>4. Options[command]["stdin"].texts = {"--stdin", "--si"}
      BY <2>5, FileOptionsTake
    <3>5. CASE V[k] /\ "stdin" \in Named(command, args[k - 1])
      <4>1. args[k - 1] \in {"--stdin", "--si"}
        BY <3>4, <3>5 DEF Named
      <4>2. k > 1
        BY <1>1, <3>3, <3>5, IsValueIs
      <4>3. k - 1 \in DOMAIN args
        BY <1>1, <3>3, <4>2
      <4> QED
        BY <4>1, <4>3
    <3>6. CASE "stdin" \in Named(command, args[k])
      BY <3>3, <3>4, <3>6 DEF Named
    <3>7. CASE k \in W
      <4>1. PositionalName(command, Place(W, k)) = NotGiven
        BY <2>5 DEF PositionalName
      <4> QED
        BY <3>7, <4>1, Accepted
    <3> QED
      BY <3>3, <3>5, <3>6, <3>7 DEF GivenTo
  <2> HIDE DEF read
  <2>6. Range(values[name]) = read \/ (command \in {"extract", "process"} /\ values["stdin"] # <<>>)
    BY <1>3, <2>1, FilesAreValues DEF read
  <2> QED
    BY <2>4, <2>5, <2>6
<1>7. ASSUME NEW file \in written
      PROVE  \E n \in DOMAIN args :
               /\ args[n] = file
               /\ \/ After(n, ToWrite)
                  \/ command = "combine" /\ IsWord(n) /\ \A m \in 1..(n - 1) : ~IsWord(m)
  <2>1. PICK name \in Writing \cap names : file \in Range(values[name])
    BY <1>4
  <2>2. PICK n \in Got(name) : args[n] = file
    BY <1>3, <2>1
  <2>3. n \in DOMAIN args
    BY <1>2
  <2>4. Options[command][name].takes = TRUE
    BY <2>1, FileOptionsTake
  <2>5. CASE V[n] /\ name \in Named(command, args[n - 1])
    <3>1. n > 1
      BY <1>1, <2>3, <2>5, IsValueIs
    <3>2. args[n - 1] \in ToWrite
      BY <2>1, <2>5, FileTexts DEF Named
    <3> QED
      BY <2>2, <2>3, <3>1, <3>2
  <2>6. CASE ~Takes(command, args[n]) /\ name \in Named(command, args[n])
    BY <2>4, <2>6 DEF Takes
  <2>7. CASE n \in W /\ name = PositionalName(command, Place(W, n))
    <3>1. command = "combine" /\ \A m \in W : ~(m < n)
      BY <2>1, <2>7, WordWritten
    <3>2. ~V[n] /\ args[n] \notin Dashed
      BY <2>7 DEF WordsOf
    <3>3. ~After(n, ToRead \cup ToWrite)
      <4>1. SUFFICES ASSUME n > 1, args[n - 1] \in ToRead \cup ToWrite PROVE FALSE
        OBVIOUS
      <4>2. PICK other \in (Reading \cup Writing) \cap names :
              args[n - 1] \in Options[command][other].texts
        BY <4>1, FileTexts
      <4> QED
        BY <1>1, <2>3, <3>2, <4>1, <4>2, ValueFollows
    <3>4. ASSUME NEW m \in 1..(n - 1), IsWord(m) PROVE FALSE
      <4>1. m \in DOMAIN args /\ m < n
        BY <1>1, <2>3
      <4>2. ~(m \in W)
        BY <3>1, <4>1
      <4>3. V[m]
        BY <3>4, <4>1, <4>2 DEF WordsOf
      <4>4. m > 1 /\ Takes(command, args[m - 1])
        BY <1>1, <4>1, <4>3, IsValueIs
      <4>5. PICK other \in names : args[m - 1] \in Options[command][other].texts
        BY <4>4 DEF Takes, Named
      <4>6. other \in Reading \cup Writing
        BY <3>1, OptionsAre DEF Reading, Writing
      <4>7. args[m - 1] \in ToRead \cup ToWrite
        BY <4>5, <4>6, FileTexts
      <4> QED
        BY <3>4, <4>4, <4>7
    <3> QED
      BY <2>2, <2>3, <3>1, <3>2, <3>3, <3>4
  <2> QED
    BY <2>5, <2>6, <2>7 DEF GivenTo
<1> HIDE DEF read, written
<1>8. FilesAreAsTyped
  BY <1>5, <1>6, <1>7 DEF FilesAreAsTyped, read, written
<1> QED
  BY <1>8

-----------------------------------------------------------------------------
(* The properties.                                                         *)

\* The invariant holds in every state of every execution.
LEMMA CliInvariant == Spec => []CliInv
  BY CliStart, CliStep, PTL DEF Spec

\* The command the user named runs with the words typed for it and the options the
\* front end does not know, in their order, and at the level asked for; the values of
\* --subargs do not reach it.
THEOREM TypedRuns == Spec => []RunsWhatWasTyped
<1>1. CliInv => RunsWhatWasTyped
  BY DEF CliInv
<1> QED
  BY <1>1, CliInvariant, PTL

\* No command runs for a line that asks for help or the version, or names no command; none
\* runs twice; and the exit code tells which it was.
THEOREM OnlyNamedRuns == Spec => []NothingElseRuns
<1>1. CliInv => NothingElseRuns
  BY DEF CliInv
<1> QED
  BY <1>1, CliInvariant, PTL

\* Help of a command is that of the command of the topic named.
THEOREM HelpMatches == Spec => []HelpIsOfTheTopic
<1>1. CliInv => HelpIsOfTheTopic
  BY DEF CliInv
<1> QED
  BY <1>1, CliInvariant, PTL

\* No file is taken for another: what a command reads and truncates is what was typed for it.
THEOREM FilesMatch == Spec => []FilesAreAsTyped
<1>1. CliInv => FilesAreAsTyped
  <2> SUFFICES ASSUME CliInv PROVE FilesAreAsTyped
    OBVIOUS
  <2>1. CASE values = NotGiven
    BY <2>1 DEF FilesAreAsTyped
  <2>2. CASE values # NotGiven
    <3>1. topic \in DOMAIN Topics /\ command \in Topics[topic] /\ args = Rest
            /\ values = ParseArgs(command, args)
      BY <2>2 DEF CliInv, ValuesInv
    <3>2. command \in DOMAIN Options
      BY <3>1, CommandsAre
    <3>3. ~Throws(command, args)
      BY <2>2, <3>1 DEF ParseArgs
    <3>4. args \in Seq(STRING)
      <4>1. Texts \in Seq(STRING)
        BY LineIs DEF CliInv
      <4>2. Positions({"word", "unknown"}) \ NamingPositions \in SUBSET DOMAIN Texts
        BY LineIs DEF CliInv
      <4> QED
        BY <3>1, <4>1, <4>2, InOrderType DEF Rest
    <3> QED
      BY <3>1, <3>2, <3>3, <3>4, ValuesAreTyped
  <2> QED
    BY <2>1, <2>2
<1> QED
  BY <1>1, CliInvariant, PTL
=============================================================================
