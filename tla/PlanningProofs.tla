--------------------------- MODULE PlanningProofs ---------------------------
(***************************************************************************)
(* The planning of versions and the changelog, proved for every history    *)
(* and every interface, any number of commits, releases, edits, notes and  *)
(* pull requests, and all versions, whatever their prereleases spell.      *)
(*                                                                         *)
(* First come the pure parts: precedence is a total order, what is         *)
(* selected moves forward, and a compatible change of an interface breaks  *)
(* no client.  They need no induction: two prereleases are compared at the *)
(* first place where they differ, and there is one.                        *)
(*                                                                         *)
(* PlanningInv has a part for each thing that a plan is compared with.     *)
(* OneVersionEach and HaveHighest make the highest release well defined;   *)
(* OfferInv says what a plan that may still be published was required      *)
(* against; and CompatibleUpgradesBuild is what it is for.  ChangelogInv   *)
(* says of the files of every commit, and of the open proposal, what they  *)
(* tell up to the commit that they were rendered from.                     *)
(***************************************************************************)
EXTENDS Planning, Changelogs, TLAPS, FiniteSetTheorems, SequenceTheorems, WellFoundedInduction

-----------------------------------------------------------------------------
(* A set of numbers that isn't empty has a least one.                       *)
LEMMA LeastNumber ==
  ASSUME NEW S \in SUBSET Nat, S # {}
  PROVE  \E x \in S : \A y \in S : x <= y
<1>1. PICK x \in S : \A y \in S : ~(<<y, x>> \in OpToRel(<, Nat))
  BY NatLessThanWellFounded, WFMin
<1>2. \A y \in S : ~(y < x)
  BY <1>1 DEF OpToRel
<1>3. QED BY <1>2

(* Cores by their most significant difference. *)
LEMMA CoresCompare ==
  ASSUME NEW a \in Cores, NEW b \in Cores
  PROVE  /\ CompareCores(a, b) \in {-1, 0, 1}
         /\ CompareCores(a, b) = 0 <=> a = b
         /\ CompareCores(a, b) = - CompareCores(b, a)
         /\ CompareCores(a, b) = 1 <=>
              \/ a[1] > b[1]
              \/ a[1] = b[1] /\ a[2] > b[2]
              \/ a[1] = b[1] /\ a[2] = b[2] /\ a[3] > b[3]
  BY MaxNumberAssumption DEF Cores, CompareCores, Then, Sign
LEMMA CoresAreOrdered ==
  ASSUME NEW a \in Cores, NEW b \in Cores, NEW c \in Cores,
         CompareCores(a, b) # -1, CompareCores(b, c) # -1
  PROVE  /\ CompareCores(a, c) # -1
         /\ CompareCores(a, c) = 0 => a = b /\ b = c
  BY MaxNumberAssumption DEF Cores, CompareCores, Then, Sign

LEMMA IdentifiersCompare ==
  ASSUME NEW a \in Identifiers, NEW b \in Identifiers
  PROVE  /\ CompareIdentifiers(a, b) \in {-1, 0, 1}
         /\ CompareIdentifiers(a, b) = 0 <=> a = b
         /\ CompareIdentifiers(a, b) = - CompareIdentifiers(b, a)
  BY DEF Identifiers, CompareIdentifiers, Then, Sign
LEMMA IdentifiersAreOrdered ==
  ASSUME NEW a \in Identifiers, NEW b \in Identifiers, NEW c \in Identifiers,
         CompareIdentifiers(a, b) # -1, CompareIdentifiers(b, c) # -1
  PROVE  /\ CompareIdentifiers(a, c) # -1
         /\ CompareIdentifiers(a, c) = 0 => a = b /\ b = c
  BY DEF Identifiers, CompareIdentifiers, Then, Sign

(* The identifiers at the first place where two texts differ decide, or     *)
(* else their lengths.                                                      *)
DiffersFirst(left, right, k) ==
  /\ k \in DOMAIN left /\ k \in DOMAIN right
  /\ left[k] # right[k]
  /\ \A j \in 1 .. k - 1 : left[j] = right[j]
LEMMA TextsCompare ==
  ASSUME NEW left \in Seq(Identifiers), NEW right \in Seq(Identifiers)
  PROVE  \/ \E k \in Nat : /\ DiffersFirst(left, right, k)
                           /\ CompareTexts(left, right) = CompareIdentifiers(left[k], right[k])
         \/ /\ \A k \in DOMAIN left \cap DOMAIN right : left[k] = right[k]
            /\ CompareTexts(left, right) = Sign(Len(left), Len(right))
<1> DEFINE shared == {k \in DOMAIN left : k \in DOMAIN right}
           differs == {k \in shared : left[k] # right[k]}
           first == CHOOSE k \in differs : \A other \in differs : k <= other
<1>1. CompareTexts(left, right) =
        IF differs = {} THEN Sign(Len(left), Len(right))
        ELSE CompareIdentifiers(left[first], right[first])
  BY DEF CompareTexts
<1>2. CASE differs = {}
  BY <1>1, <1>2
<1>3. CASE differs # {}
  <2>1. differs \in SUBSET Nat
    OBVIOUS
  <2>2. \E k \in differs : \A other \in differs : k <= other
    BY <1>3, <2>1, LeastNumber
  <2>3. first \in differs /\ \A other \in differs : first <= other
    BY <2>2
  <2>4. DiffersFirst(left, right, first)
    <3>1. ASSUME NEW j \in 1 .. first - 1 PROVE left[j] = right[j]
      <4>1. j \in shared /\ j \notin differs
        BY <2>3
      <4>2. QED BY <4>1
    <3>2. QED BY <2>3, <3>1 DEF DiffersFirst
  <2>5. QED BY <1>1, <1>3, <2>1, <2>3, <2>4
<1>4. QED BY <1>2, <1>3

LEMMA TextsDifferAt ==
  ASSUME NEW left \in Seq(Identifiers), NEW right \in Seq(Identifiers), NEW k \in Nat,
         DiffersFirst(left, right, k)
  PROVE  CompareTexts(left, right) = CompareIdentifiers(left[k], right[k])
<1>1. \A m \in Nat : DiffersFirst(left, right, m) => m = k
  BY DEF DiffersFirst
<1>2. QED BY <1>1, TextsCompare DEF DiffersFirst
LEMMA TextsAgree ==
  ASSUME NEW left \in Seq(Identifiers), NEW right \in Seq(Identifiers),
         \A k \in DOMAIN left \cap DOMAIN right : left[k] = right[k]
  PROVE  CompareTexts(left, right) = Sign(Len(left), Len(right))
  BY TextsCompare DEF DiffersFirst
LEMMA OfOneLength ==
  ASSUME NEW left \in Seq(Identifiers), NEW right \in Seq(Identifiers),
         \A k \in DOMAIN left \cap DOMAIN right : left[k] = right[k], Len(left) = Len(right)
  PROVE  left = right
  BY SeqEqual

LEMMA TextsCompareBothWays ==
  ASSUME NEW left \in Seq(Identifiers), NEW right \in Seq(Identifiers)
  PROVE  /\ CompareTexts(left, right) \in {-1, 0, 1}
         /\ CompareTexts(left, right) = 0 <=> left = right
         /\ CompareTexts(left, right) = - CompareTexts(right, left)
<1>1. CASE \E k \in Nat : DiffersFirst(left, right, k)
  <2>1. PICK k \in Nat : DiffersFirst(left, right, k)
    BY <1>1
  <2>2. DiffersFirst(right, left, k)
    BY <2>1 DEF DiffersFirst
  <2>3. /\ CompareTexts(left, right) = CompareIdentifiers(left[k], right[k])
        /\ CompareTexts(right, left) = CompareIdentifiers(right[k], left[k])
    BY <2>1, <2>2, TextsDifferAt
  <2>4. left[k] \in Identifiers /\ right[k] \in Identifiers /\ left[k] # right[k]
    BY <2>1 DEF DiffersFirst
  <2>5. QED BY <2>3, <2>4, IdentifiersCompare
<1>2. CASE \A k \in DOMAIN left \cap DOMAIN right : left[k] = right[k]
  <2>1. /\ CompareTexts(left, right) = Sign(Len(left), Len(right))
        /\ CompareTexts(right, left) = Sign(Len(right), Len(left))
    BY <1>2, TextsAgree
  <2>2. Len(left) \in Nat /\ Len(right) \in Nat
    OBVIOUS
  <2>3. Len(left) = Len(right) => left = right
    BY <1>2, OfOneLength
  <2>4. QED BY <2>1, <2>2, <2>3 DEF Sign
<1>3. QED BY <1>1, <1>2, TextsCompare

LEMMA TextsAreOrdered ==
  ASSUME NEW a \in Seq(Identifiers), NEW b \in Seq(Identifiers), NEW c \in Seq(Identifiers),
         CompareTexts(a, b) # -1, CompareTexts(b, c) # -1
  PROVE  /\ CompareTexts(a, c) # -1
         /\ CompareTexts(a, c) = 0 => a = b /\ b = c
<1> Len(a) \in Nat /\ Len(b) \in Nat /\ Len(c) \in Nat
  OBVIOUS
<1>1. CASE a = b \/ b = c
  BY <1>1, TextsCompareBothWays
<1>2. CASE a # b /\ b # c
  <2>1. CompareTexts(a, b) = 1 /\ CompareTexts(b, c) = 1
    BY <1>2, TextsCompareBothWays
  <2>2. CASE \E k \in Nat : DiffersFirst(a, b, k)
    <3>1. PICK k \in Nat : DiffersFirst(a, b, k)
      BY <2>2
    <3>2. /\ CompareIdentifiers(a[k], b[k]) = 1
          /\ a[k] \in Identifiers /\ b[k] \in Identifiers
      BY <2>1, <3>1, TextsDifferAt DEF DiffersFirst
    <3>3. CASE \E m \in Nat : DiffersFirst(b, c, m)
      <4>1. PICK m \in Nat : DiffersFirst(b, c, m)
        BY <3>3
      <4>2. /\ CompareIdentifiers(b[m], c[m]) = 1
            /\ b[m] \in Identifiers /\ c[m] \in Identifiers
        BY <2>1, <4>1, TextsDifferAt DEF DiffersFirst
      <4>3. CASE k < m
        <5>1. DiffersFirst(a, c, k) /\ c[k] = b[k]
          BY <3>1, <4>1, <4>3 DEF DiffersFirst
        <5>2. QED BY <3>2, <5>1, TextsDifferAt
      <4>4. CASE m < k
        <5>1. DiffersFirst(a, c, m) /\ a[m] = b[m]
          BY <3>1, <4>1, <4>4 DEF DiffersFirst
        <5>2. QED BY <4>2, <5>1, TextsDifferAt
      <4>5. CASE m = k
        <5>1. CompareIdentifiers(a[k], c[k]) = 1
          BY <3>2, <4>2, <4>5, IdentifiersCompare, IdentifiersAreOrdered
        <5>2. a[k] # c[k]
          BY <5>1, <3>2, <4>2, <4>5, IdentifiersCompare
        <5>3. DiffersFirst(a, c, k)
          BY <3>1, <4>1, <4>5, <5>2 DEF DiffersFirst
        <5>4. QED BY <5>1, <5>3, TextsDifferAt
      <4>6. QED BY <4>3, <4>4, <4>5
    <3>4. CASE \A m \in DOMAIN b \cap DOMAIN c : b[m] = c[m]
      <4>1. Len(b) > Len(c)
        BY <2>1, <3>4, TextsAgree DEF Sign
      <4>2. CASE k <= Len(c)
        <5>1. DiffersFirst(a, c, k) /\ c[k] = b[k]
          BY <3>1, <3>4, <4>1, <4>2 DEF DiffersFirst
        <5>2. QED BY <3>2, <5>1, TextsDifferAt
      <4>3. CASE k > Len(c)
        <5>1. /\ \A m \in DOMAIN a \cap DOMAIN c : a[m] = c[m]
              /\ Len(a) > Len(c)
          BY <3>1, <3>4, <4>1, <4>3 DEF DiffersFirst
        <5>2. CompareTexts(a, c) = 1
          BY <5>1, TextsAgree DEF Sign
        <5>3. QED BY <5>2
      <4>4. QED BY <3>1, <4>2, <4>3 DEF DiffersFirst
    <3>5. QED BY <3>3, <3>4, TextsCompare
  <2>3. CASE \A k \in DOMAIN a \cap DOMAIN b : a[k] = b[k]
    <3>1. Len(a) > Len(b)
      BY <2>1, <2>3, TextsAgree DEF Sign
    <3>2. CASE \E m \in Nat : DiffersFirst(b, c, m)
      <4>1. PICK m \in Nat : DiffersFirst(b, c, m)
        BY <3>2
      <4>2. DiffersFirst(a, c, m) /\ a[m] = b[m]
        BY <2>3, <3>1, <4>1 DEF DiffersFirst
      <4>3. CompareIdentifiers(b[m], c[m]) = 1
        BY <2>1, <4>1, TextsDifferAt
      <4>4. QED BY <4>2, <4>3, TextsDifferAt
    <3>3. CASE \A m \in DOMAIN b \cap DOMAIN c : b[m] = c[m]
      <4>1. Len(b) > Len(c)
        BY <2>1, <3>3, TextsAgree DEF Sign
      <4>2. /\ \A m \in DOMAIN a \cap DOMAIN c : a[m] = c[m]
            /\ Len(a) > Len(c)
        BY <2>3, <3>1, <3>3, <4>1
      <4>3. CompareTexts(a, c) = 1
        BY <4>2, TextsAgree DEF Sign
      <4>4. QED BY <4>3
    <3>4. QED BY <3>2, <3>3, TextsCompare
  <2>4. QED BY <2>2, <2>3, TextsCompare
<1>3. QED BY <1>1, <1>2

-----------------------------------------------------------------------------
(* Texts by their first identifiers, as far as they have them.              *)
LEMMA TextsByFirst ==
  ASSUME NEW left \in Seq(Identifiers), NEW right \in Seq(Identifiers),
         left # <<>>, right # <<>>, left[1] # right[1]
  PROVE  CompareTexts(left, right) = CompareIdentifiers(left[1], right[1])
<1>1. DiffersFirst(left, right, 1)
  BY DEF DiffersFirst
<1>2. QED BY <1>1, TextsDifferAt
LEMMA TextsBySecond ==
  ASSUME NEW left \in Seq(Identifiers), NEW right \in Seq(Identifiers),
         Len(left) > 1, Len(right) > 1, left[1] = right[1], left[2] # right[2]
  PROVE  CompareTexts(left, right) = CompareIdentifiers(left[2], right[2])
<1>1. DiffersFirst(left, right, 2)
  BY DEF DiffersFirst
<1>2. QED BY <1>1, TextsDifferAt
LEMMA TextsByLength ==
  ASSUME NEW left \in Seq(Identifiers), NEW right \in Seq(Identifiers),
         Len(left) = 2, right # <<>>, left[1] = right[1], Len(right) > 1 => left[2] = right[2]
  PROVE  CompareTexts(left, right) = Sign(2, Len(right))
<1>1. \A k \in DOMAIN left \cap DOMAIN right : left[k] = right[k]
  OBVIOUS
<1>2. QED BY <1>1, TextsAgree

LEMMA ShapeOfTrains ==
  ASSUME NEW pre \in Seq(Identifiers), IsTrain(pre)
  PROVE  /\ Len(pre) = 2 /\ pre # Stable
         /\ \/ pre[1] = <<1, 1>> /\ Rank(pre[1]) = 0
            \/ pre[1] = <<1, 2>> /\ Rank(pre[1]) = 1
            \/ pre[1] = <<1, 4>> /\ Rank(pre[1]) = 2
         /\ pre[2] = <<0, pre[2][2]>> /\ pre[2][2] \in 0 .. MaxNumber
<1>1. Len(pre) = 2 /\ pre[2][1] = 0 /\ pre[2][2] <= MaxNumber /\ Rank(pre[1]) # Unknown
  BY DEF IsTrain, Numbered
<1>2. pre[2] \in Identifiers
  <2>1. 2 \in DOMAIN pre
    BY <1>1
  <2>2. QED BY <2>1
<1>3. /\ \/ pre[1] = <<1, 1>> /\ Rank(pre[1]) = 0
         \/ pre[1] = <<1, 2>> /\ Rank(pre[1]) = 1
         \/ pre[1] = <<1, 4>> /\ Rank(pre[1]) = 2
  BY <1>1 DEF Rank, Label, Ascii, Unknown
<1>4. pre[2] = <<0, pre[2][2]>> /\ pre[2][2] \in Nat
  BY <1>1, <1>2 DEF Identifiers
<1>5. QED BY <1>1, <1>3, <1>4, MaxNumberAssumption DEF Stable

LEMMA TrainsCompare ==
  ASSUME NEW left \in Seq(Identifiers), NEW right \in Seq(Identifiers),
         IsTrain(left), IsTrain(right)
  PROVE  Then(Sign(Rank(left[1]), Rank(right[1])), Sign(left[2][2], right[2][2]))
           = CompareTexts(left, right)
<1>1. Len(left) = 2 /\ Len(right) = 2 /\ left # <<>> /\ right # <<>>
  BY ShapeOfTrains
<1>2. CASE left[1] # right[1]
  <2>1. CompareTexts(left, right) = CompareIdentifiers(left[1], right[1])
    BY <1>1, <1>2, TextsByFirst
  <2>2. /\ CompareIdentifiers(left[1], right[1]) = Sign(Rank(left[1]), Rank(right[1]))
        /\ Sign(Rank(left[1]), Rank(right[1])) # 0
    <3>1. ASSUME NEW m \in {1, 2, 4}, NEW n \in {1, 2, 4}
          PROVE  CompareIdentifiers(<<1, m>>, <<1, n>>) = Sign(m, n)
      BY DEF CompareIdentifiers, Then, Sign
    <3>2. /\ \/ left[1] = <<1, 1>> /\ Rank(left[1]) = 0
             \/ left[1] = <<1, 2>> /\ Rank(left[1]) = 1
             \/ left[1] = <<1, 4>> /\ Rank(left[1]) = 2
          /\ \/ right[1] = <<1, 1>> /\ Rank(right[1]) = 0
             \/ right[1] = <<1, 2>> /\ Rank(right[1]) = 1
             \/ right[1] = <<1, 4>> /\ Rank(right[1]) = 2
      BY ShapeOfTrains
    <3>3. PICK m \in {1, 2, 4}, n \in {1, 2, 4} :
            /\ left[1] = <<1, m>> /\ Rank(left[1]) = IF m = 4 THEN 2 ELSE m - 1
            /\ right[1] = <<1, n>> /\ Rank(right[1]) = IF n = 4 THEN 2 ELSE n - 1
      BY <3>2
    <3>4. m # n /\ CompareIdentifiers(left[1], right[1]) = Sign(m, n)
      BY <1>2, <3>1, <3>3
    <3>5. Sign(Rank(left[1]), Rank(right[1])) = Sign(m, n) /\ Sign(m, n) # 0
      BY <3>3, <3>4 DEF Sign
    <3>6. QED BY <3>4, <3>5
  <2>3. QED BY <2>1, <2>2 DEF Then
<1>3. CASE left[1] = right[1] /\ left[2] # right[2]
  <2>1. CompareTexts(left, right) = CompareIdentifiers(left[2], right[2])
    BY <1>1, <1>3, TextsBySecond
  <2>2. left[2] = <<0, left[2][2]>> /\ right[2] = <<0, right[2][2]>>
        /\ Rank(left[1]) \in Int /\ Rank(left[1]) = Rank(right[1])
    BY <1>3, ShapeOfTrains
  <2>3. CompareIdentifiers(left[2], right[2]) = Sign(left[2][2], right[2][2])
    BY <2>2 DEF CompareIdentifiers, Then, Sign
  <2>4. QED BY <2>1, <2>2, <2>3 DEF Then, Sign
<1>4. CASE left[1] = right[1] /\ left[2] = right[2]
  <2>1. CompareTexts(left, right) = Sign(2, 2)
    BY <1>1, <1>4, TextsByLength
  <2>2. Rank(left[1]) \in Int /\ left[2][2] \in Int
    BY ShapeOfTrains
  <2>3. QED BY <1>4, <2>1, <2>2 DEF Then, Sign
<1>5. QED BY <1>2, <1>3, <1>4

LEMMA TrainAgainstTextCompares ==
  ASSUME NEW train \in Seq(Identifiers), NEW text \in Seq(Identifiers),
         IsTrain(train), ~IsTrain(text), text # Stable
  PROVE  TrainAgainstText(train, text) = CompareTexts(train, text)
<1> DEFINE byLabel == IF text[1][1] = 1 THEN Sign(train[1][2], text[1][2]) ELSE 1
           byNumber ==
             CASE Len(text) = 1 -> 1
               [] Len(text) > 1 /\ text[2][1] = 1 -> -1
               [] OTHER -> IF text[2][2] > MaxNumber THEN -1
                           ELSE Sign(train[2][2], text[2][2])
<1> HIDE DEF byLabel, byNumber
<1>1. TrainAgainstText(train, text)
        = Then(byLabel, Then(byNumber, IF Len(text) > 2 THEN -1 ELSE 0))
  BY DEF TrainAgainstText, byLabel, byNumber
<1>2. /\ Len(train) = 2 /\ train # <<>> /\ text # <<>>
      /\ train[1] = <<1, train[1][2]>> /\ train[1][2] \in Nat
      /\ train[2] = <<0, train[2][2]>> /\ train[2][2] \in 0 .. MaxNumber
  BY ShapeOfTrains DEF Stable
<1>3. Len(text) \in Nat /\ Len(text) > 0 /\ text[1] \in Identifiers
  BY <1>2
<1>4. text[1] = <<text[1][1], text[1][2]>> /\ text[1][1] \in {0, 1} /\ text[1][2] \in Nat
  BY <1>3 DEF Identifiers
<1>5. CASE train[1] # text[1]
  <2>1. CompareTexts(train, text) = CompareIdentifiers(train[1], text[1])
    BY <1>2, <1>5, TextsByFirst
  <2>2. text[1][1] = 1 => text[1][2] # train[1][2]
    BY <1>2, <1>4, <1>5
  <2>3. CompareIdentifiers(train[1], text[1]) = byLabel /\ byLabel # 0
    BY <1>2, <1>4, <2>2 DEF CompareIdentifiers, Then, Sign, byLabel
  <2>4. QED BY <1>1, <2>1, <2>3 DEF Then
<1>6. CASE train[1] = text[1]
  <2>1. byLabel = 0
    BY <1>2, <1>6 DEF byLabel, Sign
  <2>2. TrainAgainstText(train, text) = Then(byNumber, IF Len(text) > 2 THEN -1 ELSE 0)
    BY <1>1, <2>1 DEF Then
  <2>3. CASE Len(text) = 1
    <3>1. CompareTexts(train, text) = Sign(2, 1)
      BY <1>2, <1>6, <2>3, TextsByLength
    <3>2. byNumber = 1
      BY <2>3 DEF byNumber
    <3>3. QED BY <2>2, <3>1, <3>2 DEF Then, Sign
  <2>4. CASE Len(text) > 1
    <3>1. text[2] \in Identifiers
      BY <2>4
    <3>2. text[2] = <<text[2][1], text[2][2]>> /\ text[2][1] \in {0, 1} /\ text[2][2] \in Nat
      BY <3>1 DEF Identifiers
    <3>3. CASE train[2] # text[2]
      <4>1. CompareTexts(train, text) = CompareIdentifiers(train[2], text[2])
        BY <1>2, <1>6, <2>4, <3>3, TextsBySecond
      <4>2. text[2][1] = 0 => text[2][2] # train[2][2]
        BY <1>2, <3>2, <3>3
      <4>3. CASE text[2][1] = 1
        <5>1. byNumber = -1
          BY <1>3, <2>4, <4>3 DEF byNumber
        <5>2. CompareIdentifiers(train[2], text[2]) = -1
          BY <1>2, <3>2, <4>3 DEF CompareIdentifiers, Then, Sign
        <5>3. QED BY <2>2, <4>1, <5>1, <5>2 DEF Then
      <4>4. CASE text[2][1] = 0
        <5>1. byNumber = IF text[2][2] > MaxNumber THEN -1 ELSE Sign(train[2][2], text[2][2])
          BY <1>3, <2>4, <4>4 DEF byNumber
        <5>2. CompareIdentifiers(train[2], text[2]) = Sign(train[2][2], text[2][2])
          BY <1>2, <3>2, <4>4 DEF CompareIdentifiers, Then, Sign
        <5>3. byNumber = Sign(train[2][2], text[2][2]) /\ byNumber # 0
          BY <1>2, <3>2, <4>2, <4>4, <5>1, MaxNumberAssumption DEF Sign
        <5>4. QED BY <2>2, <4>1, <5>2, <5>3 DEF Then
      <4>5. QED BY <3>2, <4>3, <4>4
    <3>4. CASE train[2] = text[2]
      <4>1. CompareTexts(train, text) = Sign(2, Len(text))
        BY <1>2, <1>6, <3>4, TextsByLength
      <4>2. Len(text) # 2
        BY <1>2, <1>6, <3>4 DEF IsTrain, Numbered
      <4>3. byNumber = 0
        BY <1>2, <1>3, <2>4, <3>4, MaxNumberAssumption DEF byNumber, Sign
      <4>4. QED BY <1>3, <2>2, <2>4, <4>1, <4>2, <4>3 DEF Then, Sign
    <3>5. QED BY <3>3, <3>4
  <2>5. QED BY <1>3, <2>3, <2>4
<1>7. QED BY <1>5, <1>6

(* The comparison of prereleases is that of semantic versioning: a train is *)
(* compared by its rank and number only where that makes no difference      *)
(* (compare_prereleases, precedence.rs).                                    *)
LEMMA PrereleasesCompare ==
  ASSUME NEW left \in Seq(Identifiers), NEW right \in Seq(Identifiers)
  PROVE  ComparePrereleases(left, right) =
           IF left = Stable THEN IF right = Stable THEN 0 ELSE 1
           ELSE IF right = Stable THEN -1 ELSE CompareTexts(left, right)
<1>1. CASE left = Stable \/ right = Stable
  <2>1. ~IsTrain(Stable)
    BY DEF IsTrain, Numbered, Stable
  <2>2. CASE left = Stable /\ right = Stable
    BY <2>1, <2>2 DEF ComparePrereleases
  <2>3. CASE left = Stable /\ right # Stable
    BY <2>1, <2>3 DEF ComparePrereleases
  <2>4. CASE left # Stable /\ right = Stable
    BY <2>1, <2>4 DEF ComparePrereleases
  <2>5. QED BY <1>1, <2>2, <2>3, <2>4
<1>2. CASE left # Stable /\ right # Stable
  <2>1. CASE IsTrain(left) /\ IsTrain(right)
    BY <1>2, <2>1, TrainsCompare DEF ComparePrereleases
  <2>2. CASE IsTrain(left) /\ ~IsTrain(right)
    BY <1>2, <2>2, TrainAgainstTextCompares DEF ComparePrereleases
  <2>3. CASE ~IsTrain(left) /\ IsTrain(right)
    <3>1. ComparePrereleases(left, right) = - CompareTexts(right, left)
      BY <1>2, <2>3, TrainAgainstTextCompares DEF ComparePrereleases
    <3>2. QED BY <1>2, <3>1, TextsCompareBothWays
  <2>4. CASE ~IsTrain(left) /\ ~IsTrain(right)
    BY <1>2, <2>4 DEF ComparePrereleases
  <2>5. QED BY <2>1, <2>2, <2>3, <2>4
<1>3. QED BY <1>1, <1>2

LEMMA PrereleasesAreOrdered ==
  ASSUME NEW a \in Seq(Identifiers), NEW b \in Seq(Identifiers), NEW c \in Seq(Identifiers)
  PROVE  /\ ComparePrereleases(a, b) \in {-1, 0, 1}
         /\ ComparePrereleases(a, b) = 0 <=> a = b
         /\ ComparePrereleases(a, b) = - ComparePrereleases(b, a)
         /\ ComparePrereleases(a, b) # -1 /\ ComparePrereleases(b, c) # -1
              => /\ ComparePrereleases(a, c) # -1
                 /\ ComparePrereleases(a, c) = 0 => a = b /\ b = c
<1>1. /\ ComparePrereleases(a, b) \in {-1, 0, 1}
      /\ ComparePrereleases(a, b) = 0 <=> a = b
      /\ ComparePrereleases(a, b) = - ComparePrereleases(b, a)
  BY PrereleasesCompare, TextsCompareBothWays
<1>2. ASSUME ComparePrereleases(a, b) # -1, ComparePrereleases(b, c) # -1
      PROVE  /\ ComparePrereleases(a, c) # -1
             /\ ComparePrereleases(a, c) = 0 => a = b /\ b = c
  <2>1. CASE a = Stable \/ b = Stable \/ c = Stable
    BY <1>2, <2>1, PrereleasesCompare
  <2>2. CASE a # Stable /\ b # Stable /\ c # Stable
    BY <1>2, <2>2, PrereleasesCompare, TextsAreOrdered
  <2>3. QED BY <2>1, <2>2
<1>3. QED BY <1>1, <1>2

(* Precedence is a total order of versions without build metadata, whatever *)
(* their prereleases spell (compare, precedence.rs).                        *)
THEOREM PrecedenceIsTotal ==
  \A a, b, c \in ValidVersions :
    /\ Compare(a, b) \in {-1, 0, 1}
    /\ Compare(a, b) = 0 <=> a = b
    /\ Compare(a, b) = - Compare(b, a)
    /\ Compare(a, b) # -1 /\ Compare(b, c) # -1
         => Compare(a, c) # -1 /\ (Compare(a, c) = 0 => a = b /\ b = c)
<1> SUFFICES ASSUME NEW a \in ValidVersions, NEW b \in ValidVersions, NEW c \in ValidVersions
    PROVE /\ Compare(a, b) \in {-1, 0, 1}
          /\ Compare(a, b) = 0 <=> a = b
          /\ Compare(a, b) = - Compare(b, a)
          /\ Compare(a, b) # -1 /\ Compare(b, c) # -1
               => Compare(a, c) # -1 /\ (Compare(a, c) = 0 => a = b /\ b = c)
  OBVIOUS
<1>1. /\ a.core \in Cores /\ b.core \in Cores /\ c.core \in Cores
      /\ a.pre \in Seq(Identifiers) /\ b.pre \in Seq(Identifiers) /\ c.pre \in Seq(Identifiers)
      /\ a = b <=> a.core = b.core /\ a.pre = b.pre
      /\ b = c <=> b.core = c.core /\ b.pre = c.pre
  BY DEF ValidVersions
<1>2. /\ Compare(a, b) \in {-1, 0, 1}
      /\ Compare(a, b) = 0 <=> a = b
      /\ Compare(a, b) = - Compare(b, a)
  BY <1>1, CoresCompare, PrereleasesAreOrdered DEF Compare, Then
<1>3. ASSUME Compare(a, b) # -1, Compare(b, c) # -1
      PROVE  Compare(a, c) # -1 /\ (Compare(a, c) = 0 => a = b /\ b = c)
  <2>1. CompareCores(a.core, b.core) # -1 /\ CompareCores(b.core, c.core) # -1
    BY <1>1, <1>3, CoresCompare DEF Compare, Then
  <2>2. CompareCores(a.core, c.core) # -1
        /\ (CompareCores(a.core, c.core) = 0 => a.core = b.core /\ b.core = c.core)
    BY <1>1, <2>1, CoresAreOrdered
  <2>3. CASE CompareCores(a.core, c.core) = 0
    <3>1. ComparePrereleases(a.pre, b.pre) # -1 /\ ComparePrereleases(b.pre, c.pre) # -1
      BY <1>1, <1>3, <2>2, <2>3, CoresCompare DEF Compare, Then
    <3>2. QED BY <1>1, <2>2, <2>3, <3>1, PrereleasesAreOrdered DEF Compare, Then
  <2>4. CASE CompareCores(a.core, c.core) # 0
    BY <1>1, <2>2, <2>4, CoresCompare DEF Compare, Then
  <2>5. QED BY <2>3, <2>4
<1>4. QED BY <1>2, <1>3

LEMMA FollowingIsTransitive ==
  ASSUME NEW a \in ValidVersions, NEW b \in ValidVersions, NEW c \in ValidVersions,
         Follows(a, b), ~Follows(c, b)
  PROVE  Follows(a, c)
  BY PrecedenceIsTotal DEF Follows
LEMMA FollowersHaveHigherCores ==
  ASSUME NEW a \in ValidVersions, NEW b \in ValidVersions, ~Follows(b, a)
  PROVE  CompareCores(a.core, b.core) # -1
<1>1. a.core \in Cores /\ b.core \in Cores
  BY DEF ValidVersions
<1>2. QED BY <1>1, CoresCompare DEF Follows, Compare, Then

-----------------------------------------------------------------------------
(* A step never wraps: it is a higher core, or there is none.              *)
LEMMA BumpedCores ==
  ASSUME NEW core \in Cores, NEW bump \in Bump, Bumped(core, bump) # Overflow
  PROVE  /\ Bumped(core, bump) \in Cores
         /\ CompareCores(Bumped(core, bump), core) # -1
         /\ bump = "minor" => Bumped(core, bump) = <<core[1], core[2] + 1, 0>>
         /\ bump = "major" => Bumped(core, bump) = <<core[1] + 1, 0, 0>>
<1>1. /\ core = <<core[1], core[2], core[3]>>
      /\ core[1] \in 0 .. MaxNumber /\ core[2] \in 0 .. MaxNumber /\ core[3] \in 0 .. MaxNumber
  BY DEF Cores
<1> DEFINE stepped ==
        CASE bump = "none"  -> core
          [] bump = "patch" -> <<core[1], core[2], Increment(core[3])>>
          [] bump = "minor" -> <<core[1], Increment(core[2]), 0>>
          [] OTHER          -> <<Increment(core[1]), 0, 0>>
<1>2. /\ \A part \in 1 .. 3 : stepped[part] # Exhausted
      /\ Bumped(core, bump) = stepped
  BY DEF Bumped
<1>3. ASSUME NEW number \in 0 .. MaxNumber, Increment(number) # Exhausted
      PROVE  Increment(number) = number + 1 /\ number + 1 \in 0 .. MaxNumber
  BY <1>3, MaxNumberAssumption DEF Increment, Exhausted
<1>4. CASE bump = "none"
  <2>1. Bumped(core, bump) = core
    BY <1>2, <1>4
  <2>2. QED BY <1>4, <2>1, CoresCompare
<1>5. CASE bump = "patch"
  <2>1. stepped = <<core[1], core[2], Increment(core[3])>>
    BY <1>5
  <2>2. Increment(core[3]) = core[3] + 1 /\ core[3] + 1 \in 0 .. MaxNumber
    BY <1>1, <1>2, <1>3, <2>1
  <2>3. Bumped(core, bump) = <<core[1], core[2], core[3] + 1>>
    BY <1>2, <2>1, <2>2
  <2>4. QED BY <1>1, <1>5, <2>2, <2>3, MaxNumberAssumption DEF Cores, CompareCores, Then, Sign
<1>6. CASE bump = "minor"
  <2>1. stepped = <<core[1], Increment(core[2]), 0>>
    BY <1>6
  <2>2. Increment(core[2]) = core[2] + 1 /\ core[2] + 1 \in 0 .. MaxNumber
    BY <1>1, <1>2, <1>3, <2>1
  <2>3. Bumped(core, bump) = <<core[1], core[2] + 1, 0>>
    BY <1>2, <2>1, <2>2
  <2>4. QED BY <1>1, <1>6, <2>2, <2>3, MaxNumberAssumption DEF Cores, CompareCores, Then, Sign
<1>7. CASE bump = "major"
  <2>1. stepped = <<Increment(core[1]), 0, 0>>
    BY <1>7
  <2>2. Increment(core[1]) = core[1] + 1 /\ core[1] + 1 \in 0 .. MaxNumber
    BY <1>1, <1>2, <1>3, <2>1
  <2>3. Bumped(core, bump) = <<core[1] + 1, 0, 0>>
    BY <1>2, <2>1, <2>2
  <2>4. QED BY <1>1, <1>7, <2>2, <2>3, MaxNumberAssumption DEF Cores, CompareCores, Then, Sign
<1>8. QED BY <1>4, <1>5, <1>6, <1>7 DEF Bump

OneOrNone(S) == {{}} \cup {{one} : one \in S}
LEMMA TheOnlyOne ==
  ASSUME NEW S, NEW some \in OneOrNone(S), some # {}
  PROVE  /\ (CHOOSE one \in some : TRUE) \in S
         /\ some = {CHOOSE one \in some : TRUE}
<1>1. PICK one \in S : some = {one}
  BY DEF OneOrNone
<1>2. (CHOOSE it \in some : TRUE) = one
  BY <1>1
<1>3. QED BY <1>1, <1>2

(* A train goes on from the published version, with numbers that fit, and   *)
(* back to an earlier channel only onto a higher core that was asked for.   *)
WouldMoveBack(prior, channel) ==
  Numbered(prior.pre) /\ Rank(Label(channel)) < Rank(prior.pre[1])
LEMMA TrainsAreWritten ==
  ASSUME NEW core \in Cores, NEW channel \in Channel, NEW number \in Nat
  PROVE  Version(core, Train(channel, number)) \in ValidVersions
<1>1. Label(channel) \in Identifiers
  BY DEF Identifiers, Label, Ascii, Channel
<1>2. Digits(number) \in Identifiers
  BY DEF Digits, Identifiers
<1>3. Train(channel, number) \in Seq(Identifiers)
  BY <1>1, <1>2 DEF Train
<1>4. QED BY <1>3 DEF Version, ValidVersions
LEMMA TrainsAreValid ==
  ASSUME NEW prior \in ValidVersions, NEW aim \in Cores, NEW channel \in Channel,
         TrainNumber(prior, aim, channel) # Exhausted
  PROVE  Version(aim, Train(channel, TrainNumber(prior, aim, channel))) \in ValidVersions
<1>1. TrainNumber(prior, aim, channel) \in Nat
  <2>1. CASE Numbered(prior.pre)
    <3>1. Len(prior.pre) = 2 /\ prior.pre \in Seq(Identifiers)
      BY <2>1 DEF Numbered, ValidVersions
    <3>2. 2 \in DOMAIN prior.pre
      BY <3>1
    <3>3. prior.pre[2] \in Identifiers
      BY <3>1, <3>2
    <3>4. prior.pre[2][2] \in Nat
      BY <3>3 DEF Identifiers
    <3>5. QED BY <3>4 DEF TrainNumber, Increment, Exhausted
  <2>2. CASE ~Numbered(prior.pre)
    BY <2>2 DEF TrainNumber
  <2>3. QED BY <2>1, <2>2
<1>2. QED BY <1>1, TrainsAreWritten
LEMMA TrainsMoveForward ==
  ASSUME NEW prior \in ValidVersions, NEW aim \in Cores, NEW channel \in Channel,
         NEW asked \in BOOLEAN, NextPrerelease(prior, aim, channel, asked).ok
  PROVE  LET next == NextPrerelease(prior, aim, channel, asked).version
         IN /\ next \in ValidVersions /\ next.core = aim
            /\ Follows(next, prior)
            /\ WouldMoveBack(prior, channel) => CoreFollows(aim, prior.core) /\ asked
<1> DEFINE next == Version(aim, Train(channel, TrainNumber(prior, aim, channel)))
<1> HIDE DEF next
<1>1. prior.core \in Cores
  BY DEF ValidVersions
<1>2. /\ ~CoreFollows(prior.core, aim)
      /\ WouldMoveBack(prior, channel) => aim # prior.core
      /\ WouldMoveBack(prior, channel) /\ CoreFollows(aim, prior.core) => asked
      /\ NextPrerelease(prior, aim, channel, asked) = JoinTrain(prior, next)
  <2> DEFINE back == Numbered(prior.pre) /\ MovesBack(prior.pre[1], channel)
  <2>1. back <=> WouldMoveBack(prior, channel)
    BY DEF WouldMoveBack, MovesBack
  <2>2. /\ ~CoreFollows(prior.core, aim)
        /\ ~(back /\ aim = prior.core)
        /\ ~(back /\ CoreFollows(aim, prior.core) /\ ~asked)
        /\ NextPrerelease(prior, aim, channel, asked) = JoinTrain(prior, next)
    BY DEF NextPrerelease, Refused, next
  <2>3. QED BY <2>1, <2>2
<1>3. /\ next.pre[2][2] = TrainNumber(prior, aim, channel)
      /\ next.core = aim
  BY DEF next, Version, Train, Digits
<1>4. /\ TrainNumber(prior, aim, channel) # Exhausted
      /\ Follows(next, prior)
      /\ NextPrerelease(prior, aim, channel, asked) = Taken(next)
  BY <1>2, <1>3 DEF JoinTrain, Refused
<1>5. next \in ValidVersions
  BY <1>4, TrainsAreValid DEF next
<1>6. WouldMoveBack(prior, channel) => CoreFollows(aim, prior.core)
  BY <1>1, <1>2, CoresCompare DEF CoreFollows
<1>7. QED BY <1>2, <1>3, <1>4, <1>5, <1>6 DEF Taken

(* What the needed step computes is no lower than the step.                 *)
LEMMA ComputedIsEnough ==
  ASSUME NEW prior \in ValidVersions, NEW needed \in Cores,
         NEW explicit \in OneOrNone(ValidVersions), NEW channels \in OneOrNone(Channel),
         Computed(prior, needed, explicit, channels).ok
  PROVE  LET version == Computed(prior, needed, explicit, channels).version
         IN /\ version \in ValidVersions /\ CompareCores(version.core, needed) # -1
            /\ channels # {} => Follows(version, prior)
            /\ \A channel \in channels : WouldMoveBack(prior, channel) =>
                 /\ CoreFollows(version.core, prior.core)
                 /\ \E asked \in explicit : CoreFollows(asked.core, prior.core)
<1> DEFINE cores == {version.core : version \in explicit}
           aim == IF cores = {} THEN needed
                  ELSE HigherCore(CHOOSE core \in cores : TRUE, needed)
           higher == \E core \in cores : CoreFollows(core, prior.core)
           channel == CHOOSE one \in channels : TRUE
<1>1. prior.core \in Cores
  BY DEF ValidVersions
<1>2. aim \in Cores /\ CompareCores(aim, needed) # -1
  <2>1. CASE explicit = {}
    <3>1. cores = {}
      BY <2>1
    <3>2. QED BY <3>1, CoresCompare
  <2>2. CASE explicit # {}
    <3>1. PICK one \in ValidVersions : explicit = {one}
      BY <2>2 DEF OneOrNone
    <3>2. cores = {one.core} /\ one.core \in Cores
      BY <3>1 DEF ValidVersions
    <3>3. (CHOOSE core \in cores : TRUE) = one.core
      BY <3>2
    <3>4. aim = HigherCore(one.core, needed)
      BY <3>2, <3>3
    <3>5. QED BY <3>2, <3>4, CoresCompare DEF HigherCore
  <2>3. QED BY <2>1, <2>2
<1>3. higher \in BOOLEAN /\ (higher => \E asked \in explicit : CoreFollows(asked.core, prior.core))
  OBVIOUS
<1>4. CASE channels = {}
  <2>1. Computed(prior, needed, explicit, channels)
          = Taken(Version(HigherCore(prior.core, needed), Stable))
    BY <1>4 DEF Computed
  <2>2. /\ HigherCore(prior.core, needed) \in Cores
        /\ CompareCores(HigherCore(prior.core, needed), needed) # -1
    BY <1>1, CoresCompare DEF HigherCore
  <2>3. Stable \in Seq(Identifiers)
    BY DEF Stable
  <2>4. QED BY <1>4, <2>1, <2>2, <2>3 DEF Taken, Version, ValidVersions
<1>5. CASE channels # {}
  <2>1. channel \in Channel /\ channels = {channel}
    BY <1>5, TheOnlyOne
  <2>2. Computed(prior, needed, explicit, channels)
          = NextPrerelease(prior, aim, channel, higher)
    BY <1>5 DEF Computed
  <2> HIDE DEF aim, higher, channel
  <2>3. LET next == NextPrerelease(prior, aim, channel, higher).version
        IN /\ next \in ValidVersions /\ next.core = aim
           /\ Follows(next, prior)
           /\ WouldMoveBack(prior, channel) => CoreFollows(aim, prior.core) /\ higher
    BY <1>2, <1>3, <2>1, <2>2, TrainsMoveForward
  <2>4. QED BY <1>2, <1>3, <2>1, <2>2, <2>3
<1>6. QED BY <1>4, <1>5

LEMMA ExplicitIsEnough ==
  ASSUME NEW prior \in ValidVersions, NEW needed \in Cores,
         NEW asked \in ValidVersions, NEW channels \in OneOrNone(Channel),
         Follows(asked, prior),
         NEW computed, computed.ok, computed.version \in ValidVersions,
         CompareCores(computed.version.core, needed) # -1,
         \A channel \in channels : WouldMoveBack(prior, channel) =>
           CoreFollows(asked.core, prior.core),
         Explicit(prior, computed, asked, channels).ok
  PROVE  LET version == Explicit(prior, computed, asked, channels).version
         IN /\ version \in ValidVersions /\ Follows(version, prior)
            /\ version.core = asked.core
            /\ CompareCores(version.core, needed) # -1
<1> DEFINE channel == CHOOSE one \in channels : TRUE
           higher == CoreFollows(asked.core, prior.core)
           restarts == channels # {} /\ asked.pre = Stable
           choice == IF restarts THEN NextPrerelease(prior, asked.core, channel, higher)
                     ELSE Taken(asked)
<1>1. /\ asked.core \in Cores /\ computed.version.core \in Cores
      /\ higher \in BOOLEAN /\ restarts \in BOOLEAN
  BY DEF ValidVersions, CoreFollows
<1>2. Explicit(prior, computed, asked, channels)
        = ChooseExplicit(prior, computed, choice, restarts)
  BY DEF Explicit, Refused
<1>3. choice.ok => choice.version \in ValidVersions /\ choice.version.core = asked.core
                   /\ Follows(choice.version, prior)
  <2>1. CASE restarts
    <3>1. channel \in Channel
      BY <2>1, TheOnlyOne
    <3>2. choice = NextPrerelease(prior, asked.core, channel, higher)
      BY <2>1
    <3> HIDE DEF channel, higher, restarts, choice
    <3>3. QED BY <1>1, <3>1, <3>2, TrainsMoveForward
  <2>2. CASE ~restarts
    BY <2>2 DEF Taken
  <2>3. QED BY <2>1, <2>2
<1> HIDE DEF choice, restarts
<1>4. /\ choice.ok /\ Compare(choice.version, computed.version) # -1
      /\ ChooseExplicit(prior, computed, choice, restarts) = choice
  BY <1>1, <1>2 DEF ChooseExplicit, NotAfter, Refused
<1>5. ~Follows(computed.version, choice.version)
  BY <1>3, <1>4, PrecedenceIsTotal DEF Follows
<1>6. CompareCores(choice.version.core, computed.version.core) # -1
  BY <1>3, <1>4, <1>5, FollowersHaveHigherCores
<1>7. CompareCores(choice.version.core, needed) # -1
  BY <1>1, <1>3, <1>4, <1>6, CoresAreOrdered
<1>8. QED BY <1>2, <1>3, <1>4, <1>7

(* Whatever is selected follows the published version, is no lower than     *)
(* what the step needs, and goes back to an earlier channel only onto a     *)
(* higher core that was asked for (select_version, selection.rs).           *)
THEOREM SelectionMovesForward ==
  ASSUME NEW prior \in ValidVersions, NEW stables \in OneOrNone(Cores), NEW required \in Bump,
         NEW explicits \in OneOrNone(ValidVersions), NEW channels \in OneOrNone(Channel),
         SelectVersion(prior, stables, required, explicits, channels).ok
  PROVE  LET version == SelectVersion(prior, stables, required, explicits, channels).version
             base == IF stables = {} THEN prior.core ELSE CHOOSE core \in stables : TRUE
         IN /\ version \in ValidVersions /\ Follows(version, prior)
            /\ Bumped(base, required) \in Cores
            /\ CompareCores(version.core, Bumped(base, required)) # -1
            /\ \A channel \in channels : WouldMoveBack(prior, channel) =>
                 /\ CoreFollows(version.core, prior.core)
                 /\ \E asked \in explicits : CoreFollows(asked.core, prior.core)
<1> DEFINE base == IF stables = {} THEN prior.core ELSE CHOOSE core \in stables : TRUE
           needed == Bumped(base, required)
           explicit == {version \in explicits : Follows(version, prior)}
           computed == Computed(prior, needed, explicit, channels)
           selected == SelectVersion(prior, stables, required, explicits, channels)
<1>1. prior.core \in Cores /\ base \in Cores
  BY TheOnlyOne DEF ValidVersions
<1> HIDE DEF base
<1>2. /\ needed # Overflow
      /\ selected = Select(prior, computed, explicit, channels)
  BY DEF SelectVersion, SelectFor, Refused, base
<1>3. needed \in Cores
  BY <1>1, <1>2, BumpedCores
<1>4. explicit \in OneOrNone(ValidVersions)
  <2>1. CASE explicit = {}
    BY <2>1 DEF OneOrNone
  <2>2. CASE explicit # {}
    <3>1. PICK one \in ValidVersions : explicits = {one}
      BY <2>2 DEF OneOrNone
    <3>2. explicit = {one}
      BY <2>2, <3>1
    <3>3. QED BY <3>2 DEF OneOrNone
  <2>3. QED BY <2>1, <2>2
<1> DEFINE asked == CHOOSE version \in explicit : TRUE
<1>5. /\ explicit # {} => asked \in ValidVersions /\ Follows(asked, prior) /\ explicit = {asked}
      /\ explicit \subseteq explicits
  BY <1>4, TheOnlyOne
<1> HIDE DEF needed, explicit, computed, asked
<1>6. /\ computed.ok
      /\ selected = IF explicit = {} THEN NotAfter(computed, prior)
                    ELSE Explicit(prior, computed, asked, channels)
  BY <1>2 DEF Select, asked
<1>7. /\ computed.version \in ValidVersions /\ CompareCores(computed.version.core, needed) # -1
      /\ \A channel \in channels : WouldMoveBack(prior, channel) =>
           /\ CoreFollows(computed.version.core, prior.core)
           /\ \E one \in explicit : CoreFollows(one.core, prior.core)
  BY <1>3, <1>4, <1>6, ComputedIsEnough DEF computed
<1>8. CASE explicit = {}
  <2>1. selected = computed /\ Follows(computed.version, prior)
    BY <1>6, <1>8 DEF NotAfter, Refused
  <2>2. QED BY <1>3, <1>5, <1>7, <2>1 DEF needed, base
<1>9. CASE explicit # {}
  <2>1. \A channel \in channels : WouldMoveBack(prior, channel) =>
          CoreFollows(asked.core, prior.core)
    BY <1>5, <1>7, <1>9
  <2>2. LET version == Explicit(prior, computed, asked, channels).version
        IN /\ version \in ValidVersions /\ Follows(version, prior)
           /\ version.core = asked.core
           /\ CompareCores(version.core, needed) # -1
    BY <1>3, <1>5, <1>6, <1>7, <1>9, <2>1, ExplicitIsEnough
  <2>3. asked \in explicits
    BY <1>5, <1>9
  <2>4. QED BY <1>3, <1>6, <1>9, <2>1, <2>2, <2>3 DEF needed, base
<1>10. QED BY <1>8, <1>9

-----------------------------------------------------------------------------
(* The state of planning, by its parts.                                     *)
Commits == [content : Contents, message : Bump, manifest : ValidVersions,
            channels : OneOrNone(Channel)]
Publications == [version : ValidVersions, content : Contents, managed : BOOLEAN]
IsOffer(answer) == answer.ok /\ answer.required

PlanningTyped ==
  /\ history \in Seq(Commits) /\ history # <<>>
  /\ hex \in Seq(Publications)
  /\ IsOffer(plan) => plan.version \in ValidVersions /\ plan.from \in DOMAIN history

(* No two releases have one version, and one is the highest of all of them  *)
(* and one of the stable ones.                                              *)
OneVersionEach == \A one, other \in Releases : one.version = other.version => one = other
StableReleases == {release \in Releases : release.version.pre = Stable}
IsHighest(release, releases) ==
  release \in releases /\ \A other \in releases : ~Follows(other.version, release.version)
HaveHighest ==
  /\ Releases # {} => \E release \in Releases : IsHighest(release, Releases)
  /\ StableReleases # {} => \E release \in StableReleases : IsHighest(release, StableReleases)

(* What a plan to release offers was required against the highest release   *)
(* of its time: all the managed ones are no higher, and if it breaks the    *)
(* clients of that one, it leaves the line of every stable one.             *)
Breaks(old, new) == Impact(InterfaceOf[old], InterfaceOf[new]) = "major"
Managed == {release \in Releases : release.managed}
OfferedAfter(latest) ==
  /\ \A release \in Managed : ~Follows(release.version, latest.version)
  /\ Follows(plan.version, latest.version)
  /\ ~plan.reviewed /\ Breaks(latest.content, history[plan.from].content) =>
       \A old \in Managed : old.version.pre = Stable => ~SameLine(old.version, plan.version)
OfferInv ==
  IsOffer(plan) /\ plan.options = PlanCommand =>
    \/ Managed = {}
    \/ \E latest \in Releases : OfferedAfter(latest)

PlanningInv ==
  PlanningTyped /\ OneVersionEach /\ HaveHighest /\ OfferInv /\ CompatibleUpgradesBuild

-----------------------------------------------------------------------------
(* The strongest step is one of the steps, and there is one.               *)
LEMMA StrongestOfSteps ==
  ASSUME NEW steps \in SUBSET Bump
  PROVE  /\ Strongest(steps) \in steps \cup {"none"} /\ Strongest(steps) \in Bump
         /\ \A other \in steps : BumpRank(other) <= BumpRank(Strongest(steps))
<1> DEFINE highest ==
      IF "major" \in steps THEN "major" ELSE IF "minor" \in steps THEN "minor"
      ELSE IF "patch" \in steps THEN "patch" ELSE "none"
<1>1. highest \in steps \cup {"none"} /\ \A other \in steps : BumpRank(other) <= BumpRank(highest)
  BY DEF Bump, BumpRank
<1>2. \E bump \in steps \cup {"none"} : \A other \in steps : BumpRank(other) <= BumpRank(bump)
  BY <1>1
<1>3. /\ Strongest(steps) \in steps \cup {"none"}
      /\ \A other \in steps : BumpRank(other) <= BumpRank(Strongest(steps))
  BY <1>2 DEF Strongest
<1>4. QED BY <1>3 DEF Bump

(* An interface has no change from itself. *)
LEMMA NoChangeFromItself ==
  ASSUME NEW interface
  PROVE  Impact(interface, interface) = "none"
<1>1. Changes(interface, interface) = {}
  BY DEF Changes, Added, Removed, Altered, Surface
<1>2. QED BY <1>1 DEF Impact

(* Clients build with an interface that the comparison finds no break in,   *)
(* since what went with its parent went with one that is a break itself.    *)
LEMMA NoBreakNoHarm ==
  ASSUME NEW old, NEW new, IsInterface(old), IsInterface(new), Impact(old, new) # "major"
  PROVE  ClientsBuild(old, new)
<1> DEFINE before == Surface(old)
           after == Surface(new)
<1>1. DOMAIN before = DOMAIN old /\ DOMAIN after = DOMAIN new
  BY DEF Surface
<1> HIDE DEF before, after
<1>2. \A change \in Added(before, after) \cup Removed(before, after) \cup Altered(before, after) :
        ~change.breaking
  BY DEF Impact, Changes, before, after
<1>3. \A path \in DOMAIN before \ DOMAIN after : ~(Parents(path) \subseteq DOMAIN after)
  <2> SUFFICES ASSUME NEW path \in DOMAIN before \ DOMAIN after, Parents(path) \subseteq DOMAIN after
               PROVE  FALSE
    OBVIOUS
  <2>1. Change("removed", path, TRUE) \in Removed(before, after)
    BY DEF Removed
  <2>2. QED BY <1>2, <2>1 DEF Change
<1>4. \A path \in DOMAIN before \cap DOMAIN after : before[path] = after[path]
  <2> SUFFICES ASSUME NEW path \in DOMAIN before \cap DOMAIN after, before[path] # after[path]
               PROVE  FALSE
    OBVIOUS
  <2>1. Change("changed", path, TRUE) \in Altered(before, after)
    BY DEF Altered
  <2>2. QED BY <1>2, <2>1 DEF Change
<1>5. \A path \in DOMAIN after \ DOMAIN before :
        IsConstructor(path) => ~(Parents(path) \subseteq DOMAIN before)
  <2> SUFFICES ASSUME NEW path \in DOMAIN after \ DOMAIN before, IsConstructor(path),
                      Parents(path) \subseteq DOMAIN before
               PROVE  FALSE
    OBVIOUS
  <2>1. Change("constructor_added", path, IsConstructor(path)) \in Added(before, after)
    BY DEF Added
  <2>2. QED BY <1>2, <2>1 DEF Change
<1>6. ASSUME NEW path \in DOMAIN before, path \notin DOMAIN after PROVE FALSE
  <2>1. \A it \in DOMAIN before : Len(it) \in {1, 3, 4} /\ Parents(it) \subseteq DOMAIN before
    BY <1>1 DEF IsInterface
  <2>2. \A it \in DOMAIN before : Len(it) = 1 => it \in DOMAIN after
    BY <1>3 DEF Parents
  <2>3. \A it \in DOMAIN before : Len(it) = 3 => it \in DOMAIN after
    <3> SUFFICES ASSUME NEW it \in DOMAIN before, Len(it) = 3 PROVE it \in DOMAIN after
      OBVIOUS
    <3>1. Parents(it) = {<<it[1]>>} /\ Len(<<it[1]>>) = 1
      BY DEF Parents
    <3>2. QED BY <1>3, <2>1, <2>2, <3>1
  <2>4. \A it \in DOMAIN before : Len(it) = 4 => it \in DOMAIN after
    <3> SUFFICES ASSUME NEW it \in DOMAIN before, Len(it) = 4 PROVE it \in DOMAIN after
      OBVIOUS
    <3>1. Parents(it) = {<<it[1], it[2], it[3]>>} /\ Len(<<it[1], it[2], it[3]>>) = 3
      BY DEF Parents
    <3>2. QED BY <1>3, <2>1, <2>3, <3>1
  <2>5. QED BY <1>6, <2>1, <2>2, <2>3, <2>4
<1>7. QED BY <1>4, <1>5, <1>6 DEF ClientsBuild, before, after

(* And only those: what the comparison calls breaking breaks a client that  *)
(* uses all of the interface (compare, api.rs).                             *)
THEOREM MajorMeansBroken ==
  ASSUME NEW old, NEW new, IsInterface(old), IsInterface(new)
  PROVE  Impact(old, new) = "major" <=> ~ClientsBuild(old, new)
<1> DEFINE before == Surface(old)
           after == Surface(new)
<1> HIDE DEF before, after
<1>1. ASSUME Impact(old, new) = "major", ClientsBuild(old, new) PROVE FALSE
  <2>1. PICK change \in Changes(old, new) : change.breaking
    BY <1>1 DEF Impact
  <2>2. change \in Added(before, after) \cup Removed(before, after) \cup Altered(before, after)
    BY DEF Changes, before, after
  <2>3. /\ \A path \in DOMAIN before : path \in DOMAIN after /\ after[path] = before[path]
        /\ \A path \in DOMAIN after \ DOMAIN before :
             IsConstructor(path) => ~(Parents(path) \subseteq DOMAIN before)
    BY <1>1 DEF ClientsBuild, before, after
  <2>4. CASE change \in Added(before, after)
    <3>1. PICK path \in DOMAIN after \ DOMAIN before :
            Parents(path) \subseteq DOMAIN before /\ change.breaking = IsConstructor(path)
      BY <2>4 DEF Added, Change
    <3>2. QED BY <2>1, <2>3, <3>1
  <2>5. CASE change \in Removed(before, after)
    BY <2>3, <2>5 DEF Removed
  <2>6. CASE change \in Altered(before, after)
    BY <2>3, <2>6 DEF Altered
  <2>7. QED BY <2>2, <2>4, <2>5, <2>6
<1>2. QED BY <1>1, NoBreakNoHarm

(* Building is transitive: a client of one version builds with the next but *)
(* one when that of each builds with the next.                              *)
LEMMA BuildingIsTransitive ==
  ASSUME NEW one, NEW other, NEW third, ClientsBuild(one, other), ClientsBuild(other, third)
  PROVE  ClientsBuild(one, third)
  BY DEF ClientsBuild

-----------------------------------------------------------------------------
(* The step that a plan requires.                                           *)
SignalsSince(latest, baseline, known) ==
  {history[i].message : i \in {j \in DOMAIN history : j > baseline}}
  \cup (IF Tip.content # latest.content THEN {"patch"} ELSE {})
  \cup (IF known THEN {ImpactBetween[latest.content, Tip.content]} ELSE {})
LEMMA TipIsACommit ==
  ASSUME PlanningTyped
  PROVE  /\ Tip \in Commits /\ Tip = history[Len(history)]
         /\ Len(history) \in DOMAIN history /\ Len(history) \in Nat
<1>1. history \in Seq(Commits) /\ history # <<>>
  BY DEF PlanningTyped
<1>2. Len(history) \in DOMAIN history /\ Len(history) \in Nat
  BY <1>1
<1>3. QED BY <1>1, <1>2 DEF Tip
LEMMA ImpactsBetween ==
  ASSUME NEW old \in Contents, NEW new \in Contents
  PROVE  /\ ImpactBetween[old, new] = Impact(InterfaceOf[old], InterfaceOf[new])
         /\ ImpactBetween[old, new] \in Bump
  BY DEF ImpactBetween, Impact, Bump
LEMMA SignalsAreSteps ==
  ASSUME PlanningTyped, NEW latest \in Publications, NEW baseline, NEW known \in BOOLEAN
  PROVE  SignalsSince(latest, baseline, known) \in SUBSET Bump
<1>1. \A i \in DOMAIN history : history[i].message \in Bump
  <2>1. \A i \in DOMAIN history : history[i] \in Commits
    BY DEF PlanningTyped
  <2>2. QED BY <2>1 DEF Commits
<1>2. Tip.content \in Contents /\ latest.content \in Contents
  BY TipIsACommit DEF Commits, Publications
<1>3. ImpactBetween[latest.content, Tip.content] \in Bump
  BY <1>2, ImpactsBetween
<1>4. QED BY <1>1, <1>3 DEF SignalsSince, Bump
LEMMA WhatIsRequired ==
  ASSUME PlanningTyped, NEW latest \in Publications, NEW baseline, NEW known \in BOOLEAN,
         NEW transition \in BOOLEAN
  PROVE  LET required == Required(latest, baseline, known, transition)
             signals == SignalsSince(latest, baseline, known)
         IN /\ required \in Bump
            /\ required = "none" => /\ signals \subseteq {"none"}
                                    /\ transition => latest.version.pre # Stable
            /\ signals \subseteq {"none"} /\ ~transition => required = "none"
            /\ "major" \in signals => required = EffectiveBump(latest.version, "major")
<1> DEFINE signals == SignalsSince(latest, baseline, known)
           raised == IF Strongest(signals) = "none" /\ transition /\ latest.version.pre = Stable
                     THEN "patch" ELSE Strongest(signals)
<1>1. Required(latest, baseline, known, transition) = EffectiveBump(latest.version, raised)
  BY DEF Required, SignalsSince
<1>2. signals \in SUBSET Bump
  BY SignalsAreSteps
<1> HIDE DEF signals
<1>3. /\ Strongest(signals) \in signals \cup {"none"} /\ Strongest(signals) \in Bump
      /\ \A other \in signals : BumpRank(other) <= BumpRank(Strongest(signals))
  BY <1>2, StrongestOfSteps
<1>4. Strongest(signals) = "none" => signals \subseteq {"none"}
  BY <1>2, <1>3 DEF Bump, BumpRank
<1>5. "major" \in signals => Strongest(signals) = "major"
  BY <1>2, <1>3 DEF Bump, BumpRank
<1>6. raised \in Bump /\ (EffectiveBump(latest.version, raised) = "none" <=> raised = "none")
      /\ EffectiveBump(latest.version, raised) \in Bump
  BY <1>3 DEF EffectiveBump, Bump
<1>7. raised = "none" => Strongest(signals) = "none" /\ (transition => latest.version.pre # Stable)
  BY <1>3
<1>8. "major" \in signals => raised = "major"
  BY <1>5
<1>9. signals \subseteq {"none"} /\ ~transition => raised = "none"
  BY <1>3
<1> HIDE DEF raised
<1>10. QED BY <1>1, <1>4, <1>6, <1>7, <1>8, <1>9 DEF signals

-----------------------------------------------------------------------------
(* What every command asks.                                                 *)
Command ==
  {PlanCommand} \cup {SetVersionCommand(version) : version \in Asked}
  \cup {PrereleaseCommand(channels, versions) :
          channels \in Trains, versions \in {{}} \cup {{version} : version \in Asked}}
LEMMA TrainsAreChannels ==
  Trains \subseteq OneOrNone(Channel)
  BY ChannelsAssumption DEF Trains, OneOrNone
LEMMA WhatIsAsked ==
  ASSUME PlanningTyped, NEW options \in Command
  PROVE  /\ Requested(options) \in ValidVersions
         /\ Configured(options) \in OneOrNone(Channel)
<1>1. Tip.manifest \in ValidVersions /\ Tip.channels \in OneOrNone(Channel)
  BY TipIsACommit DEF Commits
<1>2. CASE options = PlanCommand
  BY <1>1, <1>2 DEF PlanCommand, Options, Requested, Configured
<1>3. CASE \E version \in Asked : options = SetVersionCommand(version)
  <2>1. PICK version \in Asked : options = SetVersionCommand(version)
    BY <1>3
  <2>2. (CHOOSE it \in {version} : TRUE) = version
    OBVIOUS
  <2>3. options.versions = {version} /\ options.trains = {}
    BY <2>1 DEF SetVersionCommand, Options
  <2>4. QED BY <1>1, <2>2, <2>3, VersionsAssumption DEF Requested, Configured
<1>4. CASE \E channels \in Trains, versions \in {{}} \cup {{version} : version \in Asked} :
             options = PrereleaseCommand(channels, versions)
  <2>1. PICK channels \in Trains, versions \in {{}} \cup {{version} : version \in Asked} :
               options = PrereleaseCommand(channels, versions)
    BY <1>4
  <2>3. options.versions = versions /\ options.trains = {channels}
    BY <2>1 DEF PrereleaseCommand, Options
  <2>4. Configured(options) = channels
    BY <2>3 DEF Configured
  <2>5. Requested(options) \in ValidVersions
    <3>1. CASE versions = {}
      BY <1>1, <2>3, <3>1 DEF Requested
    <3>2. CASE versions # {}
      <4>1. PICK version \in Asked : versions = {version}
        BY <3>2
      <4>2. (CHOOSE it \in {version} : TRUE) = version
        OBVIOUS
      <4>3. QED BY <2>3, <4>1, <4>2, VersionsAssumption DEF Requested
    <3>3. QED BY <3>1, <3>2
  <2>6. QED BY <2>4, <2>5, TrainsAreChannels
<1>5. QED BY <1>2, <1>3, <1>4 DEF Command

(* The highest release, and the core of the highest stable one.             *)
LEMMA LatestIsHighest ==
  ASSUME PlanningTyped, HaveHighest, hex # <<>>
  PROVE  /\ Latest(Releases) \in Releases /\ Latest(Releases) \in Publications
         /\ \A other \in Releases : ~Follows(other.version, Latest(Releases).version)
<1>1. hex \in Seq(Publications)
  BY DEF PlanningTyped
<1>2. hex[1] \in Releases /\ Releases \subseteq Publications
  BY <1>1 DEF Releases
<1>3. \E release \in Releases : \A other \in Releases : ~Follows(other.version, release.version)
  BY <1>2 DEF HaveHighest, IsHighest
<1>4. QED BY <1>2, <1>3 DEF Latest
LEMMA LatestStableIsHighest ==
  ASSUME PlanningTyped, HaveHighest
  PROVE  /\ LatestStable(Releases) \in OneOrNone(Cores)
         /\ \A stable \in StableReleases :
              \E core \in Cores : /\ LatestStable(Releases) = {core}
                                  /\ CompareCores(core, stable.version.core) # -1
                                  /\ \E release \in Releases : release.version.core = core
<1>1. Releases \subseteq Publications /\ StableReleases \subseteq Releases
  BY DEF PlanningTyped, Releases, StableReleases
<1>2. CASE StableReleases = {}
  <2>1. LatestStable(Releases) = {}
    BY <1>2 DEF LatestStable, StableReleases
  <2>3. QED BY <1>2, <2>1 DEF OneOrNone
<1>3. CASE StableReleases # {}
  <2>1. \E release \in StableReleases :
          \A other \in StableReleases : ~Follows(other.version, release.version)
    BY <1>3 DEF HaveHighest, IsHighest
  <2>3. /\ Latest(StableReleases) \in StableReleases
        /\ \A other \in StableReleases : ~Follows(other.version, Latest(StableReleases).version)
    BY <2>1 DEF Latest
  <2>4. LatestStable(Releases) = {Latest(StableReleases).version.core}
    BY <1>3 DEF LatestStable, StableReleases
  <2>5. \A stable \in StableReleases : stable.version \in ValidVersions
    BY <1>1 DEF Publications
  <2>6. Latest(StableReleases).version.core \in Cores
    BY <2>3, <2>5 DEF ValidVersions
  <2>7. \A stable \in StableReleases :
          CompareCores(Latest(StableReleases).version.core, stable.version.core) # -1
    BY <2>3, <2>5, FollowersHaveHigherCores
  <2>8. LatestStable(Releases) \in OneOrNone(Cores)
    BY <2>4, <2>6 DEF OneOrNone
  <2>9. Latest(StableReleases) \in Releases
    BY <1>1, <2>3
  <2>10. QED BY <2>4, <2>6, <2>7, <2>8, <2>9
<1>4. QED BY <1>2, <1>3

-----------------------------------------------------------------------------
(* The parts of a plan of a package that has releases.                      *)
Transition(options) == TrainTransition(Latest(Releases).version, Configured(options))
Explicits(options) == ExplicitRequest(Requested(options), Latest(Releases).version, options)
Baseline == FindBaseline(Latest(Releases))
Step(options, known) == Required(Latest(Releases), Baseline.at, known, Transition(options))
IsDue(options, known) ==
  Step(options, known) # "none" \/ Explicits(options) # {} \/ Transition(options)
Choice(options, known) ==
  Decision(Latest(Releases), Configured(options), Explicits(options), Step(options, known),
           IsDue(options, known))

LEMMA ExistingPlans ==
  ASSUME NEW options, NEW known \in BOOLEAN, NEW exception
  PROVE  LET answer == ExistingPlan(options, known, exception)
         IN /\ answer.options = options
            /\ \/ ~answer.ok /\ ~answer.required /\ answer.source = "none"
               \/ /\ answer = Answer(options, Choice(options, known).version, IsDue(options, known),
                                     Baseline, ~known)
                  /\ Choice(options, known).ok
            /\ ~answer.ok /\ Baseline.at # 0 /\ ~Follows(Latest(Releases).version, Requested(options)) =>
                 answer.refusal \in {"exception", "unknown_api", Choice(options, known).refusal}
<1> DEFINE latest == Latest(Releases)
           choice == Choice(options, known)
           due == IsDue(options, known)
           answer == ExistingPlan(options, known, exception)
<1>1. ASSUME NEW why
      PROVE  /\ Refusal(options, why).options = options
             /\ ~Refusal(options, why).ok /\ ~Refusal(options, why).required
             /\ Refusal(options, why).source = "none" /\ Refusal(options, why).refusal = why
  BY DEF Refusal, NoPlan
<1>2. answer = CASE Follows(latest.version, Requested(options)) -> Refusal(options, "behind_latest")
                 [] /\ ~Follows(latest.version, Requested(options))
                    /\ exception \in {"expired", "unresolved"} -> Refusal(options, "exception")
                 [] OTHER -> PlanOf(options, known, exception, Baseline, due, choice)
  BY DEF ExistingPlan, PlanAfter, PlanFrom, PlanByStep, Choice, IsDue, Step, Explicits, Transition,
         Baseline
<1> HIDE DEF latest, choice, due, answer
<1>3. Answer(options, choice.version, due, Baseline, ~known).options = options
      /\ Answer(options, choice.version, due, Baseline, ~known).ok
  BY DEF Answer
<1>4. CASE Follows(latest.version, Requested(options))
  <2>1. answer = Refusal(options, "behind_latest")
    BY <1>2, <1>4
  <2>3. QED BY <1>1, <1>4, <2>1 DEF latest, choice, due, answer
<1>5. CASE ~Follows(latest.version, Requested(options)) /\ exception \in {"expired", "unresolved"}
  <2>1. answer = Refusal(options, "exception")
    BY <1>2, <1>5
  <2>3. QED BY <1>1, <1>5, <2>1 DEF latest, choice, due, answer
<1>6. CASE ~Follows(latest.version, Requested(options)) /\ exception \notin {"expired", "unresolved"}
  <2>1. answer = PlanOf(options, known, exception, Baseline, due, choice)
    BY <1>2, <1>6
  <2>3. CASE Baseline.at = 0
    <3>1. answer = Refusal(options, Baseline.source)
      BY <2>1, <2>3 DEF PlanOf
    <3>2. QED BY <1>1, <1>6, <2>3, <3>1 DEF latest, choice, due, answer
  <2>4. CASE Baseline.at # 0 /\ ~known /\ exception = "none"
    <3>1. answer = Refusal(options, "unknown_api")
      BY <2>1, <2>4 DEF PlanOf
    <3>2. QED BY <1>1, <1>6, <2>4, <3>1 DEF latest, choice, due, answer
  <2>5. CASE Baseline.at # 0 /\ ~(~known /\ exception = "none")
    <3>1. answer = IF ~choice.ok THEN Refusal(options, choice.refusal)
                   ELSE Answer(options, choice.version, due, Baseline, ~known)
      BY <2>1, <2>5 DEF PlanOf
    <3>2. CASE ~choice.ok
      BY <1>1, <1>6, <3>1, <3>2 DEF latest, choice, due, answer
    <3>3. CASE choice.ok
      <4>1. answer = Answer(options, choice.version, due, Baseline, ~known)
        BY <3>1, <3>3
      <4>2. QED BY <1>3, <3>3, <4>1 DEF latest, choice, due, answer
    <3>4. QED BY <3>2, <3>3
  <2>6. QED BY <2>3, <2>4, <2>5
<1>7. QED BY <1>4, <1>5, <1>6

LEMMA PartsOfPlans ==
  ASSUME PlanningTyped, HaveHighest, hex # <<>>, NEW options \in Command, NEW known \in BOOLEAN
  PROVE  /\ Latest(Releases).version \in ValidVersions
         /\ Explicits(options) \in OneOrNone(ValidVersions)
         /\ Explicits(options) \subseteq {Requested(options)}
         /\ Transition(options) \in BOOLEAN
         /\ Step(options, known) \in Bump /\ IsDue(options, known) \in BOOLEAN
<1>1. Latest(Releases) \in Publications
  BY LatestIsHighest
<1>2. Latest(Releases).version \in ValidVersions
  BY <1>1 DEF Publications
<1>3. Requested(options) \in ValidVersions
  BY WhatIsAsked
<1>4. /\ Explicits(options) \in OneOrNone(ValidVersions)
      /\ Explicits(options) \subseteq {Requested(options)}
  BY <1>3 DEF Explicits, ExplicitRequest, OneOrNone
<1>5. Transition(options) \in BOOLEAN
  BY DEF Transition, TrainTransition
<1>6. Step(options, known) \in Bump
  BY <1>1, <1>5, WhatIsRequired DEF Step
<1>7. QED BY <1>2, <1>4, <1>5, <1>6 DEF IsDue

(* What a package with releases is offered moves forward.                   *)
LEMMA OffersMoveForward ==
  ASSUME PlanningTyped, HaveHighest, hex # <<>>, NEW options \in Command, NEW known \in BOOLEAN,
         Choice(options, known).ok, IsDue(options, known)
  PROVE  LET version == Choice(options, known).version
             latest == Latest(Releases)
             base == IF LatestStable(Releases) = {} THEN latest.version.core
                     ELSE CHOOSE core \in LatestStable(Releases) : TRUE
         IN /\ version \in ValidVersions /\ Follows(version, latest.version)
            /\ Bumped(base, Step(options, known)) \in Cores
            /\ CompareCores(version.core, Bumped(base, Step(options, known))) # -1
            /\ TrainMovesBack(latest.version, options) =>
                 /\ CoreFollows(version.core, latest.version.core)
                 /\ CoreFollows(Requested(options).core, latest.version.core)
<1> DEFINE latest == Latest(Releases)
           selected == SelectVersion(latest.version, LatestStable(Releases), Step(options, known),
                                     Explicits(options), Configured(options))
<1>1. /\ latest.version \in ValidVersions
      /\ Explicits(options) \in OneOrNone(ValidVersions)
      /\ Explicits(options) \subseteq {Requested(options)}
      /\ Step(options, known) \in Bump
  BY PartsOfPlans
<1>2. Configured(options) \in OneOrNone(Channel) /\ LatestStable(Releases) \in OneOrNone(Cores)
  BY WhatIsAsked, LatestStableIsHighest
<1>3. selected.ok /\ Choice(options, known) = selected
  BY DEF Choice, Decision, ZeroEnforced, Refused
<1>4. /\ selected.version \in ValidVersions /\ Follows(selected.version, latest.version)
      /\ LET base == IF LatestStable(Releases) = {} THEN latest.version.core
                     ELSE CHOOSE core \in LatestStable(Releases) : TRUE
         IN /\ Bumped(base, Step(options, known)) \in Cores
            /\ CompareCores(selected.version.core, Bumped(base, Step(options, known))) # -1
      /\ \A channel \in Configured(options) : WouldMoveBack(latest.version, channel) =>
           /\ CoreFollows(selected.version.core, latest.version.core)
           /\ \E asked \in Explicits(options) : CoreFollows(asked.core, latest.version.core)
  <2> HIDE DEF latest
  <2>1. QED BY <1>1, <1>2, <1>3, SelectionMovesForward
<1> HIDE DEF selected
<1>5. TrainMovesBack(latest.version, options) =>
        \E channel \in Configured(options) : WouldMoveBack(latest.version, channel)
  BY DEF TrainMovesBack, WouldMoveBack
<1>6. QED BY <1>1, <1>3, <1>4, <1>5

LEMMA ValidVersionsFit ==
  ASSUME NEW version \in ValidVersions
  PROVE  Fits(version)
<1>1. version.core \in Cores /\ version.pre \in Seq(Identifiers)
  BY DEF ValidVersions
<1>2. ASSUME Numbered(version.pre) PROVE version.pre[2][2] \in 0 .. MaxNumber
  <2>1. 2 \in DOMAIN version.pre /\ version.pre[2][2] <= MaxNumber
    BY <1>1, <1>2 DEF Numbered
  <2>3. version.pre[2] \in Identifiers
    BY <1>1, <2>1
  <2>4. QED BY <2>1, <2>3, MaxNumberAssumption DEF Identifiers
<1>3. QED BY <1>1, <1>2 DEF Fits

LEMMA InitialPlans ==
  ASSUME PlanningTyped, NEW options \in Command
  PROVE  LET answer == InitialPlan(options)
         IN /\ answer.options = options /\ answer.source \in {"none", "initial"}
            /\ answer.ok => answer.required
            /\ IsOffer(answer) => answer.version \in ValidVersions /\ answer.from = Len(history)
<1> DEFINE first == FirstVersion(options)
           initial == InitialVersion(Requested(options), Configured(options), options.trains = {{}})
           channel == CHOOSE one \in Configured(options) : TRUE
<1>1. Requested(options) \in ValidVersions /\ Configured(options) \in OneOrNone(Channel)
  BY WhatIsAsked
<1>2. ASSUME initial.ok PROVE initial.version \in ValidVersions
  <2>1. Requested(options).core \in Cores
    BY <1>1 DEF ValidVersions
  <2>3. Version(Requested(options).core, Stable) \in ValidVersions
    <3>1. Stable \in Seq(Identifiers)
      BY DEF Stable
    <3>2. QED BY <2>1, <3>1 DEF Version, ValidVersions
  <2>4. CASE Configured(options) # {}
    <3>1. channel \in Channel
      BY <1>1, <2>4, TheOnlyOne
    <3>2. Version(Requested(options).core, Train(channel, 1)) \in ValidVersions
      BY <2>1, <3>1, TrainsAreWritten
    <3>3. initial \in {Taken(Version(Requested(options).core, Train(channel, 1))),
                       Refused("explicit_off_train"), Taken(Requested(options))}
      BY <2>4 DEF InitialVersion
    <3>4. QED BY <1>1, <1>2, <3>2, <3>3 DEF Taken, Refused
  <2>5. CASE Configured(options) = {}
    <3>1. initial \in {Taken(Version(Requested(options).core, Stable)), Taken(Requested(options))}
      BY <2>5 DEF InitialVersion
    <3>2. QED BY <1>1, <2>3, <3>1 DEF Taken
  <2>6. QED BY <2>4, <2>5
<1> HIDE DEF initial
<1>3. ASSUME first.ok PROVE first.version \in ValidVersions
  BY <1>2, <1>3 DEF FirstVersion, ZeroEnforced, Refused, initial
<1> HIDE DEF first
<1>4. InitialPlan(options) =
        IF first.ok THEN Answer(options, first.version, TRUE, Found("initial", 0), FALSE)
        ELSE Refusal(options, first.refusal)
  BY DEF InitialPlan, first
<1>5. CASE first.ok
  BY <1>3, <1>4, <1>5 DEF Answer, Found
<1>6. CASE ~first.ok
  BY <1>4, <1>6 DEF Refusal, NoPlan, IsOffer
<1>7. QED BY <1>5, <1>6

(* An answer to release follows all that is published.                      *)
LEMMA AnswersMoveForward ==
  ASSUME PlanningTyped, HaveHighest, NEW options \in Command, NEW answer \in Answers(options)
  PROVE  /\ answer.options = options
         /\ answer.required => IsOffer(answer)
         /\ IsOffer(answer) =>
              /\ answer.version \in ValidVersions /\ answer.from = Len(history)
              /\ FollowsPublished(answer.version)
              /\ hex # <<>> /\ TrainMovesBack(Latest(Releases).version, options) =>
                   /\ CoreFollows(answer.version.core, Latest(Releases).version.core)
                   /\ CoreFollows(Requested(options).core, Latest(Releases).version.core)
<1>1. CASE hex = <<>>
  <2>1. answer = InitialPlan(options)
    BY <1>1 DEF Answers
  <2>3. answer.required => answer.ok
    BY <2>1 DEF InitialPlan, Refusal, NoPlan, Answer
  <2>4. Releases = {}
    BY <1>1 DEF Releases
  <2>5. QED BY <1>1, <2>1, <2>3, <2>4, InitialPlans DEF FollowsPublished, IsOffer
<1>2. CASE hex # <<>>
  <2>1. PICK known \in BOOLEAN, exception \in Exceptions :
          answer = ExistingPlan(options, known, exception)
    <3>1. CASE options = PlanCommand
      BY <1>2, <3>1 DEF Answers
    <3>2. CASE options # PlanCommand
      <4>1. answer = ExistingPlan(options, TRUE, "none") /\ "none" \in Exceptions
        BY <1>2, <3>2 DEF Answers, Exceptions
      <4>2. QED BY <4>1
    <3>3. QED BY <3>1, <3>2
  <2> DEFINE choice == Choice(options, known)
             due == IsDue(options, known)
  <2>3. /\ answer.options = options
        /\ \/ ~answer.ok /\ ~answer.required
           \/ /\ answer = Answer(options, choice.version, due, Baseline, ~known)
              /\ choice.ok
    BY <2>1, ExistingPlans
  <2> HIDE DEF choice, due
  <2>4. CASE ~answer.ok /\ ~answer.required
    BY <2>3, <2>4 DEF IsOffer
  <2>5. CASE answer = Answer(options, choice.version, due, Baseline, ~known) /\ choice.ok
    <3>1. /\ answer.ok /\ answer.required = due /\ answer.version = choice.version
          /\ answer.from = Len(history)
      BY <2>5 DEF Answer
    <3>2. due \in BOOLEAN
      BY <1>2, PartsOfPlans DEF due
    <3>3. CASE due
      <4>1. /\ choice.version \in ValidVersions /\ Follows(choice.version, Latest(Releases).version)
            /\ TrainMovesBack(Latest(Releases).version, options) =>
                 /\ CoreFollows(choice.version.core, Latest(Releases).version.core)
                 /\ CoreFollows(Requested(options).core, Latest(Releases).version.core)
        BY <1>2, <2>5, <3>3, OffersMoveForward DEF choice, due
      <4>2. /\ Latest(Releases).version \in ValidVersions
            /\ \A other \in Releases : /\ other.version \in ValidVersions
                                       /\ ~Follows(other.version, Latest(Releases).version)
        <5>1. Releases \subseteq Publications
          BY DEF PlanningTyped, Releases
        <5>2. QED BY <1>2, <5>1, LatestIsHighest DEF Publications
      <4>3. FollowsPublished(choice.version)
        BY <4>1, <4>2, FollowingIsTransitive DEF FollowsPublished
      <4>4. QED BY <2>3, <3>1, <3>3, <4>1, <4>3 DEF IsOffer
    <3>4. CASE ~due
      BY <2>3, <3>1, <3>4 DEF IsOffer
    <3>5. QED BY <3>2, <3>3, <3>4
  <2>6. QED BY <2>3, <2>4, <2>5
<1>3. QED BY <1>1, <1>2

(* Numbers between those of one line are on that line, and a major step     *)
(* leaves it.                                                               *)
LEMMA MajorStepsLeaveTheLine ==
  ASSUME NEW old \in ValidVersions, NEW latest \in ValidVersions, NEW version \in ValidVersions,
         NEW base \in Cores,
         CompareCores(base, old.core) # -1, CompareCores(latest.core, base) # -1,
         Bumped(base, EffectiveBump(latest, "major")) \in Cores,
         CompareCores(version.core, Bumped(base, EffectiveBump(latest, "major"))) # -1,
         CompareCores(version.core, latest.core) # -1
  PROVE  ~SameLine(old, version)
<1> SUFFICES ASSUME SameLine(old, version) PROVE FALSE
  OBVIOUS
<1> DEFINE bump == EffectiveBump(latest, "major")
           next == Bumped(base, bump)
<1>1. old.core \in Cores /\ latest.core \in Cores /\ version.core \in Cores
  BY DEF ValidVersions
<1>2. \A core \in Cores : core[1] \in Nat /\ core[2] \in Nat /\ core[3] \in Nat
  BY MaxNumberAssumption DEF Cores
<1>3. next # Overflow
  <2>1. PICK a \in Nat, b \in Nat, c \in Nat : next = <<a, b, c>>
    BY MaxNumberAssumption DEF Cores
  <2> HIDE DEF next
  <2>3. <<a, b, c>> # <<>>
    OBVIOUS
  <2>4. QED BY <2>1, <2>3 DEF Overflow
<1>4. bump = IF latest.core[1] = 0 THEN "minor" ELSE "major"
  BY DEF EffectiveBump
<1>5. next = IF latest.core[1] = 0 THEN <<base[1], base[2] + 1, 0>> ELSE <<base[1] + 1, 0, 0>>
  BY <1>3, <1>4, BumpedCores DEF Bump
<1>6. /\ old.core[1] = version.core[1]
      /\ old.core[1] = 0 => old.core[2] = version.core[2]
  BY DEF SameLine
<1>7. /\ base[1] >= old.core[1] /\ (base[1] = old.core[1] => base[2] >= old.core[2])
      /\ latest.core[1] >= base[1] /\ (latest.core[1] = base[1] => latest.core[2] >= base[2])
      /\ version.core[1] >= latest.core[1]
      /\ version.core[1] >= next[1] /\ (version.core[1] = next[1] => version.core[2] >= next[2])
  <2>1. ASSUME NEW high \in Cores, NEW low \in Cores, CompareCores(high, low) # -1
        PROVE  high[1] >= low[1] /\ (high[1] = low[1] => high[2] >= low[2])
    BY <1>2, <2>1 DEF CompareCores, Then, Sign
  <2>3. QED BY <1>1, <2>1
<1> HIDE DEF next, bump
<1>8. base[1] = old.core[1] /\ latest.core[1] = base[1] /\ version.core[1] = base[1]
  BY <1>1, <1>2, <1>6, <1>7
<1>9. CASE latest.core[1] = 0
  BY <1>1, <1>2, <1>5, <1>6, <1>7, <1>8, <1>9
<1>10. CASE latest.core[1] # 0
  BY <1>1, <1>2, <1>5, <1>7, <1>8, <1>10
<1>11. QED BY <1>9, <1>10

(* An offer that breaks clients of the latest release leaves the line of    *)
(* every stable release.                                                    *)
LEMMA OffersLeaveTheLine ==
  ASSUME PlanningTyped, HaveHighest, hex # <<>>, NEW options \in Command,
         NEW answer \in Answers(options), IsOffer(answer), ~answer.reviewed,
         Breaks(Latest(Releases).content, Tip.content),
         NEW old \in Releases, old.version.pre = Stable
  PROVE  ~SameLine(old.version, answer.version)
<1> DEFINE latest == Latest(Releases)
<1>1. PICK known \in BOOLEAN, exception \in Exceptions :
        answer = ExistingPlan(options, known, exception)
  <2>1. CASE options = PlanCommand
    BY <2>1 DEF Answers
  <2>3. CASE options # PlanCommand
    <3>1. answer = ExistingPlan(options, TRUE, "none") /\ "none" \in Exceptions
      BY <2>3 DEF Answers, Exceptions
    <3>2. QED BY <3>1
  <2>4. QED BY <2>1, <2>3
<1> DEFINE choice == Choice(options, known)
           step == Step(options, known)
<1>2. /\ answer = Answer(options, choice.version, IsDue(options, known), Baseline, ~known)
      /\ choice.ok
  BY <1>1, ExistingPlans DEF IsOffer
<1>3. known = TRUE /\ IsDue(options, known) /\ answer.version = choice.version
  BY <1>2 DEF Answer, IsOffer
<1>4. latest \in Publications /\ Releases \subseteq Publications
      /\ \A other \in Releases : ~Follows(other.version, latest.version)
  BY LatestIsHighest DEF PlanningTyped, Releases
<1>5. step = EffectiveBump(latest.version, "major")
  <2>1. latest.content \in Contents /\ Tip.content \in Contents
    BY <1>4, TipIsACommit DEF Publications, Commits
  <2>3. ImpactBetween[latest.content, Tip.content] = "major"
    BY <2>1, ImpactsBetween DEF Breaks
  <2>4. "major" \in SignalsSince(latest, Baseline.at, known)
    BY <1>3, <2>3 DEF SignalsSince
  <2>5. Transition(options) \in BOOLEAN
    BY PartsOfPlans
  <2>6. QED BY <1>4, <2>4, <2>5, WhatIsRequired DEF Step
<1>6. PICK base \in Cores :
        /\ LatestStable(Releases) = {base} /\ CompareCores(base, old.version.core) # -1
        /\ \E release \in Releases : release.version.core = base
  BY LatestStableIsHighest DEF StableReleases
<1>7. (CHOOSE core \in LatestStable(Releases) : TRUE) = base
  BY <1>6
<1>8. /\ choice.version \in ValidVersions /\ Follows(choice.version, latest.version)
      /\ Bumped(base, step) \in Cores /\ CompareCores(choice.version.core, Bumped(base, step)) # -1
  <2>1. LatestStable(Releases) # {}
    BY <1>6
  <2>3. QED BY <1>2, <1>3, <1>7, <2>1, OffersMoveForward
<1>9. old.version \in ValidVersions /\ latest.version \in ValidVersions
  BY <1>4 DEF Publications
<1>10. CompareCores(latest.version.core, base) # -1
  <2>1. PICK release \in Releases : release.version.core = base
    BY <1>6
  <2>3. release.version \in ValidVersions /\ ~Follows(release.version, latest.version)
    BY <1>4, <2>1 DEF Publications
  <2>4. QED BY <1>9, <2>1, <2>3, FollowersHaveHigherCores
<1>11. CompareCores(choice.version.core, latest.version.core) # -1
  <2>1. ~Follows(latest.version, choice.version)
    BY <1>8, <1>9, PrecedenceIsTotal DEF Follows
  <2>3. QED BY <1>8, <1>9, <2>1, FollowersHaveHigherCores
<1> HIDE DEF choice, step, latest
<1>12. QED BY <1>3, <1>5, <1>6, <1>8, <1>9, <1>10, <1>11, MajorStepsLeaveTheLine

-----------------------------------------------------------------------------
(* The steps keep the types.                                                *)
LEMMA CommandsAreAsked ==
  /\ PlanCommand \in Command
  /\ \A version \in Asked : SetVersionCommand(version) \in Command
  /\ \A channels \in Trains, versions \in {{}} \cup {{version} : version \in Asked} :
       PrereleaseCommand(channels, versions) \in Command
  BY DEF Command
(* No step writes more than one commit.                                     *)
GrowsByOne == history' = history \/ \E commit \in Commits : history' = Append(history, commit)
LEMMA Answered ==
  ASSUME PlanningTyped, HaveHighest, Plans \/ SetsVersion \/ ChoosesTrain
  PROVE  /\ \E options \in Command : plan' \in Answers(options)
         /\ UNCHANGED <<hex, tags, refs>>
         /\ GrowsByOne
<1>1. Tip \in Commits
  BY TipIsACommit
<1>2. CASE Plans
  BY <1>2, CommandsAreAsked DEF Plans, GrowsByOne
<1>3. CASE SetsVersion
  <2>1. PICK version \in Asked : \E answer \in Answers(SetVersionCommand(version)) :
          /\ plan' = answer
          /\ history' = IF answer.ok /\ answer.version = version
                        THEN Append(history, [Tip EXCEPT !.manifest = version, !.message = "none"])
                        ELSE history
    BY <1>3 DEF SetsVersion
  <2>3. [Tip EXCEPT !.manifest = version, !.message = "none"] \in Commits
    BY <1>1, VersionsAssumption DEF Commits, Bump
  <2>4. QED BY <1>3, <2>1, <2>3, CommandsAreAsked DEF SetsVersion, GrowsByOne
<1>4. CASE ChoosesTrain
  <2>1. PICK channels \in Trains, versions \in {{}} \cup {{version} : version \in Asked} :
        \E one \in Answers(PrereleaseCommand(channels, versions)) :
          /\ plan' = one
          /\ history' = IF ~one.ok THEN history
                        ELSE Append(history,
                          [Tip EXCEPT !.channels = channels, !.message = "none",
                             !.manifest = IF one.required THEN one.version ELSE @])
    BY <1>4 DEF ChoosesTrain
  <2>2. PICK answer \in Answers(PrereleaseCommand(channels, versions)) :
          /\ plan' = answer
          /\ history' = IF ~answer.ok THEN history
                        ELSE Append(history,
                          [Tip EXCEPT !.channels = channels, !.message = "none",
                             !.manifest = IF answer.required THEN answer.version ELSE @])
    BY <2>1
  <2>3. PrereleaseCommand(channels, versions) \in Command
    BY CommandsAreAsked
  <2>4. answer.required => answer.version \in ValidVersions
    BY <2>3, AnswersMoveForward
  <2>5. [Tip EXCEPT !.channels = channels, !.message = "none",
           !.manifest = IF answer.required THEN answer.version ELSE @] \in Commits
    BY <1>1, <2>4, TrainsAreChannels DEF Commits, Bump
  <2>6. QED BY <1>4, <2>2, <2>3, <2>5 DEF ChoosesTrain, GrowsByOne
<1>5. QED BY <1>2, <1>3, <1>4
LEMMA HistoryGrows ==
  ASSUME PlanningTyped, HaveHighest, Next
  PROVE  GrowsByOne
<1>1. Tip \in Commits
  BY TipIsACommit
<1>2. ASSUME NEW content \in Contents, NEW message \in Messages, Pushes(content, message)
      PROVE  GrowsByOne
  <2>1. [Tip EXCEPT !.content = content, !.message = message] \in Commits
    BY <1>1, MessagesAssumption DEF Commits
  <2>2. QED BY <1>2, <2>1 DEF Pushes, GrowsByOne
<1>3. CASE Pushed \/ PushedAside
  BY <1>1, <1>2, <1>3 DEF Pushed, PushedAside, Commits
<1>4. CASE Edited
  <2>1. \A version \in Asked : [Tip EXCEPT !.manifest = version, !.message = "none"] \in Commits
    BY <1>1, VersionsAssumption DEF Commits, Bump
  <2>2. \A channels \in Trains : [Tip EXCEPT !.channels = channels, !.message = "none"] \in Commits
    BY <1>1, TrainsAreChannels DEF Commits, Bump
  <2>3. QED BY <1>4, <2>1, <2>2 DEF Edited, GrowsByOne
<1>5. CASE Plans \/ SetsVersion \/ ChoosesTrain
  BY <1>5, Answered
<1>6. CASE Released
  <2>1. plan.version \in ValidVersions
    BY <1>6 DEF Released, PlanningTyped, IsOffer
  <2>2. [Tip EXCEPT !.manifest = plan.version, !.message = "none"] \in Commits
    BY <1>1, <2>1 DEF Commits, Bump
  <2>3. QED BY <1>6, <2>2 DEF Released, GrowsByOne
<1>7. CASE Dropped \/ PublishedByHand \/ Untagged \/ ConfiguredBaseline \/ CacheAged
  BY <1>7 DEF Dropped, PublishedByHand, Untagged, ConfiguredBaseline, CacheAged, GrowsByOne
<1>8. QED BY <1>3, <1>4, <1>5, <1>6, <1>7 DEF Next

(* Nor publishes more than one version, and none that is published already. *)
IsPublished(release) ==
  /\ hex' = Append(hex, release) /\ Releases' = Releases \cup {release}
  /\ \A other \in Releases : other.version # release.version
LEMMA ReleasesGrow ==
  ASSUME PlanningTyped, NEW release \in Publications, hex' = Append(hex, release)
  PROVE  Releases' = Releases \cup {release}
<1>1. hex \in Seq(Publications)
  BY DEF PlanningTyped
<1>2. /\ DOMAIN hex = 1 .. Len(hex) /\ DOMAIN hex' = 1 .. Len(hex) + 1 /\ Len(hex) \in Nat
      /\ \A i \in 1 .. Len(hex) : hex'[i] = hex[i]
      /\ hex'[Len(hex) + 1] = release
  BY <1>1
<1>3. \A it : it \in {hex'[i] : i \in DOMAIN hex'} <=> it \in {hex[i] : i \in DOMAIN hex} \cup {release}
  <2> TAKE it
  <2>1. ASSUME NEW i \in DOMAIN hex' PROVE hex'[i] \in {hex[j] : j \in DOMAIN hex} \cup {release}
    BY <1>2
  <2>2. \A i \in DOMAIN hex : i \in DOMAIN hex' /\ hex[i] = hex'[i]
    BY <1>2
  <2>3. Len(hex) + 1 \in DOMAIN hex' /\ hex'[Len(hex) + 1] = release
    BY <1>2
  <2>4. QED BY <2>1, <2>2, <2>3
<1>4. QED BY <1>3 DEF Releases
LEMMA RegistryGrows ==
  ASSUME PlanningTyped, HaveHighest, Next
  PROVE  \/ hex' = hex
         \/ /\ PublishedByHand
            /\ \E release \in Publications : ~release.managed /\ IsPublished(release)
         \/ /\ Released /\ plan' = NoPlan /\ IsOffer(plan) /\ plan.options = PlanCommand
            /\ Release(plan.version, Tip.content, ~plan.reviewed) \in Publications
            /\ IsPublished(Release(plan.version, Tip.content, ~plan.reviewed))
<1>1. CASE PublishedByHand
  <2>1. PICK version \in Asked, content \in HandContents :
          /\ \A release \in Releases : release.version # version
          /\ hex' = Append(hex, Release(version, content, FALSE))
    BY <1>1 DEF PublishedByHand
  <2>2. /\ Release(version, content, FALSE) \in Publications
        /\ Release(version, content, FALSE).version = version
        /\ ~Release(version, content, FALSE).managed
    BY VersionsAssumption, ContentsAssumption DEF Release, Publications
  <2>3. IsPublished(Release(version, content, FALSE))
    BY <2>1, <2>2, ReleasesGrow DEF IsPublished
  <2>4. QED BY <1>1, <2>2, <2>3
<1>2. CASE Released
  <2> DEFINE release == Release(plan.version, Tip.content, ~plan.reviewed)
  <2>1. /\ IsOffer(plan) /\ plan.options = PlanCommand /\ plan' = NoPlan
        /\ \A other \in Releases : other.version # plan.version
        /\ hex' = Append(hex, release)
    BY <1>2 DEF Released, IsOffer
  <2>2. plan.version \in ValidVersions /\ Tip.content \in Contents
    BY <2>1, TipIsACommit DEF PlanningTyped, Commits
  <2>3. release \in Publications /\ release.version = plan.version
    BY <2>2 DEF Release, Publications
  <2>4. IsPublished(release)
    BY <2>1, <2>3, ReleasesGrow DEF IsPublished
  <2>5. QED BY <1>2, <2>1, <2>3, <2>4
<1>3. CASE ~PublishedByHand /\ ~Released
  <2>1. hex' = hex
    BY <1>3, Answered DEF Next, Pushed, PushedAside, Pushes, Edited, Dropped, Untagged,
                          ConfiguredBaseline, CacheAged
  <2>2. QED BY <2>1
<1>4. QED BY <1>1, <1>2, <1>3

LEMMA TypesKeep ==
  ASSUME PlanningInv, [Next]_vars
  PROVE  PlanningTyped'
<1>1. PlanningTyped /\ HaveHighest
  BY DEF PlanningInv
<1>2. CASE UNCHANGED vars
  BY <1>1, <1>2 DEF PlanningTyped, vars, IsOffer
<1>3. CASE Next
  <2>1. /\ history' \in Seq(Commits) /\ history' # <<>>
        /\ DOMAIN history \subseteq DOMAIN history'
    <3>1. GrowsByOne /\ history \in Seq(Commits) /\ history # <<>>
      BY <1>1, <1>3, HistoryGrows DEF PlanningTyped
    <3>2. CASE history' = history
      BY <3>1, <3>2
    <3>3. CASE \E commit \in Commits : history' = Append(history, commit)
      <4>1. PICK commit \in Commits : history' = Append(history, commit)
        BY <3>3
      <4>2. QED BY <3>1, <4>1
    <3>4. QED BY <3>1, <3>2, <3>3 DEF GrowsByOne
  <2>2. hex' \in Seq(Publications)
    <3>1. hex \in Seq(Publications)
      BY <1>1 DEF PlanningTyped
    <3>2. \/ hex' = hex
          \/ \E release \in Publications : hex' = Append(hex, release)
      BY <1>1, <1>3, RegistryGrows DEF IsPublished
    <3>3. QED BY <3>1, <3>2
  <2>3. IsOffer(plan') => plan'.version \in ValidVersions /\ plan'.from \in DOMAIN history'
    <3>1. CASE plan' = plan
      BY <1>1, <2>1, <3>1 DEF PlanningTyped
    <3>2. CASE plan' = NoPlan
      BY <3>2 DEF NoPlan, IsOffer
    <3>3. CASE Plans \/ SetsVersion \/ ChoosesTrain
      <4>1. PICK options \in Command : plan' \in Answers(options)
        BY <1>1, <3>3, Answered
      <4>2. IsOffer(plan') => plan'.version \in ValidVersions /\ plan'.from = Len(history)
        BY <1>1, <4>1, AnswersMoveForward
      <4>3. Len(history) \in DOMAIN history
        BY <1>1, TipIsACommit
      <4>4. QED BY <2>1, <4>2, <4>3
    <3>4. QED
      BY <1>3, <3>1, <3>2, <3>3
      DEF Next, Pushed, PushedAside, Pushes, Edited, Dropped, Released, PublishedByHand, Untagged,
          ConfiguredBaseline, CacheAged
  <2>4. QED BY <2>1, <2>2, <2>3 DEF PlanningTyped
<1>4. QED BY <1>2, <1>3

-----------------------------------------------------------------------------
(* What a step keeps.                                                       *)
LEMMA RegistrySteps ==
  ASSUME PlanningInv, [Next]_vars
  PROVE  \/ Releases' = Releases /\ Managed' = Managed
         \/ /\ PublishedByHand /\ Managed' = Managed
            /\ \E release \in Publications : ~release.managed /\ IsPublished(release)
         \/ /\ Released /\ plan' = NoPlan /\ IsOffer(plan) /\ plan.options = PlanCommand
            /\ Release(plan.version, Tip.content, ~plan.reviewed) \in Publications
            /\ IsPublished(Release(plan.version, Tip.content, ~plan.reviewed))
<1>1. CASE hex' = hex
  BY <1>1 DEF Releases, Managed
<1>2. CASE /\ PublishedByHand
           /\ \E release \in Publications : ~release.managed /\ IsPublished(release)
  <2>1. PICK release \in Publications : ~release.managed /\ IsPublished(release)
    BY <1>2
  <2>2. Managed' = Managed
    BY <2>1 DEF IsPublished, Managed
  <2>3. QED BY <1>2, <2>2
<1>3. QED BY <1>1, <1>2, RegistryGrows DEF PlanningInv, vars

LEMMA OneVersionKeeps ==
  ASSUME PlanningInv, [Next]_vars
  PROVE  OneVersionEach'
<1>1. CASE Releases' = Releases
  BY <1>1 DEF PlanningInv, OneVersionEach
<1>2. CASE \E release \in Publications : IsPublished(release)
  BY <1>2 DEF PlanningInv, OneVersionEach, IsPublished
<1>3. QED BY <1>1, <1>2, RegistrySteps

LEMMA HighestWithOneMore ==
  ASSUME NEW releases \in SUBSET Publications, NEW release \in Publications,
         releases # {} => \E one \in releases : IsHighest(one, releases)
  PROVE  \E one \in releases \cup {release} : IsHighest(one, releases \cup {release})
<1>1. /\ \A one \in releases \cup {release} : one.version \in ValidVersions
      /\ ~Follows(release.version, release.version)
  BY PrecedenceIsTotal DEF Publications, Follows
<1>2. CASE releases = {}
  BY <1>1, <1>2 DEF IsHighest
<1>3. CASE releases # {}
  <2>1. PICK one \in releases : \A other \in releases : ~Follows(other.version, one.version)
    BY <1>3 DEF IsHighest
  <2>2. CASE Follows(release.version, one.version)
    <3>1. ~Follows(one.version, release.version)
      BY <1>1, <2>2, PrecedenceIsTotal DEF Follows
    <3>2. \A other \in releases : ~Follows(other.version, release.version)
      BY <1>1, <2>1, <3>1, FollowingIsTransitive
    <3>3. QED BY <1>1, <3>2 DEF IsHighest
  <2>3. CASE ~Follows(release.version, one.version)
    BY <2>1, <2>3 DEF IsHighest
  <2>4. QED BY <2>2, <2>3
<1>4. QED BY <1>2, <1>3
LEMMA HighestKeeps ==
  ASSUME PlanningInv, [Next]_vars
  PROVE  HaveHighest'
<1>1. CASE Releases' = Releases
  BY <1>1 DEF PlanningInv, HaveHighest, StableReleases, IsHighest
<1>2. CASE \E release \in Publications : IsPublished(release)
  <2>1. PICK release \in Publications : Releases' = Releases \cup {release}
    BY <1>2 DEF IsPublished
  <2>2. Releases \subseteq Publications /\ StableReleases \subseteq Publications /\ HaveHighest
    BY DEF PlanningInv, PlanningTyped, Releases, StableReleases
  <2>3. \E one \in Releases' : IsHighest(one, Releases')
    BY <2>1, <2>2, HighestWithOneMore DEF HaveHighest
  <2>4. StableReleases' # {} => \E one \in StableReleases' : IsHighest(one, StableReleases')
    <3>1. CASE release.version.pre = Stable
      <4>1. StableReleases' = StableReleases \cup {release}
        BY <2>1, <3>1 DEF StableReleases
      <4>2. QED BY <2>2, <4>1, HighestWithOneMore DEF HaveHighest
    <3>2. CASE release.version.pre # Stable
      <4>1. StableReleases' = StableReleases
        BY <2>1, <3>2 DEF StableReleases
      <4>2. QED BY <2>2, <4>1 DEF HaveHighest
    <3>3. QED BY <3>1, <3>2
  <2>5. QED BY <2>3, <2>4 DEF HaveHighest, IsHighest
<1>3. QED BY <1>1, <1>2, RegistrySteps

(* An open plan stays what it was when it was made: the commits after it    *)
(* come after its own, and what a person publishes is no managed release.   *)
LEMMA PlanSteps ==
  ASSUME Next
  PROVE  \/ Plans \/ SetsVersion \/ ChoosesTrain
         \/ plan' = NoPlan
         \/ plan' = plan /\ ~Released
  BY DEF Next, Pushed, PushedAside, Pushes, Edited, Dropped, Released, PublishedByHand, Untagged,
         ConfiguredBaseline, CacheAged, NoPlan
LEMMA CommitsStay ==
  ASSUME PlanningTyped, HaveHighest, [Next]_vars
  PROVE  \A i \in DOMAIN history : history'[i] = history[i]
<1>1. history \in Seq(Commits) /\ (history' = history \/ GrowsByOne)
  BY HistoryGrows DEF PlanningTyped, vars
<1>2. ASSUME NEW commit \in Commits, history' = Append(history, commit)
      PROVE  \A i \in DOMAIN history : history'[i] = history[i]
  BY <1>1, <1>2
<1>3. QED BY <1>1, <1>2 DEF GrowsByOne

LEMMA OfferKeeps ==
  ASSUME PlanningInv, [Next]_vars
  PROVE  OfferInv'
<1>1. PlanningTyped /\ HaveHighest /\ OfferInv
  BY DEF PlanningInv
<1>2. CASE plan' = NoPlan
  BY <1>2 DEF OfferInv, IsOffer, NoPlan
<1>3. CASE Plans \/ SetsVersion \/ ChoosesTrain
  <2> SUFFICES ASSUME IsOffer(plan'), Managed # {}
               PROVE  \E latest \in Releases' : OfferedAfter(latest)'
    <3>1. Managed' = Managed
      BY <1>1, <1>3, Answered DEF Managed, Releases
    <3>2. QED BY <3>1 DEF OfferInv
  <2>1. PICK options \in Command : plan' \in Answers(options)
    BY <1>1, <1>3, Answered
  <2>2. Releases' = Releases /\ Managed' = Managed /\ hex # <<>>
    BY <1>1, <1>3, Answered DEF Managed, Releases
  <2>3. PICK latest \in Releases :
          /\ latest = Latest(Releases)
          /\ \A release \in Managed : ~Follows(release.version, latest.version)
    BY <1>1, <2>2, LatestIsHighest DEF Managed
  <2>4. plan'.from = Len(history) /\ Follows(plan'.version, latest.version)
    BY <1>1, <2>1, <2>3, AnswersMoveForward DEF FollowsPublished
  <2>5. history'[plan'.from] = Tip
    <3>1. Next
      BY <1>3 DEF Next
    <3>2. QED BY <1>1, <2>4, <3>1, TipIsACommit, CommitsStay
  <2>6. ~plan'.reviewed /\ Breaks(latest.content, Tip.content) =>
          \A old \in Releases : old.version.pre = Stable => ~SameLine(old.version, plan'.version)
    BY <1>1, <2>1, <2>2, <2>3, OffersLeaveTheLine
  <2>7. Managed \subseteq Releases
    BY DEF Managed
  <2>8. OfferedAfter(latest)'
    BY <2>2, <2>3, <2>4, <2>5, <2>6, <2>7 DEF OfferedAfter
  <2>9. QED BY <2>2, <2>3, <2>8
<1>4. CASE plan' = plan /\ ~Released
  <2> SUFFICES ASSUME IsOffer(plan), plan.options = PlanCommand, Managed # {}
               PROVE  \E latest \in Releases' : OfferedAfter(latest)'
    <3>1. Managed' = Managed
      BY <1>4, RegistrySteps
    <3>2. QED BY <1>4, <3>1 DEF OfferInv
  <2>1. Managed' = Managed /\ Releases \subseteq Releases'
    BY <1>4, RegistrySteps DEF IsPublished
  <2>2. PICK latest \in Releases : OfferedAfter(latest)
    BY <1>1 DEF OfferInv
  <2>3. history'[plan.from] = history[plan.from]
    BY <1>1, CommitsStay DEF PlanningTyped
  <2>4. OfferedAfter(latest)'
    BY <1>4, <2>1, <2>2, <2>3 DEF OfferedAfter
  <2>5. QED BY <2>1, <2>2, <2>4
<1>5. CASE UNCHANGED vars
  BY <1>1, <1>5 DEF vars, OfferInv, IsOffer, OfferedAfter, Managed, Releases
<1>6. QED BY <1>2, <1>3, <1>4, <1>5, PlanSteps

-----------------------------------------------------------------------------
(* A version between two of one line is on that line.                       *)
LEMMA BetweenIsOnTheLine ==
  ASSUME NEW old \in ValidVersions, NEW between \in ValidVersions, NEW new \in ValidVersions,
         ~Follows(old, between), ~Follows(between, new), SameLine(old, new)
  PROVE  SameLine(old, between)
<1>1. CompareCores(between.core, old.core) # -1 /\ CompareCores(new.core, between.core) # -1
  BY FollowersHaveHigherCores
<1>2. old.core \in Cores /\ between.core \in Cores /\ new.core \in Cores
  BY DEF ValidVersions
<1>3. \A core \in Cores : core[1] \in Nat /\ core[2] \in Nat /\ core[3] \in Nat
  BY MaxNumberAssumption DEF Cores
<1>4. ASSUME NEW high \in Cores, NEW low \in Cores, CompareCores(high, low) # -1
      PROVE  high[1] >= low[1] /\ (high[1] = low[1] => high[2] >= low[2])
  BY <1>3, <1>4 DEF CompareCores, Then, Sign
<1>5. /\ between.core[1] >= old.core[1] /\ new.core[1] >= between.core[1]
      /\ between.core[1] = old.core[1] => between.core[2] >= old.core[2]
      /\ new.core[1] = between.core[1] => new.core[2] >= between.core[2]
  BY <1>1, <1>2, <1>4
<1>6. QED BY <1>2, <1>3, <1>5 DEF SameLine

ContentsBuild(old, new) == ClientsBuild(InterfaceOf[old], InterfaceOf[new])
LEMMA BuildsBetween ==
  ASSUME NEW old \in Contents, NEW new \in Contents
  PROVE  /\ ClientsBuildBetween[old, new] = ContentsBuild(old, new)
         /\ ~Breaks(old, new) => ContentsBuild(old, new)
<1>1. IsInterface(InterfaceOf[old]) /\ IsInterface(InterfaceOf[new])
  BY InterfaceOfAssumption
<1>2. QED BY <1>1, NoBreakNoHarm DEF ClientsBuildBetween, ContentsBuild, Breaks

(* The clients of a stable managed release build with the offered one: they *)
(* build with the release that it was required against, which is no older,  *)
(* and clients of that build with the offer, or it would leave the line.    *)
LEMMA OfferedBuilds ==
  ASSUME PlanningInv, Released, ~plan.reviewed, IsOffer(plan), plan.options = PlanCommand,
         NEW old \in Managed, old.version.pre = Stable,
         SameLine(old.version, plan.version),
         \A other \in Releases : Follows(other.version, old.version)
                                 /\ Follows(plan.version, other.version) => other.managed
  PROVE  ClientsBuildBetween[old.content, Tip.content]
<1>1. /\ PlanningTyped /\ OneVersionEach /\ OfferInv /\ CompatibleUpgradesBuild
      /\ Managed \subseteq Releases /\ Releases \subseteq Publications
  BY DEF PlanningInv, PlanningTyped, Managed, Releases
<1>2. PICK latest \in Releases : OfferedAfter(latest)
  BY <1>1 DEF OfferInv
<1>3. /\ old.version \in ValidVersions /\ old.content \in Contents
      /\ latest.version \in ValidVersions /\ latest.content \in Contents
      /\ plan.version \in ValidVersions /\ Tip.content \in Contents
      /\ \A other \in Releases : other.version \in ValidVersions
  BY <1>1, <1>2, TipIsACommit DEF PlanningTyped, Publications, Commits
<1>4. ContentsBuild(latest.content, Tip.content)
  <2>1. Tip.content = history[plan.from].content
    BY DEF Released
  <2>2. ~Breaks(latest.content, Tip.content)
    BY <1>2, <2>1 DEF OfferedAfter
  <2>3. QED BY <1>3, <2>2, BuildsBetween
<1>5. ~Follows(old.version, latest.version) /\ Follows(plan.version, latest.version)
  BY <1>2 DEF OfferedAfter
<1>6. CASE latest.version = old.version
  <2>1. latest = old
    BY <1>1, <1>2, <1>6 DEF OneVersionEach
  <2>2. QED BY <1>3, <1>4, <2>1, BuildsBetween
<1>7. CASE latest.version # old.version
  <2>1. Follows(latest.version, old.version)
    BY <1>3, <1>5, <1>7, PrecedenceIsTotal DEF Follows
  <2>2. latest \in Managed
    BY <1>2, <1>5, <2>1 DEF Managed
  <2>3. SameLine(old.version, latest.version)
    <3>1. ~Follows(latest.version, plan.version)
      BY <1>3, <1>5, PrecedenceIsTotal DEF Follows
    <3>2. QED BY <1>3, <1>5, <3>1, BetweenIsOnTheLine
  <2>4. ASSUME NEW other \in Releases, Follows(other.version, old.version),
               Follows(latest.version, other.version)
        PROVE  other.managed
    <3>1. ~Follows(other.version, latest.version)
      BY <1>3, <2>4, PrecedenceIsTotal DEF Follows
    <3>2. Follows(plan.version, other.version)
      BY <1>3, <1>5, <3>1, FollowingIsTransitive
    <3>3. QED BY <2>4, <3>2
  <2>5. ClientsBuildBetween[old.content, latest.content]
    BY <1>1, <2>1, <2>2, <2>3, <2>4 DEF CompatibleUpgradesBuild, Managed
  <2>6. ContentsBuild(old.content, Tip.content)
    <3>1. ContentsBuild(old.content, latest.content)
      BY <1>3, <2>5, BuildsBetween
    <3>2. QED BY <1>4, <3>1, BuildingIsTransitive DEF ContentsBuild
  <2>7. QED BY <1>3, <2>6, BuildsBetween
<1>8. QED BY <1>6, <1>7

LEMMA BuildKeeps ==
  ASSUME PlanningInv, [Next]_vars
  PROVE  CompatibleUpgradesBuild'
<1>1. /\ PlanningTyped /\ OfferInv /\ CompatibleUpgradesBuild
      /\ Managed \subseteq Releases /\ Releases \subseteq Publications
  BY DEF PlanningInv, PlanningTyped, Managed, Releases
<1> SUFFICES ASSUME NEW old \in Managed', NEW new \in Managed',
                    old.version.pre = Stable, Follows(new.version, old.version),
                    SameLine(old.version, new.version),
                    \A other \in Releases' : Follows(other.version, old.version)
                                             /\ Follows(new.version, other.version) => other.managed
             PROVE  ClientsBuildBetween[old.content, new.content]
  BY DEF CompatibleUpgradesBuild, Managed, ClientsBuildBetween
<1>2. CASE old \in Managed /\ new \in Managed
  <2>1. Releases \subseteq Releases'
    BY RegistrySteps DEF IsPublished
  <2>2. QED BY <1>1, <1>2, <2>1 DEF CompatibleUpgradesBuild, Managed
<1>3. CASE ~(old \in Managed /\ new \in Managed)
  <2> DEFINE release == Release(plan.version, Tip.content, ~plan.reviewed)
  <2>1. /\ Released /\ IsOffer(plan) /\ plan.options = PlanCommand
        /\ release \in Publications /\ IsPublished(release)
    BY <1>3, RegistrySteps
  <2>2. /\ release.version = plan.version /\ release.content = Tip.content
        /\ release.managed = ~plan.reviewed
    BY DEF Release
  <2> HIDE DEF release
  <2>3. /\ Releases' = Releases \cup {release}
        /\ old \in Managed \/ old = release
        /\ new \in Managed \/ new = release
        /\ old = release \/ new = release => ~plan.reviewed
    BY <2>1, <2>2 DEF IsPublished, Managed
  <2>4. /\ plan.version \in ValidVersions
        /\ \A it \in Managed : it.version \in ValidVersions /\ Follows(plan.version, it.version)
    <3>1. plan.version \in ValidVersions
      BY <1>1, <2>1 DEF PlanningTyped
    <3>2. CASE Managed = {}
      BY <3>1, <3>2
    <3>3. CASE Managed # {}
      <4>1. PICK latest \in Releases : OfferedAfter(latest)
        BY <1>1, <2>1, <3>3 DEF OfferInv
      <4>2. latest.version \in ValidVersions /\ \A it \in Managed : it.version \in ValidVersions
        BY <1>1, <4>1 DEF Publications
      <4>3. QED BY <3>1, <4>1, <4>2, FollowingIsTransitive DEF OfferedAfter
    <3>4. QED BY <3>2, <3>3
  <2>5. old \in Managed /\ new = release
    <3>1. ~Follows(plan.version, plan.version)
      BY <2>4, PrecedenceIsTotal DEF Follows
    <3>2. \A it \in Managed : ~Follows(it.version, plan.version)
      BY <2>4, PrecedenceIsTotal DEF Follows
    <3>3. QED BY <1>3, <2>2, <2>3, <3>1, <3>2
  <2>6. QED BY <2>1, <2>2, <2>3, <2>5, OfferedBuilds
<1>4. QED BY <1>2, <1>3

-----------------------------------------------------------------------------
(* Whatever people and the planner do, in whatever order, the history and   *)
(* the registry stay what they are, and an open plan offers a version that  *)
(* was required against the highest release of its time (plan, planner.rs). *)
THEOREM PlanningInvariance == Spec => []PlanningInv
<1>1. Init => PlanningInv
  <2> SUFFICES ASSUME Init PROVE PlanningInv
    OBVIOUS
  <2>1. Releases = {}
    BY DEF Init, Releases
  <2>2. PlanningTyped
    <3>1. PICK content \in FirstContents, version \in FirstVersions, channels \in Trains :
            history = <<Commit(content, "none", version, channels)>>
      BY DEF Init
    <3>2. Commit(content, "none", version, channels) \in Commits
      BY ContentsAssumption, VersionsAssumption, TrainsAreChannels DEF Commit, Commits, Bump
    <3>3. history \in Seq(Commits) /\ history # <<>>
      BY <3>1, <3>2
    <3>4. hex \in Seq(Publications) /\ ~IsOffer(plan)
      BY DEF Init, IsOffer, NoPlan
    <3>5. QED BY <3>3, <3>4 DEF PlanningTyped
  <2>3. OneVersionEach /\ HaveHighest /\ CompatibleUpgradesBuild
    BY <2>1 DEF OneVersionEach, HaveHighest, StableReleases, CompatibleUpgradesBuild
  <2>4. OfferInv
    BY DEF Init, OfferInv, IsOffer, NoPlan
  <2>5. QED BY <2>2, <2>3, <2>4 DEF PlanningInv
<1>2. PlanningInv /\ [Next]_vars => PlanningInv'
  BY TypesKeep, OneVersionKeeps, HighestKeeps, OfferKeeps, BuildKeeps DEF PlanningInv
<1>3. QED BY <1>1, <1>2, PTL DEF Spec

(* A client of a managed stable release builds with every later managed     *)
(* release of its line, whatever was planned, pushed, edited or published   *)
(* by hand between their plans (plan, planner.rs; compare, api.rs).         *)
THEOREM UpgradesBuild == Spec => []CompatibleUpgradesBuild
<1>1. PlanningInv => CompatibleUpgradesBuild
  BY DEF PlanningInv
<1>2. QED BY <1>1, PlanningInvariance, PTL

-----------------------------------------------------------------------------
(* What a new plan is: the answer to a command, or the end of the last one. *)
LEMMA NewPlans ==
  ASSUME PlanningInv, [Next]_vars, plan' # plan
  PROVE  plan' = NoPlan \/ \E options \in Command : plan' \in Answers(options)
<1>1. Next /\ PlanningTyped /\ HaveHighest
  BY DEF vars, PlanningInv
<1>2. QED BY <1>1, PlanSteps, Answered
LEMMA AnswersToExisting ==
  ASSUME hex # <<>>, NEW options, NEW answer \in Answers(options)
  PROVE  \E known \in BOOLEAN, exception \in Exceptions :
           answer = ExistingPlan(options, known, exception)
<1>1. CASE options = PlanCommand
  BY <1>1 DEF Answers
<1>2. CASE options # PlanCommand
  <2>1. answer = ExistingPlan(options, TRUE, "none") /\ "none" \in Exceptions
    BY <1>2 DEF Answers, Exceptions
  <2>2. QED BY <2>1
<1>3. QED BY <1>1, <1>2

(* Every plan to release names a version above all that is published.       *)
LEMMA NewPlansMoveForward ==
  ASSUME PlanningInv, [Next]_vars, plan' # plan, plan'.required
  PROVE  /\ FollowsPublished(plan'.version) /\ Fits(plan'.version)
         /\ hex # <<>> /\ TrainMovesBack(Latest(Releases).version, plan'.options) =>
              /\ CoreFollows(plan'.version.core, Latest(Releases).version.core)
              /\ CoreFollows(Requested(plan'.options).core, Latest(Releases).version.core)
<1>1. plan' # NoPlan
  BY DEF NoPlan
<1>2. PICK options \in Command : plan' \in Answers(options)
  BY <1>1, NewPlans
<1>3. PICK answer \in Answers(options) : answer = plan'
  BY <1>2
<1>4. IsOffer(answer) /\ answer.options = options
  BY <1>3, AnswersMoveForward DEF PlanningInv
<1>5. QED BY <1>3, <1>4, AnswersMoveForward, ValidVersionsFit DEF PlanningInv

(* A plan to release names a version above every published one, with        *)
(* numbers in range, and goes back along the train only onto a higher core  *)
(* that the manifest named (select_version, selection.rs; plan, planner.rs).*)
THEOREM PlannedVersionsMoveForward == Spec => VersionsMoveForward
<1>1. PlanningInv /\ [Next]_vars =>
        [plan' # plan /\ plan'.required =>
           /\ FollowsPublished(plan'.version) /\ Fits(plan'.version)
           /\ hex # <<>> /\ TrainMovesBack(Latest(Releases).version, plan'.options) =>
                /\ CoreFollows(plan'.version.core, Latest(Releases).version.core)
                /\ CoreFollows(Requested(plan'.options).core, Latest(Releases).version.core)]_vars
  BY NewPlansMoveForward
<1>2. QED BY <1>1, PlanningInvariance, PTL DEF Spec, VersionsMoveForward

-----------------------------------------------------------------------------
(* A set of places in a sequence has a last one.                            *)
LEMMA LastPlace ==
  ASSUME NEW n \in Nat, NEW places \in SUBSET (1 .. n), places # {}
  PROVE  \E i \in places : \A j \in places : j <= i
<1> DEFINE distances == {n - i : i \in places}
<1>1. distances \in SUBSET Nat /\ distances # {}
  <2>1. \A i \in places : n - i \in Nat
    OBVIOUS
  <2>2. QED BY <2>1
<1>2. PICK least \in distances : \A other \in distances : least <= other
  BY <1>1, LeastNumber
<1>3. PICK i \in places : least = n - i
  BY <1>2
<1>4. ASSUME NEW j \in places PROVE j <= i
  <2>1. n - i <= n - j
    BY <1>2, <1>3
  <2>2. QED BY <2>1
<1>5. QED BY <1>4

(* Where the baseline is found, and that it is what it should be.           *)
LEMMA BaselinesMatch ==
  ASSUME PlanningTyped
  PROVE  /\ Baseline.source \in {"cache", "search"} =>
              history[Baseline.at].content = Latest(Releases).content
         /\ Baseline.source = "tag" =>
              /\ Latest(Releases).version \in DOMAIN tags
              /\ Baseline.at = tags[Latest(Releases).version]
         /\ Latest(Releases).version \in DOMAIN tags =>
              Baseline = Found("tag", tags[Latest(Releases).version])
<1> DEFINE latest == Latest(Releases)
           matches == {i \in Window : history[i].content = latest.content}
           newest == CHOOSE i \in matches : \A j \in matches : j <= i
<1> HIDE DEF latest
<1>1. Baseline =
        CASE latest.version \in DOMAIN tags -> Found("tag", tags[latest.version])
          [] latest.version \notin DOMAIN tags /\ latest.version \in DOMAIN refs ->
               Found("config", refs[latest.version])
          [] OTHER -> IF Cached(latest) THEN Found("cache", cache[latest.version])
                      ELSE IF matches # {} THEN Found("search", newest)
                      ELSE IF Truncated THEN Found("truncated", 0)
                      ELSE Found("unmatched", 0)
  BY DEF Baseline, FindBaseline, latest
<1>2. matches # {} => newest \in matches
  <2>1. matches \subseteq 1 .. Len(history) /\ Len(history) \in Nat
    BY DEF PlanningTyped, Window
  <2> HIDE DEF matches
  <2>2. matches # {} => \E i \in matches : \A j \in matches : j <= i
    BY <2>1, LastPlace
  <2>3. QED BY <2>2
<1> HIDE DEF newest
<1>3. matches # {} => history[newest].content = latest.content
  BY <1>2
<1> HIDE DEF matches
<1>4. CASE latest.version \in DOMAIN tags
  <2>1. Baseline = Found("tag", tags[latest.version])
    BY <1>1, <1>4
  <2>2. QED BY <1>4, <2>1 DEF Found, latest
<1>5. CASE latest.version \notin DOMAIN tags /\ latest.version \in DOMAIN refs
  <2>1. Baseline = Found("config", refs[latest.version])
    BY <1>1, <1>5
  <2>2. QED BY <1>5, <2>1 DEF Found, latest
<1>6. CASE latest.version \notin DOMAIN tags /\ latest.version \notin DOMAIN refs
  <2>1. Baseline = IF Cached(latest) THEN Found("cache", cache[latest.version])
                   ELSE IF matches # {} THEN Found("search", newest)
                   ELSE IF Truncated THEN Found("truncated", 0)
                   ELSE Found("unmatched", 0)
    BY <1>1, <1>6
  <2>2. CASE Cached(latest)
    <3>1. Baseline = Found("cache", cache[latest.version])
      BY <2>1, <2>2
    <3>2. history[cache[latest.version]].content = latest.content
      BY <2>2 DEF Cached
    <3>3. QED BY <1>6, <3>1, <3>2 DEF Found, latest
  <2>3. CASE ~Cached(latest) /\ matches # {}
    <3>1. Baseline = Found("search", newest)
      BY <2>1, <2>3
    <3>2. QED BY <1>3, <1>6, <2>3, <3>1 DEF Found, latest
  <2>4. CASE ~Cached(latest) /\ matches = {}
    BY <1>6, <2>1, <2>4 DEF Found, latest
  <2>5. QED BY <2>2, <2>3, <2>4
<1>7. QED BY <1>4, <1>5, <1>6

(* A plan that finds nothing due has nothing to tell since its baseline.    *)
LEMMA NothingDue ==
  ASSUME PlanningTyped, HaveHighest, hex # <<>>, NEW options \in Command, NEW known \in BOOLEAN,
         ~IsDue(options, known)
  PROVE  /\ Tip.content = Latest(Releases).content
         /\ \A i \in DOMAIN history : i > Baseline.at => history[i].message = "none"
         /\ \A channel \in Configured(options) :
              StartsWith(Latest(Releases).version.pre, channel)
<1> DEFINE latest == Latest(Releases)
<1>1. Step(options, known) = "none" /\ ~Transition(options)
  BY DEF IsDue
<1>2. latest \in Publications /\ Transition(options) \in BOOLEAN
      /\ Configured(options) \in OneOrNone(Channel)
  BY LatestIsHighest, PartsOfPlans, WhatIsAsked
<1> HIDE DEF latest
<1>3. SignalsSince(latest, Baseline.at, known) \subseteq {"none"}
  BY <1>1, <1>2, WhatIsRequired DEF Step, latest
<1>4. Tip.content = latest.content
  BY <1>3 DEF SignalsSince
<1>5. ASSUME NEW i \in DOMAIN history, i > Baseline.at PROVE history[i].message = "none"
  <2>1. i \in {j \in DOMAIN history : j > Baseline.at}
    BY <1>5
  <2>2. history[i].message \in {history[k].message : k \in {j \in DOMAIN history : j > Baseline.at}}
    BY <2>1
  <2>3. history[i].message \in SignalsSince(latest, Baseline.at, known)
    BY <2>2 DEF SignalsSince
  <2>4. QED BY <1>3, <2>3
<1>6. \A channel \in Configured(options) : StartsWith(latest.version.pre, channel)
  <2>1. ~TrainTransition(latest.version, Configured(options))
    BY <1>1 DEF Transition, latest
  <2>2. QED BY <1>2, <2>1 DEF TrainTransition, OneOrNone
<1>7. QED BY <1>4, <1>5, <1>6 DEF latest

LEMMA NewPlansMissNothing ==
  ASSUME PlanningInv, [Next]_vars, plan' # plan
  PROVE  LET latest == Latest(Releases)
         IN /\ plan'.source \in {"cache", "search"} =>
                 history[plan'.baseline].content = latest.content
            /\ plan'.ok /\ ~plan'.required =>
                 /\ Tip.content = latest.content
                 /\ plan'.source = "tag" =>
                      \A i \in DOMAIN history :
                         i > tags[latest.version] => history[i].message = "none"
                 /\ \A channel \in Configured(plan'.options) :
                      StartsWith(latest.version.pre, channel)
<1>1. PlanningTyped /\ HaveHighest
  BY DEF PlanningInv
<1>2. CASE plan' = NoPlan
  BY <1>2 DEF NoPlan
<1>3. CASE \E options \in Command : plan' \in Answers(options)
  <2>1. PICK options \in Command : plan' \in Answers(options)
    BY <1>3
  <2>2. CASE hex = <<>>
    <3>1. plan' = InitialPlan(options)
      BY <2>1, <2>2 DEF Answers
    <3>2. plan'.source \in {"none", "initial"} /\ (plan'.ok => plan'.required)
      BY <1>1, <3>1, InitialPlans
    <3>3. QED BY <3>2
  <2>3. CASE hex # <<>>
    <3>1. PICK known \in BOOLEAN, exception \in Exceptions :
            plan' = ExistingPlan(options, known, exception)
      BY <2>1, <2>3, AnswersToExisting
    <3>2. /\ plan'.options = options
          /\ \/ ~plan'.ok /\ plan'.source = "none"
             \/ plan' = Answer(options, Choice(options, known).version, IsDue(options, known),
                               Baseline, ~known)
      BY <3>1, ExistingPlans
    <3>3. CASE ~plan'.ok /\ plan'.source = "none"
      BY <3>3
    <3>4. CASE plan' = Answer(options, Choice(options, known).version, IsDue(options, known),
                              Baseline, ~known)
      <4>1. /\ plan'.source = Baseline.source /\ plan'.baseline = Baseline.at
            /\ plan'.required = IsDue(options, known)
        BY <3>4 DEF Answer
      <4>2. QED BY <1>1, <2>3, <3>2, <4>1, BaselinesMatch, NothingDue
    <3>5. QED BY <3>2, <3>3, <3>4
  <2>4. QED BY <2>2, <2>3
<1>4. QED BY <1>2, <1>3, NewPlans

(* Nothing unreleased is missed: a baseline that the cache or the search    *)
(* finds has the published content, and a plan that finds nothing due has   *)
(* nothing to tell since the release (find_baseline, plan, planner.rs).     *)
THEOREM PlansMissNothing == Spec => NothingIsMissed
<1>1. PlanningInv /\ [Next]_vars =>
        [LET latest == Latest(Releases)
         IN plan' # plan =>
           /\ plan'.source \in {"cache", "search"} =>
                history[plan'.baseline].content = latest.content
           /\ plan'.ok /\ ~plan'.required =>
                /\ Tip.content = latest.content
                /\ plan'.source = "tag" =>
                     \A i \in DOMAIN history :
                        i > tags[latest.version] => history[i].message = "none"
                /\ \A channel \in Configured(plan'.options) :
                     StartsWith(latest.version.pre, channel)]_vars
  BY NewPlansMissNothing
<1>2. QED BY <1>1, PlanningInvariance, PTL DEF Spec, NothingIsMissed

-----------------------------------------------------------------------------
LEMMA NewPlansSettle ==
  ASSUME PlanningInv, [Next]_vars, plan' # plan, plan'.options = PlanCommand, hex # <<>>,
         Tip.content = Latest(Releases).content, Tip.manifest = Latest(Releases).version,
         ~TrainTransition(Latest(Releases).version, Tip.channels),
         Latest(Releases).version \in DOMAIN tags,
         tags[Latest(Releases).version] = Len(history)
  PROVE  ~plan'.required /\ plan'.refusal \in {"none", "exception", "unknown_api", "version_zero"}
<1> DEFINE latest == Latest(Releases)
<1>1. PlanningTyped /\ HaveHighest
  BY DEF PlanningInv
<1>2. CASE plan' = NoPlan
  BY <1>2 DEF NoPlan
<1>3. CASE \E options \in Command : plan' \in Answers(options)
  <2>1. PICK options \in Command : plan' \in Answers(options)
    BY <1>3
  <2>2. options = PlanCommand
    <3>1. PICK answer \in Answers(options) : answer = plan'
      BY <2>1
    <3>2. QED BY <1>1, <3>1, AnswersMoveForward
  <2>3. PICK known \in BOOLEAN, exception \in Exceptions :
          plan' = ExistingPlan(options, known, exception)
    BY <2>1, AnswersToExisting
  <2>4. latest \in Publications /\ latest.version \in ValidVersions /\ latest.content \in Contents
    BY <1>1, LatestIsHighest DEF Publications
  <2>5. Requested(options) = latest.version /\ Configured(options) = Tip.channels
    BY <2>2 DEF PlanCommand, Options, Requested, Configured
  <2>6. ~Follows(latest.version, latest.version)
    BY <2>4, PrecedenceIsTotal DEF Follows
  <2>7. ~Transition(options) /\ Transition(options) \in BOOLEAN /\ Explicits(options) = {}
    BY <2>5, <2>6 DEF Transition, TrainTransition, Explicits, ExplicitRequest
  <2>8. Baseline.at = Len(history) /\ Len(history) \in Nat \ {0}
    <3>1. Baseline = Found("tag", Len(history))
      BY <1>1, BaselinesMatch
    <3>2. QED BY <1>1, <3>1 DEF Found, PlanningTyped
  <2> HIDE DEF latest
  <2>9. SignalsSince(latest, Baseline.at, known) \subseteq {"none"}
    <3>1. ImpactBetween[latest.content, latest.content] = "none"
      BY <2>4, ImpactsBetween, NoChangeFromItself
    <3>2. \A i \in DOMAIN history : ~(i > Baseline.at)
      BY <1>1, <2>8 DEF PlanningTyped
    <3>3. QED BY <3>1, <3>2 DEF SignalsSince, latest
  <2>10. Step(options, known) = "none"
    BY <1>1, <2>4, <2>7, <2>9, WhatIsRequired DEF Step, latest
  <2>11. IsDue(options, known) = FALSE
    BY <2>7, <2>10 DEF IsDue
  <2>12. Choice(options, known).refusal \in {"none", "version_zero"}
    BY <2>11 DEF Choice, Decision, ZeroEnforced, Taken, Refused
  <2>13. ~Follows(latest.version, Requested(options)) /\ Baseline.at # 0
    BY <2>5, <2>6, <2>8
  <2>14. CASE plan'.ok
    <3>1. plan' = Answer(options, Choice(options, known).version, IsDue(options, known),
                         Baseline, ~known)
      BY <2>3, <2>14, ExistingPlans
    <3>2. QED BY <2>11, <3>1 DEF Answer
  <2>15. CASE ~plan'.ok
    <3>1. ~plan'.required
      BY <2>3, <2>11, <2>15, ExistingPlans DEF Answer
    <3>2. plan'.refusal \in {"exception", "unknown_api", Choice(options, known).refusal}
      BY <2>3, <2>13, <2>15, ExistingPlans DEF latest
    <3>3. QED BY <2>12, <3>1, <3>2
  <2>16. QED BY <2>14, <2>15
<1>4. QED BY <1>2, <1>3, NewPlans

(* A release settles: planned again at its own commit, on its own train, it *)
(* asks for nothing, so that the job on every push comes to rest (plan,     *)
(* planner.rs).                                                             *)
THEOREM ReleasesSettle == Spec => ReleaseSettles
<1>1. PlanningInv /\ [Next]_vars =>
        [LET latest == Latest(Releases)
         IN /\ plan' # plan /\ plan'.options = PlanCommand /\ hex # <<>>
            /\ latest.managed /\ Tip.content = latest.content
            /\ Tip.manifest = latest.version
            /\ ~TrainTransition(latest.version, Tip.channels)
            /\ latest.version \in DOMAIN tags /\ tags[latest.version] = Len(history)
            => ~plan'.required
               /\ plan'.refusal \in {"none", "exception", "unknown_api", "version_zero"}]_vars
  BY NewPlansSettle
<1>2. QED BY <1>1, PlanningInvariance, PTL DEF Spec, ReleaseSettles

-----------------------------------------------------------------------------
(* The state of the changelog, by its parts.  What is said of the files of  *)
(* a commit is said of the version, the book and the commit that they were  *)
(* rendered from, whether they landed or are proposed.                      *)
Books ==
  UNION {[loose : SUBSET Lines, sections : [versions -> SUBSET Lines]] : versions \in SUBSET Planned}
Landings ==
  [pull : Nat, excluded : BOOLEAN, book : Books, version : Nat, selects : Nat, from : Nat]
NoteFiles == [id : Nat, pull : Nat, since : Nat \ {0}]
Filings == [version : Nat, book : Books, from : Nat]
Published == [version : Nat, at : Nat, notes : SUBSET Lines]

ChangelogTyped ==
  /\ landed \in Seq(Landings) /\ landed # <<>>
  /\ \A i \in DOMAIN landed : landed[i].from <= Len(landed)
  /\ notes \in SUBSET NoteFiles /\ IsFiniteSet(notes)
  /\ target \in Nat
  /\ proposal \in Filings /\ proposal.from <= Len(landed)
  /\ published \in Seq(Published)
  /\ \A k \in DOMAIN published : published[k].at \in DOMAIN landed

FilesOf(landing) ==
  [version |-> landing.version, book |-> landing.book, from |-> landing.from]
Files == {FilesOf(landed[i]) : i \in DOMAIN landed} \cup {proposal}

(* The section of the version tells every change since the last release,    *)
(* and the book has every note, up to the commit they were rendered from.   *)
TellsAll(lines, after, to) == \A i \in after + 1 .. to : landed[i].excluded \/ Told(lines, i)
IsKept(book, n) ==
  \/ n.id \in IdsMarked(book, Planned)
  \/ n.pull # 0 /\ \E line \in LinesOf(book, Planned) : line.pull = n.pull
KeepsNotes(book, to) == \A n \in notes : n.since <= to => IsKept(book, n)
IsTold(file) ==
  /\ file.version # 0 => /\ file.version \in DOMAIN file.book.sections
                         /\ TellsAll(file.book.sections[file.version], Since, file.from)
  /\ KeepsNotes(file.book, file.from)

ChangelogInv ==
  ChangelogTyped /\ ChangesAreTold /\ \A file \in Files : IsTold(file)

(* The parts of a book.                                                     *)
LEMMA PartsOfBooks ==
  ASSUME NEW book \in Books
  PROVE  /\ book.loose \in SUBSET Lines
         /\ DOMAIN book.sections \subseteq Planned
         /\ \A v \in DOMAIN book.sections : book.sections[v] \in SUBSET Lines
         /\ book.sections = [v \in DOMAIN book.sections |-> book.sections[v]]
         /\ book = Book(book.loose, book.sections)
<1>1. PICK versions \in SUBSET Planned :
        book \in [loose : SUBSET Lines, sections : [versions -> SUBSET Lines]]
  BY DEF Books
<1>2. QED BY <1>1 DEF Book
LEMMA BooksAreMade ==
  ASSUME NEW loose \in SUBSET Lines, NEW versions \in SUBSET Planned,
         NEW sections \in [versions -> SUBSET Lines]
  PROVE  Book(loose, sections) \in Books
  BY DEF Book, Books
LEMMA BooksAreBooks ==
  ASSUME NEW book, IsBook(book)
  PROVE  book \in Books
  BY DEF IsBook, Books
LEMMA LinesAreWritten ==
  ASSUME NEW by \in {"prepared", "hand", "commit", "pull", "note"}, NEW id \in Nat, NEW pull \in Nat
  PROVE  /\ Line(by, id, pull) \in Lines
         /\ Line(by, id, pull).by = by /\ Line(by, id, pull).id = id
         /\ Line(by, id, pull).pull = pull
  BY DEF Line, Lines

(* A rendered book has the entries in the section of its version, and every *)
(* line of the others, and those that stood under the heading.              *)
LEMMA RenderedBooks ==
  ASSUME NEW book \in Books, NEW version \in Planned, NEW entries \in SUBSET Lines
  PROVE  LET after == Render(book, version, entries)
         IN /\ after \in Books
            /\ version \in DOMAIN after.sections
            /\ entries \subseteq after.sections[version]
            /\ entries \subseteq LinesOf(after, Planned)
            /\ LinesOf(book, Planned \ {version}) \subseteq LinesOf(after, Planned)
<1> DEFINE lines == IF entries = {} THEN Prepared ELSE entries
           others == [v \in DOMAIN book.sections \ {version} |-> book.sections[v]]
           section == IF version \in DOMAIN book.sections THEN lines ELSE lines \cup book.loose
           loose == IF version \in DOMAIN book.sections THEN book.loose ELSE {}
           versions == (DOMAIN book.sections \ {version}) \cup {version}
           sections == [v \in versions |-> IF v = version THEN section ELSE book.sections[v]]
           after == Render(book, version, entries)
<1>1. /\ book.loose \in SUBSET Lines
      /\ DOMAIN book.sections \subseteq Planned
      /\ \A v \in DOMAIN book.sections : book.sections[v] \in SUBSET Lines
  BY PartsOfBooks
<1>2. after = Book(loose, sections)
  <2>1. DOMAIN others = DOMAIN book.sections \ {version}
    OBVIOUS
  <2>2. after = Book(loose, [v \in DOMAIN others \cup {version} |->
                               IF v = version THEN section ELSE others[v]])
    BY DEF Render
  <2>3. [v \in DOMAIN others \cup {version} |-> IF v = version THEN section ELSE others[v]] = sections
    BY <2>1
  <2>4. QED BY <2>2, <2>3
<1>3. lines \in SUBSET Lines /\ entries \subseteq lines
  BY LinesAreWritten DEF Prepared
<1>4. section \in SUBSET Lines /\ entries \subseteq section /\ loose \in SUBSET Lines
      /\ book.loose \subseteq loose \cup section
  BY <1>1, <1>3
<1> HIDE DEF lines, section, loose, after
<1>5. sections \in [versions -> SUBSET Lines] /\ versions \in SUBSET Planned
  BY <1>1, <1>4
<1>6. /\ after.loose = loose /\ after.sections = sections
      /\ DOMAIN sections = versions /\ version \in versions /\ sections[version] = section
      /\ \A v \in DOMAIN book.sections \ {version} : v \in versions /\ sections[v] = book.sections[v]
  BY <1>2 DEF Book
<1> HIDE DEF sections, versions
<1>7. after \in Books
  BY <1>2, <1>4, <1>5, BooksAreMade
<1>8. section \subseteq LinesOf(after, Planned) /\ loose \subseteq LinesOf(after, Planned)
  BY <1>6 DEF LinesOf
<1>9. ASSUME NEW line \in LinesOf(book, Planned \ {version})
      PROVE  line \in LinesOf(after, Planned)
  <2>1. CASE line \in book.loose
    BY <1>4, <1>8, <2>1
  <2>2. CASE line \notin book.loose
    <3>1. PICK v \in DOMAIN book.sections \cap (Planned \ {version}) : line \in book.sections[v]
      BY <2>2 DEF LinesOf
    <3>2. v \in DOMAIN after.sections \cap Planned /\ line \in after.sections[v]
      BY <1>6, <3>1
    <3>3. QED BY <3>2 DEF LinesOf
  <2>3. QED BY <2>1, <2>2
<1>10. QED BY <1>4, <1>6, <1>7, <1>8, <1>9 DEF after

(* A note that is merged is there, or its pull request is: the first of the *)
(* notes about one is dropped only when a change describes it.              *)
LEMMA MergedNotes ==
  ASSUME NEW entries \in SUBSET Lines, NEW pending \in SUBSET NoteFiles
  PROVE  /\ Merged(entries, pending) \in SUBSET Lines
         /\ entries \subseteq Merged(entries, pending)
         /\ \A n \in pending : \E line \in Merged(entries, pending) :
              \/ line.by = "note" /\ line.id = n.id
              \/ n.pull # 0 /\ line.pull = n.pull
<1> DEFINE described == {entry.pull : entry \in entries}
           dropped == {n \in pending :
                        n.pull # 0 /\ (\/ n.pull \in described
                                       \/ \E other \in pending : other.id < n.id /\ other.pull = n.pull)}
           merged == Merged(entries, pending)
<1>1. merged = entries \cup {Line("note", n.id, n.pull) : n \in pending \ dropped}
  BY DEF Merged
<1> HIDE DEF merged
<1>2. ASSUME NEW n \in pending
      PROVE  n.id \in Nat /\ n.pull \in Nat /\ Line("note", n.id, n.pull) \in Lines
             /\ Line("note", n.id, n.pull).by = "note" /\ Line("note", n.id, n.pull).id = n.id
             /\ Line("note", n.id, n.pull).pull = n.pull
  <2>1. n.id \in Nat /\ n.pull \in Nat
    BY DEF NoteFiles
  <2>2. QED BY <2>1, LinesAreWritten
<1>3. ASSUME NEW n \in pending \ dropped PROVE Line("note", n.id, n.pull) \in merged
  BY <1>1
<1>4. ASSUME NEW n \in pending
      PROVE  \E line \in merged : \/ line.by = "note" /\ line.id = n.id
                                  \/ n.pull # 0 /\ line.pull = n.pull
  <2>1. CASE n \notin dropped
    BY <1>2, <1>3, <2>1
  <2>2. CASE n.pull # 0 /\ n.pull \in described
    BY <1>1, <2>2
  <2>3. CASE n.pull # 0 /\ n.pull \notin described
    <3> DEFINE about == {other \in pending : other.pull = n.pull}
               ids == {other.id : other \in about}
    <3>1. ids \in SUBSET Nat /\ ids # {}
      BY <1>2
    <3>2. PICK id \in ids : \A one \in ids : id <= one
      BY <3>1, LeastNumber
    <3>3. PICK first \in about : first.id = id
      BY <3>2
    <3>4. \A other \in about : ~(other.id < first.id)
      <4>1. \A other \in about : first.id <= other.id /\ other.id \in Nat /\ first.id \in Nat
        BY <1>2, <3>2, <3>3
      <4>2. QED BY <4>1
    <3>5. first \in pending \ dropped /\ first.pull = n.pull
      BY <2>3, <3>3, <3>4
    <3>6. QED BY <1>2, <1>3, <2>3, <3>5
  <2>4. QED BY <2>1, <2>2, <2>3
<1>5. QED BY <1>1, <1>2, <1>4 DEF merged

(* What the commits since the last release are told as.                     *)
LEMMA EntriesTell ==
  ASSUME ChangelogTyped, NEW commits \in SUBSET DOMAIN landed
  PROVE  /\ Entries(commits) \in SUBSET Lines
         /\ \A i \in commits : landed[i].excluded \/ Told(Entries(commits), i)
<1>1. ASSUME NEW i \in commits
      PROVE  /\ Entry(commits, i) \in Lines
             /\ \/ Entry(commits, i) = ByCommit(i)
                \/ Entry(commits, i).by = "pull" /\ Entry(commits, i).pull = landed[i].pull
  <2>1. i \in Nat /\ landed[i].pull \in Nat
    <3>1. i \in DOMAIN landed /\ landed \in Seq(Landings)
      BY DEF ChangelogTyped
    <3>2. landed[i] \in Landings /\ i \in Nat
      BY <3>1
    <3>3. QED BY <3>2 DEF Landings
  <2>2. ByCommit(i) \in Lines /\ Line("pull", landed[i].pull, landed[i].pull) \in Lines
        /\ Line("pull", landed[i].pull, landed[i].pull).by = "pull"
        /\ Line("pull", landed[i].pull, landed[i].pull).pull = landed[i].pull
    BY <2>1, LinesAreWritten DEF ByCommit
  <2>3. QED BY <2>2 DEF Entry
<1>2. Entries(commits) \in SUBSET Lines
  BY <1>1 DEF Entries
<1>3. ASSUME NEW i \in commits, ~landed[i].excluded
      PROVE  Told(Entries(commits), i)
  <2>1. Entry(commits, i) \in Entries(commits)
    BY <1>3 DEF Entries, IsExcluded
  <2>2. QED BY <1>1, <2>1 DEF Told
<1>4. QED BY <1>2, <1>3

(* What is rendered at the tip.                                             *)
LEMMA TipHasLanded ==
  ASSUME ChangelogTyped
  PROVE  /\ Len(landed) \in DOMAIN landed /\ Len(landed) \in Nat
         /\ Last(landed) = landed[Len(landed)] /\ Last(landed) \in Landings
         /\ Since \in 0 .. Len(landed) /\ Highest \in Nat
<1>1. Len(landed) \in DOMAIN landed /\ Len(landed) \in Nat /\ landed[Len(landed)] \in Landings
      /\ DOMAIN landed = 1 .. Len(landed)
  BY DEF ChangelogTyped
<1>2. CASE published = <<>>
  BY <1>1, <1>2 DEF Last, Since, Highest
<1>3. CASE published # <<>>
  <2>1. Len(published) \in DOMAIN published /\ published[Len(published)] \in Published
    BY <1>3 DEF ChangelogTyped
  <2>2. Last(published).at \in DOMAIN landed /\ Last(published).version \in Nat
    BY <2>1 DEF ChangelogTyped, Last, Published
  <2>3. QED BY <1>1, <1>3, <2>2 DEF Since, Highest, Last
<1>4. QED BY <1>2, <1>3
LEMMA RenderedIsTold ==
  ASSUME ChangelogTyped, target \in Planned
  PROVE  /\ Rendered \in Books
         /\ target \in DOMAIN Rendered.sections
         /\ TellsAll(Rendered.sections[target], Since, Len(landed))
         /\ KeepsNotes(Rendered, Len(landed))
<1> DEFINE book == Last(landed).book
           commits == {i \in DOMAIN landed : i > Since}
           pending == {n \in notes : n.id \notin Historical(book, target)}
           merged == Merged(Entries(commits), pending)
<1>1. Rendered = Render(book, target, merged)
  BY DEF Rendered
<1>2. book \in Books
  BY TipHasLanded DEF Landings
<1>3. Entries(commits) \in SUBSET Lines
      /\ \A i \in commits : landed[i].excluded \/ Told(Entries(commits), i)
  BY EntriesTell
<1>4. pending \in SUBSET NoteFiles
  BY DEF ChangelogTyped
<1>5. /\ merged \in SUBSET Lines /\ Entries(commits) \subseteq merged
      /\ \A n \in pending : \E line \in merged :
           \/ line.by = "note" /\ line.id = n.id
           \/ n.pull # 0 /\ line.pull = n.pull
  BY <1>3, <1>4, MergedNotes
<1> HIDE DEF merged
<1>6. /\ Rendered \in Books
      /\ target \in DOMAIN Rendered.sections
      /\ merged \subseteq Rendered.sections[target]
      /\ merged \subseteq LinesOf(Rendered, Planned)
      /\ LinesOf(book, Planned \ {target}) \subseteq LinesOf(Rendered, Planned)
  BY <1>1, <1>2, <1>5, RenderedBooks
<1>7. TellsAll(Rendered.sections[target], Since, Len(landed))
  <2> SUFFICES ASSUME NEW i \in Since + 1 .. Len(landed), ~landed[i].excluded
               PROVE  Told(Rendered.sections[target], i)
    BY DEF TellsAll
  <2>1. i \in commits
    BY TipHasLanded DEF ChangelogTyped
  <2>2. Told(Entries(commits), i)
    BY <1>3, <2>1
  <2>3. Entries(commits) \subseteq Rendered.sections[target]
    BY <1>5, <1>6
  <2> HIDE DEF commits
  <2>4. QED BY <2>2, <2>3 DEF Told
<1>8. KeepsNotes(Rendered, Len(landed))
  <2> SUFFICES ASSUME NEW n \in notes PROVE IsKept(Rendered, n)
    BY DEF KeepsNotes
  <2>1. CASE n \in pending
    <3>1. PICK line \in merged : \/ line.by = "note" /\ line.id = n.id
                                 \/ n.pull # 0 /\ line.pull = n.pull
      BY <1>5, <2>1
    <3>2. line \in LinesOf(Rendered, Planned)
      BY <1>6, <3>1
    <3>3. QED BY <3>1, <3>2 DEF IsKept, IdsMarked
  <2>2. CASE n.id \in Historical(book, target)
    <3>1. n.id \in IdsMarked(Rendered, Planned)
      BY <1>6, <2>2 DEF Historical, IdsMarked
    <3>2. QED BY <3>1 DEF IsKept
  <2>3. QED BY <2>1, <2>2
<1>9. QED BY <1>6, <1>7, <1>8

-----------------------------------------------------------------------------
(* What each step writes.  A commit brings files that are told, as of what  *)
(* was there before it: those of the tip, perhaps with a line more, or      *)
(* those of the proposal.                                                   *)
Brings(landing) ==
  /\ landing \in Landings /\ landing.from <= Len(landed) /\ IsTold(FilesOf(landing))
LEMMA LooseLines ==
  ASSUME NEW book \in Books, NEW line \in Lines
  PROVE  LET after == [book EXCEPT !.loose = @ \cup {line}]
         IN /\ after \in Books /\ after.sections = book.sections
            /\ LinesOf(book, Planned) \subseteq LinesOf(after, Planned)
<1> DEFINE after == [book EXCEPT !.loose = @ \cup {line}]
<1>1. PICK versions \in SUBSET Planned :
        book \in [loose : SUBSET Lines, sections : [versions -> SUBSET Lines]]
  BY DEF Books
<1>2. /\ after \in [loose : SUBSET Lines, sections : [versions -> SUBSET Lines]]
      /\ after.sections = book.sections /\ after.loose = book.loose \cup {line}
  BY <1>1
<1>3. after \in Books
  BY <1>2 DEF Books
<1>4. QED BY <1>2, <1>3 DEF LinesOf
LEMMA FilesLanded ==
  ASSUME ChangelogInv, NEW i \in DOMAIN landed
  PROVE  /\ landed[i] \in Landings /\ IsTold(FilesOf(landed[i]))
         /\ landed[i].from \in Nat /\ landed[i].from <= Len(landed)
         /\ landed[i].book \in Books /\ landed[i].version \in Nat
<1>1. landed[i] \in Landings /\ landed[i].from <= Len(landed) /\ FilesOf(landed[i]) \in Files
  BY DEF ChangelogInv, ChangelogTyped, Files
<1>2. QED BY <1>1 DEF ChangelogInv, Landings
LEMMA WhatLands ==
  ASSUME ChangelogInv, Lands
  PROVE  /\ \E landing : landed' = Append(landed, landing) /\ Brings(landing)
         /\ \/ notes' = notes
            \/ \E n \in NoteFiles : n.since = Len(landed) + 1 /\ notes' = notes \cup {n}
         /\ target' \in Nat /\ UNCHANGED <<proposal, published>>
<1> DEFINE last == landed[Len(landed)]
<1>1. /\ Len(landed) \in DOMAIN landed /\ Len(landed) \in Nat /\ Last(landed) = last
      /\ last \in Landings /\ IsTold(FilesOf(last)) /\ last.from \in Nat /\ last.from <= Len(landed)
      /\ last.book \in Books /\ last.version \in Nat
  BY TipHasLanded, FilesLanded DEF ChangelogInv
<1> HIDE DEF last
<1>2. PICK pull \in {0, Len(landed) + 1}, excluded \in BOOLEAN, written \in {"nothing", "note", "line"} :
       /\ \E v \in Planned :
            /\ Selectable(v) /\ v >= Last(landed).version
            /\ target' = v
            /\ landed' = Append(landed,
                 Landing(pull, excluded,
                        IF written = "line"
                          THEN [Last(landed).book EXCEPT !.loose = @ \cup {Hand(Len(landed) + 1)}]
                          ELSE Last(landed).book,
                        Last(landed).version, v, Last(landed).from))
       /\ IF written = "note"
          THEN /\ Cardinality(notes) < MaxNotes
               /\ \E about \in Pulls \cup {0, pull} :
                    notes' = notes \cup {[id |-> Cardinality(notes) + 1, pull |-> about,
                                          since |-> Len(landed) + 1]}
          ELSE notes' = notes
  BY DEF Lands
<1> DEFINE book == IF written = "line" THEN [last.book EXCEPT !.loose = @ \cup {Hand(Len(landed) + 1)}]
                   ELSE last.book
<1>3. /\ book \in Books /\ book.sections = last.book.sections
      /\ LinesOf(last.book, Planned) \subseteq LinesOf(book, Planned)
  <2>1. Hand(Len(landed) + 1) \in Lines
    BY <1>1, LinesAreWritten DEF Hand
  <2>2. QED BY <1>1, <2>1, LooseLines
<1> HIDE DEF book
<1>4. PICK v \in Planned :
        /\ target' = v
        /\ landed' = Append(landed, Landing(pull, excluded, book, last.version, v, last.from))
  BY <1>1, <1>2 DEF book
<1> DEFINE landing == Landing(pull, excluded, book, last.version, v, last.from)
<1>5. v \in Nat /\ pull \in Nat
  BY <1>1, ChangelogAssumption
<1>6. /\ landing \in Landings /\ landing.from = last.from
      /\ landing.version = last.version /\ landing.book = book
  BY <1>1, <1>3, <1>5 DEF Landing, Landings
<1>7. IsTold(FilesOf(landing))
  <2>1. /\ FilesOf(landing).version = last.version /\ FilesOf(landing).book = book
        /\ FilesOf(landing).from = last.from
        /\ FilesOf(last).version = last.version /\ FilesOf(last).book = last.book
        /\ FilesOf(last).from = last.from
    BY <1>6 DEF FilesOf
  <2>2. \A n \in notes : IsKept(last.book, n) => IsKept(book, n)
    BY <1>3 DEF IsKept, IdsMarked
  <2>3. KeepsNotes(last.book, last.from)
        /\ (last.version # 0 => /\ last.version \in DOMAIN last.book.sections
                                /\ TellsAll(last.book.sections[last.version], Since, last.from))
    BY <1>1, <2>1 DEF IsTold
  <2>4. KeepsNotes(book, last.from)
    BY <2>2, <2>3 DEF KeepsNotes
  <2> HIDE DEF landing
  <2>5. QED BY <1>3, <2>1, <2>3, <2>4 DEF IsTold
<1>8. Brings(landing)
  BY <1>1, <1>6, <1>7 DEF Brings
<1>9. notes' = notes \/ \E n \in NoteFiles : n.since = Len(landed) + 1 /\ notes' = notes \cup {n}
  <2>1. CASE written = "note"
    <3>1. PICK about \in Pulls \cup {0, pull} :
            notes' = notes \cup {[id |-> Cardinality(notes) + 1, pull |-> about,
                                  since |-> Len(landed) + 1]}
      BY <1>2, <2>1
    <3>2. Cardinality(notes) \in Nat
      BY FS_CardinalityType DEF ChangelogInv, ChangelogTyped
    <3>3. about \in Nat
      <4>1. \A i \in DOMAIN landed : landed[i] \in Landings
        BY FilesLanded
      <4>2. QED BY <1>5, <4>1 DEF Pulls, Landings
    <3>4. [id |-> Cardinality(notes) + 1, pull |-> about, since |-> Len(landed) + 1] \in NoteFiles
      BY <1>1, <3>2, <3>3 DEF NoteFiles
    <3>5. QED BY <3>1, <3>4
  <2>2. CASE written # "note"
    BY <1>2, <2>2
  <2>3. QED BY <2>1, <2>2
<1>10. QED BY <1>4, <1>5, <1>8, <1>9 DEF Lands

LEMMA WhatMerges ==
  ASSUME ChangelogInv, Merges
  PROVE  /\ \E landing : landed' = Append(landed, landing) /\ Brings(landing)
         /\ target' \in Nat /\ proposal' = NoProposal /\ UNCHANGED <<notes, published>>
<1> DEFINE landing == Landing(Len(landed) + 1, FALSE, proposal.book, proposal.version,
                              proposal.version, proposal.from)
<1>1. /\ proposal \in Filings /\ proposal.from <= Len(landed) /\ target \in Nat
      /\ IsTold(proposal) /\ Len(landed) \in Nat
  BY TipHasLanded DEF ChangelogInv, ChangelogTyped, Files
<1>2. landing \in Landings /\ landing.from = proposal.from
  BY <1>1 DEF Filings, Landing, Landings
<1>3. FilesOf(landing) = proposal
  BY <1>1 DEF FilesOf, Landing, Filings
<1>4. Brings(landing)
  BY <1>1, <1>2, <1>3 DEF Brings
<1>5. QED BY <1>1, <1>4 DEF Merges, Filings

LEMMA WhatIsProposed ==
  ASSUME ChangelogInv, ProposesRelease \/ ClosesProposal \/ Merges
  PROVE  proposal' \in Filings /\ proposal'.from <= Len(landed) /\ IsTold(proposal')
<1>1. ChangelogTyped /\ Len(landed) \in Nat
  BY TipHasLanded DEF ChangelogInv
<1>2. CASE proposal' = NoProposal
  <2>1. Book({}, <<>>) \in Books
    <3>1. <<>> \in [{} -> SUBSET Lines]
      OBVIOUS
    <3>2. QED BY <3>1, BooksAreMade
  <2>2. NoProposal \in Filings /\ NoProposal.from = 0 /\ NoProposal.version = 0
    BY <2>1 DEF NoProposal, Filings
  <2>3. \A n \in notes : ~(n.since <= 0)
    BY <1>1 DEF ChangelogTyped, NoteFiles
  <2>4. IsTold(NoProposal)
    BY <2>2, <2>3 DEF IsTold, KeepsNotes
  <2>5. QED BY <1>1, <1>2, <2>2, <2>4
<1>3. CASE ProposesRelease
  <2>1. /\ target \in Planned
        /\ proposal' = [version |-> target, book |-> Rendered, from |-> Len(landed)]
    BY <1>3 DEF ProposesRelease, Selectable
  <2>2. /\ Rendered \in Books
        /\ target \in DOMAIN Rendered.sections
        /\ TellsAll(Rendered.sections[target], Since, Len(landed))
        /\ KeepsNotes(Rendered, Len(landed))
    BY <1>1, <2>1, RenderedIsTold
  <2>3. /\ proposal'.version = target /\ proposal'.book = Rendered /\ proposal'.from = Len(landed)
        /\ proposal' \in Filings
    BY <1>1, <2>1, <2>2 DEF Filings, ChangelogTyped
  <2>4. QED BY <1>1, <2>2, <2>3 DEF IsTold
<1>4. QED BY <1>2, <1>3 DEF ClosesProposal, Merges

LEMMA WhatIsPublished ==
  ASSUME ChangelogInv, Publishes
  PROVE  /\ \E at \in Since + 1 .. Len(landed), section \in SUBSET Lines :
              /\ published' = Append(published, [version |-> landed[at].version, at |-> at,
                                                 notes |-> section])
              /\ TellsAll(section, Since, landed[at].from)
              /\ KeepsNotes(landed[at].book, landed[at].from)
         /\ target' \in Nat /\ UNCHANGED <<landed, notes, proposal>>
<1>1. PICK at \in Since + 1 .. Len(landed) :
        /\ Selectable(landed[at].version)
        /\ published' = Append(published,
             [version |-> landed[at].version, at |-> at,
              notes |-> landed[at].book.sections[landed[at].version]])
        /\ target' = IF target > landed[at].version THEN target ELSE landed[at].version + 1
  BY DEF Publishes
<1>2. ChangelogTyped /\ at \in DOMAIN landed /\ target \in Nat
  BY TipHasLanded DEF ChangelogInv, ChangelogTyped
<1>3. /\ IsTold(FilesOf(landed[at])) /\ landed[at].book \in Books /\ landed[at].version \in Nat
  BY <1>2, FilesLanded
<1>4. landed[at].version # 0
  BY <1>1, ChangelogAssumption DEF Selectable
<1> DEFINE section == landed[at].book.sections[landed[at].version]
<1>5. /\ landed[at].version \in DOMAIN landed[at].book.sections
      /\ TellsAll(section, Since, landed[at].from)
      /\ KeepsNotes(landed[at].book, landed[at].from)
  BY <1>3, <1>4 DEF IsTold, FilesOf
<1>6. section \in SUBSET Lines
  BY <1>3, <1>5, PartsOfBooks
<1>7. published' = Append(published, [version |-> landed[at].version, at |-> at, notes |-> section])
  BY <1>1
<1>8. target' \in Nat /\ UNCHANGED <<landed, notes, proposal>>
  BY <1>1, <1>2, <1>3 DEF Publishes
<1> HIDE DEF section
<1>9. QED BY <1>5, <1>6, <1>7, <1>8

-----------------------------------------------------------------------------
(* What was told stays told: commits stay, later notes are for later        *)
(* commits, and the last release only moves on.                             *)
ChangelogGrows ==
  /\ \/ landed' = landed
     \/ \E landing : landed' = Append(landed, landing) /\ Brings(landing)
  /\ \/ notes' = notes
     \/ \E n \in NoteFiles : n.since = Len(landed) + 1 /\ notes' = notes \cup {n}
  /\ target' \in Nat
  /\ \/ proposal' = proposal
     \/ proposal' \in Filings /\ proposal'.from <= Len(landed) /\ IsTold(proposal')
  /\ \/ published' = published
     \/ \E at \in Since + 1 .. Len(landed), section \in SUBSET Lines :
          /\ published' = Append(published, [version |-> landed[at].version, at |-> at,
                                             notes |-> section])
          /\ TellsAll(section, Since, landed[at].from)
          /\ KeepsNotes(landed[at].book, landed[at].from)
LEMMA ChangelogSteps ==
  ASSUME ChangelogInv, [ChangelogNext]_changelogVars
  PROVE  ChangelogGrows
<1>1. target \in Nat
  BY DEF ChangelogInv, ChangelogTyped
<1>2. CASE Lands
  BY <1>2, WhatLands DEF ChangelogGrows
<1>3. CASE Merges
  BY <1>3, WhatMerges, WhatIsProposed DEF ChangelogGrows
<1>4. CASE ProposesRelease \/ ClosesProposal
  BY <1>1, <1>4, WhatIsProposed DEF ChangelogGrows, ProposesRelease, ClosesProposal
<1>5. CASE Publishes
  BY <1>5, WhatIsPublished DEF ChangelogGrows
<1>6. CASE UNCHANGED changelogVars
  BY <1>1, <1>6 DEF ChangelogGrows, changelogVars
<1>7. QED BY <1>2, <1>3, <1>4, <1>5, <1>6 DEF ChangelogNext

LEMMA WhatGrows ==
  ASSUME ChangelogInv, ChangelogGrows
  PROVE  /\ Len(landed) \in Nat /\ DOMAIN landed = 1 .. Len(landed)
         /\ \A i \in DOMAIN landed : i \in DOMAIN landed' /\ landed'[i] = landed[i]
         /\ Len(landed) <= Len(landed') /\ Len(landed') \in Nat
         /\ Since \in Nat /\ Since' \in Nat /\ Since <= Since'
         /\ \A n \in notes' : n \in notes \/ (n.since \in Nat /\ n.since > Len(landed))
<1>1. /\ landed \in Seq(Landings) /\ published \in Seq(Published) /\ Since \in 0 .. Len(landed)
      /\ Len(landed) \in Nat
  BY TipHasLanded DEF ChangelogInv, ChangelogTyped
<1>2. /\ \A i \in DOMAIN landed : i \in DOMAIN landed' /\ landed'[i] = landed[i]
      /\ Len(landed) <= Len(landed') /\ Len(landed') \in Nat
  <2>1. CASE landed' = landed
    BY <1>1, <2>1
  <2>2. CASE \E landing : landed' = Append(landed, landing) /\ Brings(landing)
    <3>1. PICK landing \in Landings : landed' = Append(landed, landing)
      BY <2>2 DEF Brings
    <3>2. QED BY <1>1, <3>1
  <2>3. QED BY <2>1, <2>2 DEF ChangelogGrows
<1>3. Since' \in Nat /\ Since <= Since'
  <2>1. CASE published' = published
    BY <1>1, <2>1 DEF Since, Last
  <2>2. CASE \E at \in Since + 1 .. Len(landed), section \in SUBSET Lines :
               published' = Append(published, [version |-> landed[at].version, at |-> at,
                                               notes |-> section])
    <3>1. PICK at \in Since + 1 .. Len(landed), section \in SUBSET Lines :
            published' = Append(published, [version |-> landed[at].version, at |-> at,
                                            notes |-> section])
      BY <2>2
    <3>2. landed[at].version \in Nat
      <4>1. at \in DOMAIN landed
        BY <1>1
      <4>2. QED BY <4>1, FilesLanded
    <3> DEFINE one == [version |-> landed[at].version, at |-> at, notes |-> section]
    <3>3. one \in Published /\ one.at = at
      BY <1>1, <3>2 DEF Published
    <3> HIDE DEF one
    <3>4. published' = Append(published, one)
      BY <3>1 DEF one
    <3>5. published' # <<>> /\ Last(published') = one
      BY <1>1, <3>3, <3>4 DEF Last
    <3>6. Since' = at
      BY <3>3, <3>5 DEF Since, Last
    <3>7. QED BY <1>1, <3>6
  <2>3. QED BY <2>1, <2>2 DEF ChangelogGrows
<1>4. \A n \in notes' : n \in notes \/ (n.since \in Nat /\ n.since > Len(landed))
  BY <1>1 DEF ChangelogGrows
<1>5. QED BY <1>1, <1>2, <1>3, <1>4

LEMMA TellingStays ==
  ASSUME ChangelogInv, ChangelogGrows, NEW lines, NEW after \in Nat, NEW later \in Nat, after <= later,
         NEW to \in Nat, to <= Len(landed), TellsAll(lines, after, to)
  PROVE  TellsAll(lines, later, to)'
<1> SUFFICES ASSUME NEW i \in later + 1 .. to
             PROVE  landed'[i].excluded \/ Told(lines, i)'
  BY DEF TellsAll
<1>1. i \in after + 1 .. to /\ landed'[i] = landed[i]
  BY WhatGrows
<1>2. landed[i].excluded \/ Told(lines, i)
  BY <1>1 DEF TellsAll
<1>3. QED BY <1>1, <1>2 DEF Told
LEMMA NotesStay ==
  ASSUME ChangelogInv, ChangelogGrows, NEW book, NEW to \in Nat, to <= Len(landed), KeepsNotes(book, to)
  PROVE  KeepsNotes(book, to)'
<1> SUFFICES ASSUME NEW n \in notes', n.since <= to PROVE IsKept(book, n)
  BY DEF KeepsNotes, IsKept, IdsMarked, LinesOf
<1>1. n \in notes
  BY WhatGrows
<1>2. QED BY <1>1 DEF KeepsNotes
LEMMA FilesStayTold ==
  ASSUME ChangelogInv, ChangelogGrows, NEW file \in Filings, file.from <= Len(landed), IsTold(file)
  PROVE  IsTold(file)'
<1>1. file.from \in Nat
  BY DEF Filings
<1>2. KeepsNotes(file.book, file.from)'
  BY <1>1, NotesStay DEF IsTold
<1>3. ASSUME file.version # 0
      PROVE  /\ file.version \in DOMAIN file.book.sections
             /\ TellsAll(file.book.sections[file.version], Since, file.from)'
  <2>1. PICK after \in Nat, later \in Nat : after = Since /\ later = Since' /\ after <= later
    BY WhatGrows
  <2>2. TellsAll(file.book.sections[file.version], after, file.from)
    BY <1>3, <2>1 DEF IsTold
  <2>3. TellsAll(file.book.sections[file.version], later, file.from)'
    BY <1>1, <2>1, <2>2, TellingStays
  <2>4. QED BY <1>3, <2>1, <2>3 DEF IsTold, TellsAll
<1>4. QED BY <1>2, <1>3 DEF IsTold

LEMMA FilesKeep ==
  ASSUME ChangelogInv, ChangelogGrows
  PROVE  \A file \in Files' : file \in Filings /\ file.from <= Len(landed) /\ IsTold(file)
<1>1. ASSUME NEW landing, Brings(landing)
      PROVE  /\ FilesOf(landing) \in Filings /\ FilesOf(landing).from <= Len(landed)
             /\ IsTold(FilesOf(landing))
  BY <1>1 DEF Brings, FilesOf, Filings, Landings
<1>2. \A i \in DOMAIN landed : Brings(landed[i])
  BY FilesLanded DEF Brings
<1>3. proposal' \in Filings /\ proposal'.from <= Len(landed) /\ IsTold(proposal')
  <2>1. proposal \in Filings /\ proposal.from <= Len(landed) /\ IsTold(proposal)
    BY DEF ChangelogInv, ChangelogTyped, Files
  <2>2. CASE proposal' = proposal
    BY <2>1, <2>2
  <2>3. CASE proposal' # proposal
    BY <2>3 DEF ChangelogGrows
  <2>4. QED BY <2>2, <2>3
<1>4. \A i \in DOMAIN landed' : Brings(landed'[i])
  <2>1. CASE landed' = landed
    BY <1>2, <2>1
  <2>2. CASE \E landing : landed' = Append(landed, landing) /\ Brings(landing)
    <3>1. PICK landing : landed' = Append(landed, landing) /\ Brings(landing)
      BY <2>2
    <3>2. landing \in Landings /\ landed \in Seq(Landings)
      BY <3>1 DEF Brings, ChangelogInv, ChangelogTyped
    <3>3. \A i \in DOMAIN landed' : landed'[i] = landing \/ (i \in DOMAIN landed /\ landed'[i] = landed[i])
      BY <3>1, <3>2
    <3>4. QED BY <1>2, <3>1, <3>3
  <2>3. QED BY <2>1, <2>2 DEF ChangelogGrows
<1>5. \A i \in DOMAIN landed' : /\ FilesOf(landed'[i]) \in Filings
                                /\ FilesOf(landed'[i]).from <= Len(landed)
                                /\ IsTold(FilesOf(landed'[i]))
  BY <1>1, <1>4
<1>6. \A file \in Files' : file = proposal' \/ \E i \in DOMAIN landed' : file = FilesOf(landed'[i])
  BY DEF Files, FilesOf
<1>7. QED BY <1>3, <1>5, <1>6

LEMMA PublishedGrows ==
  ASSUME ChangelogInv, ChangelogGrows
  PROVE  \/ published' = published
         \/ \E at \in Since + 1 .. Len(landed), section \in SUBSET Lines :
              LET one == [version |-> landed[at].version, at |-> at, notes |-> section]
              IN /\ one \in Published /\ published' = Append(published, one)
                 /\ TellsAll(section, Since, landed[at].from)
                 /\ KeepsNotes(landed[at].book, landed[at].from)
<1>1. ASSUME NEW at \in Since + 1 .. Len(landed), NEW section \in SUBSET Lines
      PROVE  [version |-> landed[at].version, at |-> at, notes |-> section] \in Published
  <2>1. at \in DOMAIN landed /\ at \in Nat
    BY WhatGrows
  <2>2. landed[at].version \in Nat
    BY <2>1, FilesLanded
  <2>3. QED BY <2>1, <2>2 DEF Published
<1>2. QED BY <1>1 DEF ChangelogGrows

LEMMA ChangelogTypesKeep ==
  ASSUME ChangelogInv, ChangelogGrows
  PROVE  ChangelogTyped'
<1>1. /\ landed \in Seq(Landings) /\ landed # <<>> /\ notes \in SUBSET NoteFiles /\ IsFiniteSet(notes)
      /\ published \in Seq(Published) /\ \A k \in DOMAIN published : published[k].at \in DOMAIN landed
  BY DEF ChangelogInv, ChangelogTyped
<1>2. landed' \in Seq(Landings) /\ landed' # <<>>
  <2>1. ASSUME NEW landing \in Landings, landed' = Append(landed, landing)
        PROVE  landed' \in Seq(Landings) /\ landed' # <<>>
    BY <1>1, <2>1
  <2>2. QED BY <1>1, <2>1 DEF ChangelogGrows, Brings
<1>3. \A i \in DOMAIN landed' : landed'[i].from <= Len(landed')
  <2>1. ASSUME NEW i \in DOMAIN landed' PROVE landed'[i].from <= Len(landed')
    <3>1. FilesOf(landed'[i]) \in Files'
      BY DEF Files, FilesOf
    <3>2. FilesOf(landed'[i]).from <= Len(landed) /\ FilesOf(landed'[i]).from \in Nat
      BY <3>1, FilesKeep DEF Filings
    <3>3. QED BY <3>2, WhatGrows DEF FilesOf
  <2>2. QED BY <2>1
<1>4. notes' \in SUBSET NoteFiles /\ IsFiniteSet(notes')
  <2>1. CASE notes' = notes
    BY <1>1, <2>1
  <2>2. ASSUME NEW n \in NoteFiles, notes' = notes \cup {n}
        PROVE  notes' \in SUBSET NoteFiles /\ IsFiniteSet(notes')
    <3>1. IsFiniteSet(notes \cup {n})
      BY <1>1, FS_AddElement
    <3>2. QED BY <1>1, <2>2, <3>1
  <2>3. QED BY <2>1, <2>2 DEF ChangelogGrows
<1>5. target' \in Nat
  BY DEF ChangelogGrows
<1>6. proposal' \in Filings /\ proposal'.from <= Len(landed')
  <2>1. proposal' \in Filings /\ proposal'.from <= Len(landed)
    BY FilesKeep DEF Files
  <2>2. QED BY <2>1, WhatGrows DEF Filings
<1>7. published' \in Seq(Published) /\ \A k \in DOMAIN published' : published'[k].at \in DOMAIN landed'
  <2>1. CASE published' = published
    BY <1>1, <2>1, WhatGrows
  <2>2. ASSUME NEW at \in Since + 1 .. Len(landed), NEW one \in Published,
               one.at = at, published' = Append(published, one)
        PROVE  published' \in Seq(Published)
               /\ \A k \in DOMAIN published' : published'[k].at \in DOMAIN landed'
    <3>1. \A k \in DOMAIN published' : published'[k] = one
                                       \/ (k \in DOMAIN published /\ published'[k] = published[k])
      BY <1>1, <2>2
    <3>2. at \in DOMAIN landed
      BY WhatGrows
    <3>3. QED BY <1>1, <2>2, <3>1, <3>2, WhatGrows
  <2>3. CASE published' # published
    <3>1. PICK at \in Since + 1 .. Len(landed), section \in SUBSET Lines :
            LET one == [version |-> landed[at].version, at |-> at, notes |-> section]
            IN one \in Published /\ published' = Append(published, one)
      BY <2>3, PublishedGrows
    <3>2. QED BY <2>2, <3>1
  <2>4. QED BY <2>1, <2>3
<1>8. QED BY <1>2, <1>3, <1>4, <1>5, <1>6, <1>7 DEF ChangelogTyped

(* What the notes of a release tell stays told, and so does what the next   *)
(* ones tell.                                                               *)
IsToldIn(k) ==
  LET commit == landed[published[k].at]
      before == IF k = 1 THEN 0 ELSE published[k - 1].at
  IN /\ TellsAll(published[k].notes, before, commit.from)
     /\ KeepsNotes(commit.book, commit.from)
LEMMA ToldReleases ==
  ChangesAreTold <=> \A k \in DOMAIN published : IsToldIn(k)
  BY DEF ChangesAreTold, IsToldIn, TellsAll, KeepsNotes, IsKept
LEMMA ReleasesStayTold ==
  ASSUME ChangelogInv, ChangelogGrows
  PROVE  \A k \in DOMAIN published' : IsToldIn(k)'
<1>1. /\ published \in Seq(Published)
      /\ DOMAIN published = 1 .. Len(published) /\ Len(published) \in Nat
      /\ \A k \in DOMAIN published : published[k].at \in DOMAIN landed
      /\ \A k \in DOMAIN published : IsToldIn(k)
  BY ToldReleases DEF ChangelogInv, ChangelogTyped
<1>2. ASSUME NEW k \in DOMAIN published', NEW at \in DOMAIN landed, NEW lines, NEW before \in Nat,
             published'[k].at = at, published'[k].notes = lines,
             before = IF k = 1 THEN 0 ELSE published'[k - 1].at,
             TellsAll(lines, before, landed[at].from), KeepsNotes(landed[at].book, landed[at].from)
      PROVE  IsToldIn(k)'
  <2>1. landed'[at] = landed[at]
    BY WhatGrows
  <2>2. PICK commit : commit = landed[at]
    OBVIOUS
  <2>3. commit.from \in Nat /\ commit.from <= Len(landed)
    BY <2>2, FilesLanded
  <2>4. TellsAll(lines, before, commit.from)'
    BY <1>2, <2>2, <2>3, TellingStays
  <2>5. KeepsNotes(commit.book, commit.from)'
    BY <1>2, <2>2, <2>3, NotesStay
  <2>6. /\ landed'[published'[k].at] = commit /\ published'[k].notes = lines
        /\ before = IF k = 1 THEN 0 ELSE published'[k - 1].at
    BY <1>2, <2>1, <2>2
  <2>7. QED BY <2>4, <2>5, <2>6 DEF IsToldIn, TellsAll, KeepsNotes
<1>3. ASSUME NEW k \in DOMAIN published, k \in DOMAIN published', published'[k] = published[k],
             k # 1 => published'[k - 1] = published[k - 1]
      PROVE  IsToldIn(k)'
  <2>1. PICK before : before = IF k = 1 THEN 0 ELSE published[k - 1].at
    OBVIOUS
  <2>2. before \in Nat
    <3>1. k # 1 => k - 1 \in DOMAIN published
      BY <1>1
    <3>2. QED BY <1>1, <2>1, <3>1, WhatGrows
  <2>3. PICK at \in DOMAIN landed, lines \in SUBSET Lines :
          at = published[k].at /\ lines = published[k].notes
    <3>1. published[k] \in Published
      BY <1>1
    <3>2. published[k].notes \in SUBSET Lines
      BY <3>1 DEF Published
    <3>3. QED BY <1>1, <3>2
  <2>4. TellsAll(lines, before, landed[at].from) /\ KeepsNotes(landed[at].book, landed[at].from)
    BY <1>1, <2>1, <2>3 DEF IsToldIn
  <2>5. QED BY <1>2, <1>3, <2>1, <2>2, <2>3, <2>4
<1>4. CASE published' = published
  BY <1>3, <1>4
<1>5. CASE published' # published
  <2>1. PICK at \in Since + 1 .. Len(landed), section \in SUBSET Lines :
          LET one == [version |-> landed[at].version, at |-> at, notes |-> section]
          IN /\ one \in Published /\ published' = Append(published, one)
             /\ TellsAll(section, Since, landed[at].from)
             /\ KeepsNotes(landed[at].book, landed[at].from)
    BY <1>5, PublishedGrows
  <2>2. PICK one \in Published :
          one.at = at /\ one.notes = section /\ published' = Append(published, one)
    BY <2>1
  <2>3. /\ DOMAIN published' = 1 .. Len(published) + 1
        /\ published'[Len(published) + 1] = one
        /\ \A k \in 1 .. Len(published) : published'[k] = published[k]
    BY <1>1, <2>2
  <2>4. ASSUME NEW k \in 1 .. Len(published) PROVE IsToldIn(k)'
    BY <1>1, <1>3, <2>3
  <2>5. ASSUME NEW k, k = Len(published) + 1 PROVE IsToldIn(k)'
    <3>1. k = Len(published) + 1
      BY <2>5
    <3>2. PICK before \in Nat : before = Since
      BY WhatGrows
    <3>3. before = IF k = 1 THEN 0 ELSE published'[k - 1].at
      <4>1. CASE published = <<>>
        BY <3>1, <3>2, <4>1 DEF Since
      <4>2. CASE published # <<>>
        <5>1. k # 1 /\ k - 1 = Len(published) /\ Len(published) \in 1 .. Len(published)
          BY <1>1, <3>1, <4>2
        <5>2. QED BY <2>3, <3>2, <4>2, <5>1 DEF Since, Last
      <4>3. QED BY <4>1, <4>2
    <3>4. at \in DOMAIN landed /\ k \in DOMAIN published'
      BY <1>1, <2>3, <3>1, WhatGrows
    <3>5. published'[k].at = at /\ published'[k].notes = section
      BY <2>2, <2>3, <3>1
    <3>6. TellsAll(section, before, landed[at].from) /\ KeepsNotes(landed[at].book, landed[at].from)
      BY <2>1, <3>2
    <3>7. QED BY <1>2, <3>3, <3>4, <3>5, <3>6
  <2>6. \A k \in DOMAIN published' : k \in 1 .. Len(published) \/ k = Len(published) + 1
    BY <1>1, <2>3
  <2>7. ASSUME NEW k \in DOMAIN published' PROVE IsToldIn(k)'
    <3>1. CASE k \in 1 .. Len(published)
      BY <2>4, <3>1
    <3>2. CASE k = Len(published) + 1
      BY <2>5, <3>2
    <3>3. QED BY <2>6, <3>1, <3>2
  <2>8. QED BY <2>7
<1>6. QED BY <1>4, <1>5

(* Whatever lands, is rendered, merged, closed or published, in whatever    *)
(* order: every commit's files and the open proposal tell all of the        *)
(* changes and notes up to the commit they were rendered from               *)
(* (changelog.rs; prepare_release_files, planner.rs).                       *)
THEOREM ChangelogInvariance == ChangelogSpec => []ChangelogInv
<1>1. ChangelogInit => ChangelogInv
  <2> SUFFICES ASSUME ChangelogInit PROVE ChangelogInv
    OBVIOUS
  <2>1. PICK book \in FirstBooks : landed = <<Landing(0, FALSE, book, 0, target, 0)>>
    BY DEF ChangelogInit
  <2>2. /\ target \in Nat /\ notes = {} /\ proposal = NoProposal /\ published = <<>>
    BY ChangelogAssumption DEF ChangelogInit
  <2>3. book \in Books /\ Book({}, <<>>) \in Books
    <3>1. <<>> \in [{} -> SUBSET Lines]
      OBVIOUS
    <3>2. QED BY <3>1, BooksAssumption, BooksAreBooks, BooksAreMade
  <2> DEFINE landing == Landing(0, FALSE, book, 0, target, 0)
  <2>4. landing \in Landings /\ landing.from = 0 /\ landing.version = 0
    BY <2>2, <2>3 DEF Landing, Landings
  <2> HIDE DEF landing
  <2>5. /\ landed \in Seq(Landings) /\ landed # <<>> /\ Len(landed) = 1
        /\ \A i \in DOMAIN landed : landed[i] = landing
    <3>1. landed = <<landing>>
      BY <2>1 DEF landing
    <3>2. \A one \in Landings : /\ <<one>> \in Seq(Landings) /\ <<one>> # <<>> /\ Len(<<one>>) = 1
                                /\ \A i \in DOMAIN <<one>> : <<one>>[i] = one
      OBVIOUS
    <3>3. QED BY <2>4, <3>1, <3>2
  <2>6. proposal \in Filings /\ proposal.from = 0 /\ proposal.version = 0
    BY <2>2, <2>3 DEF NoProposal, Filings
  <2>7. ChangelogTyped
    <3>1. published \in Seq(Published) /\ DOMAIN published = {}
      BY <2>2
    <3>2. IsFiniteSet(notes) /\ notes \in SUBSET NoteFiles
      BY <2>2, FS_EmptySet
    <3>3. QED BY <2>2, <2>4, <2>5, <2>6, <3>1, <3>2 DEF ChangelogTyped
  <2>8. ChangesAreTold
    BY <2>2 DEF ChangesAreTold
  <2>9. ASSUME NEW file \in Files PROVE IsTold(file)
    <3>1. file.version = 0
      BY <2>4, <2>5, <2>6 DEF Files, FilesOf
    <3>2. QED BY <2>2, <3>1 DEF IsTold, KeepsNotes
  <2>10. QED BY <2>7, <2>8, <2>9 DEF ChangelogInv
<1>2. ChangelogInv /\ [ChangelogNext]_changelogVars => ChangelogInv'
  <2> SUFFICES ASSUME ChangelogInv, [ChangelogNext]_changelogVars PROVE ChangelogInv'
    OBVIOUS
  <2>1. ChangelogGrows
    BY ChangelogSteps
  <2>2. ChangelogTyped'
    BY <2>1, ChangelogTypesKeep
  <2>3. ChangesAreTold'
    <3>1. \A k \in DOMAIN published' : IsToldIn(k)'
      BY <2>1, ReleasesStayTold
    <3>2. QED BY <3>1 DEF ChangesAreTold, IsToldIn, TellsAll, KeepsNotes, IsKept
  <2>4. ASSUME NEW file \in Files' PROVE IsTold(file)'
    BY <2>1, FilesKeep, FilesStayTold
  <2>5. QED BY <2>2, <2>3, <2>4 DEF ChangelogInv
<1>3. QED BY <1>1, <1>2, PTL DEF ChangelogSpec

(* The notes of a release tell every change since the release before it,    *)
(* however renderings, merges, late publications and abandoned versions     *)
(* interleave (prepare_release_files, render, merge_supplemental_notes).    *)
THEOREM EveryChangeIsTold == ChangelogSpec => []ChangesAreTold
<1>1. ChangelogInv => ChangesAreTold
  BY DEF ChangelogInv
<1>2. QED BY <1>1, ChangelogInvariance, PTL
=============================================================================
