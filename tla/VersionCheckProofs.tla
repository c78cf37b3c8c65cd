------------------------- MODULE VersionCheckProofs -------------------------
(***************************************************************************)
(* Proofs about versions and requirements, for every largest int, every    *)
(* set of versions and every lists of requirements: the comparisons of the *)
(* code are the order by the first number that differs, and the loop of    *)
(* CheckCompatibility answers by the intervals.                            *)
(***************************************************************************)
EXTENDS VersionCheck, TLAPS

-----------------------------------------------------------------------------
(* The order *)

\* What ParseVersion returns is a version.
LEMMA ParsedIsVer ==
  ASSUME NEW text \in Text, Parses(text)
  PROVE  ParseVersion(text) \in Ver
<1>1. ASSUME NEW i \in 1 .. 4 PROVE Part(text, i) \in Number
  <2>1. CASE i \in DOMAIN text
    <3>1. text[i] \in Number \cup {Star, Bad} /\ text[i] # Bad
      BY <2>1 DEF Text, Parses
    <3> QED
      BY <2>1, <3>1, VersionsAssumption DEF Part, Number
  <2>2. CASE i \notin DOMAIN text
    BY <2>2, VersionsAssumption DEF Part, Number
  <2> QED
    BY <2>1, <2>2
<1> QED
  BY <1>1 DEF ParseVersion, Ver

\* Precedes without a quantifier.
LEMMA PrecedesCases ==
  ASSUME NEW v \in Ver, NEW w \in Ver
  PROVE  Precedes(v, w) <=>
           \/ v.Major < w.Major
           \/ v.Major = w.Major /\ v.Minor < w.Minor
           \/ v.Major = w.Major /\ v.Minor = w.Minor /\ v.Patch < w.Patch
           \/ v.Major = w.Major /\ v.Minor = w.Minor /\ v.Patch = w.Patch /\ v.Build < w.Build
<1> DEFINE D(i) == /\ Numbers(v)[i] < Numbers(w)[i]
                   /\ \A j \in 1 .. i - 1 : Numbers(v)[j] = Numbers(w)[j]
<1>1. Precedes(v, w) <=> \E i \in 1 .. 4 : D(i)
  BY DEF Precedes
<1>2. (\E i \in 1 .. 4 : D(i)) <=> D(1) \/ D(2) \/ D(3) \/ D(4)
  <2>1. \A i \in 1 .. 4 : i = 1 \/ i = 2 \/ i = 3 \/ i = 4
    OBVIOUS
  <2>2. 1 \in 1 .. 4 /\ 2 \in 1 .. 4 /\ 3 \in 1 .. 4 /\ 4 \in 1 .. 4
    OBVIOUS
  <2> HIDE DEF D
  <2> QED
    BY <2>1, <2>2
<1>3. 1 .. 1 - 1 = {} /\ 1 .. 2 - 1 = {1} /\ 1 .. 3 - 1 = {1, 2} /\ 1 .. 4 - 1 = {1, 2, 3}
  OBVIOUS
<1>4. /\ Numbers(v)[1] = v.Major /\ Numbers(v)[2] = v.Minor
      /\ Numbers(v)[3] = v.Patch /\ Numbers(v)[4] = v.Build
      /\ Numbers(w)[1] = w.Major /\ Numbers(w)[2] = w.Minor
      /\ Numbers(w)[3] = w.Patch /\ Numbers(w)[4] = w.Build
  BY DEF Numbers
<1>5. D(1) <=> v.Major < w.Major
  BY <1>3, <1>4
<1>6. D(2) <=> v.Major = w.Major /\ v.Minor < w.Minor
  BY <1>3, <1>4
<1>7. D(3) <=> v.Major = w.Major /\ v.Minor = w.Minor /\ v.Patch < w.Patch
  BY <1>3, <1>4
<1>8. D(4) <=> v.Major = w.Major /\ v.Minor = w.Minor /\ v.Patch = w.Patch /\ v.Build < w.Build
  BY <1>3, <1>4
<1> HIDE DEF D
<1> QED
  BY <1>1, <1>2, <1>5, <1>6, <1>7, <1>8

LEMMA EqualVers ==
  ASSUME NEW v \in Ver, NEW w \in Ver
  PROVE  v = w <=> /\ v.Major = w.Major /\ v.Minor = w.Minor
                   /\ v.Patch = w.Patch /\ v.Build = w.Build
BY DEF Ver

LEMMA VerNumbers ==
  ASSUME NEW v \in Ver
  PROVE  v.Major \in Nat /\ v.Minor \in Nat /\ v.Patch \in Nat /\ v.Build \in Nat
BY VersionsAssumption DEF Ver, Number

\* IsGreaterThanEq and IsLessThanEq (taskHelpersVersion.go) compare by the first
\* of the four numbers that differs.
THEOREM ComparisonsAreTheOrder ==
  ASSUME NEW v \in Ver, NEW w \in Ver
  PROVE  /\ IsGreaterThanEq(v, w) <=> AtMost(w, v)
         /\ IsLessThanEq(v, w) <=> AtMost(v, w)
<1>1. IsLessThanEq(v, w) <=> AtMost(v, w)
  BY PrecedesCases, EqualVers, VerNumbers DEF IsLessThanEq, AtMost
<1>2. IsGreaterThanEq(v, w) <=> AtMost(w, v)
  BY PrecedesCases, EqualVers, VerNumbers DEF IsGreaterThanEq, AtMost
<1> QED
  BY <1>1, <1>2

\* The order is total: of two versions one is at most the other, both only when
\* they are the same, and it can be chained.
THEOREM VersionsTotallyOrdered ==
  ASSUME NEW u \in Ver, NEW v \in Ver, NEW w \in Ver
  PROVE  /\ IsLessThanEq(u, v) \/ IsLessThanEq(v, u)
         /\ IsLessThanEq(u, v) /\ IsLessThanEq(v, u) => u = v
         /\ IsLessThanEq(u, v) /\ IsLessThanEq(v, w) => IsLessThanEq(u, w)
<1>1. IsLessThanEq(u, v) \/ IsLessThanEq(v, u)
  BY VerNumbers DEF IsLessThanEq
<1>2. IsLessThanEq(u, v) /\ IsLessThanEq(v, u) => u = v
  BY VerNumbers, EqualVers DEF IsLessThanEq
<1>3. IsLessThanEq(u, v) /\ IsLessThanEq(v, w) => IsLessThanEq(u, w)
  BY VerNumbers DEF IsLessThanEq
<1> QED
  BY <1>1, <1>2, <1>3

-----------------------------------------------------------------------------
(* Requirements *)

LEMMA WithoutStarsIsText ==
  ASSUME NEW text \in Text, StarsLast(text)
  PROVE  WithoutStars(text) \in Text
<1> DEFINE n == CHOOSE n \in 1 .. Len(text) : NumbersTo(text, n)
<1>1. n \in 1 .. Len(text)
  BY DEF StarsLast
<1>2. WithoutStars(text) = SubSeq(text, 1, n)
  BY DEF WithoutStars
<1> HIDE DEF n
<1> QED
  BY <1>1, <1>2 DEF Text

\* A requirement expands to texts.
LEMMA ExpandedAreTexts ==
  ASSUME NEW r \in Requirement, r.bounds # <<>>,
         \A b \in DOMAIN r.bounds : StarsLast(r.bounds[b])
  PROVE  Expand(r) \in Seq(Text)
<1> DEFINE bounds == IF r.plus THEN Append(r.bounds, Unbounded) ELSE r.bounds
<1>1. Unbounded \in Text
  BY DEF Unbounded, Text
<1>2. bounds \in Seq(Text) /\ Len(bounds) >= 1
  BY <1>1 DEF Requirement
<1>3. CASE Len(bounds) # 1
  BY <1>2, <1>3 DEF Expand
<1>4. CASE Len(bounds) = 1
  <2>1. ~r.plus /\ bounds = r.bounds
    BY <1>4 DEF Requirement
  <2>2. bounds[1] \in Text /\ StarsLast(bounds[1])
    BY <1>2, <2>1
  <2>3. WithoutStars(bounds[1]) \in Text
    BY <2>2, WithoutStarsIsText
  <2>4. Expand(r) = <<WithoutStars(bounds[1]), bounds[1]>> \/ Expand(r) = <<bounds[1], bounds[1]>>
    BY <1>4 DEF Expand
  <2>5. ASSUME NEW a \in Text, NEW b \in Text PROVE <<a, b>> \in Seq(Text)
    OBVIOUS
  <2> HIDE DEF bounds
  <2> QED
    BY <2>2, <2>3, <2>4, <2>5
<1> QED
  BY <1>3, <1>4

\* Outcome (the body of the loop) answers by the interval that r denotes.
LEMMA OutcomeIsWithin ==
  ASSUME NEW v \in Ver, NEW r \in Requirement, r.bounds # <<>>,
         \A b \in DOMAIN r.bounds : StarsLast(r.bounds[b])
  PROVE  /\ Outcome(v, r) = "error" <=> ~WellFormed(r)
         /\ Outcome(v, r) = "yes" <=> WellFormed(r) /\ Within(v, r)
         /\ Outcome(v, r) = "no" <=> WellFormed(r) /\ ~Within(v, r)
         /\ Outcome(v, r) \in {"yes", "no", "error"}
<1>1. ASSUME WellFormed(r)
      PROVE  InRange(v, Expand(r)) <=> Within(v, r)
  <2>1. Expand(r)[1] \in Text /\ Expand(r)[2] \in Text
    BY <1>1, ExpandedAreTexts DEF WellFormed
  <2>2. ParseVersion(Expand(r)[1]) \in Ver /\ ParseVersion(Expand(r)[2]) \in Ver
    BY <1>1, <2>1, ParsedIsVer DEF WellFormed
  <2> QED
    BY <2>2, ComparisonsAreTheOrder DEF InRange, Within
<1> QED
  BY <1>1 DEF Outcome

-----------------------------------------------------------------------------
(* The loop *)

Passed(i) == WellFormed(requirements[i]) /\ ~Within(Checked, requirements[i])

LoopInv ==
  /\ TypeOK
  /\ next > 1 => Parses(version)
  /\ \A i \in 1 .. next - 1 : Passed(i)
  /\ answer \in {"yes", "no"} => Parses(version)
  /\ answer = "yes" => /\ next \in DOMAIN requirements
                       /\ WellFormed(requirements[next]) /\ Within(Checked, requirements[next])
  /\ answer = "no" => next = Len(requirements) + 1
  /\ answer = "error" => \/ ~Parses(version)
                         \/ next \in DOMAIN requirements /\ ~WellFormed(requirements[next])

LEMMA ArgumentTypes ==
  ASSUME TypeOK
  PROVE  /\ version \in Text
         /\ requirements \in Seq(Requirement)
         /\ \A i \in DOMAIN requirements :
              /\ requirements[i] \in Requirement
              /\ requirements[i].bounds # <<>>
              /\ \A b \in DOMAIN requirements[i].bounds : StarsLast(requirements[i].bounds[b])
              /\ Parses(version) => Checked \in Ver
<1>1. version \in Text /\ requirements \in Seq(Requirement)
  BY VersionCheckAssumption DEF TypeOK
<1>2. \A i \in DOMAIN requirements : requirements[i] \in Requirement
  BY <1>1
<1>3. \A i \in DOMAIN requirements :
        /\ requirements[i].bounds # <<>>
        /\ \A b \in DOMAIN requirements[i].bounds : StarsLast(requirements[i].bounds[b])
  BY VersionCheckAssumption DEF TypeOK
<1>4. Parses(version) => Checked \in Ver
  BY <1>1, ParsedIsVer DEF Checked
<1> QED
  BY <1>1, <1>2, <1>3, <1>4

LEMMA LoopInvInit == Init => LoopInv
BY VersionCheckAssumption DEF Init, LoopInv, TypeOK, Passed

LEMMA LoopInvNext ==
  ASSUME LoopInv, [Next]_vars
  PROVE  LoopInv'
<1> USE DEF LoopInv
<1>1. CASE NotAVersion
  BY <1>1 DEF NotAVersion, TypeOK, Passed, Checked
<1>2. CASE CheckRequirement
  <2> DEFINE r == requirements[next]
             outcome == Outcome(ParseVersion(version), r)
  <2>1. /\ answer = "open" /\ next <= Len(requirements) /\ Parses(version)
        /\ UNCHANGED <<version, requirements>>
        /\ IF outcome = "no" THEN next' = next + 1 /\ UNCHANGED answer
                             ELSE answer' = outcome /\ UNCHANGED next
    BY <1>2 DEF CheckRequirement
  <2>2. next \in DOMAIN requirements
    BY <2>1, ArgumentTypes DEF TypeOK
  <2>3. /\ outcome = "error" <=> ~WellFormed(r)
        /\ outcome = "yes" <=> WellFormed(r) /\ Within(Checked, r)
        /\ outcome = "no" <=> WellFormed(r) /\ ~Within(Checked, r)
        /\ outcome \in {"yes", "no", "error"}
    BY <2>1, <2>2, ArgumentTypes, OutcomeIsWithin DEF Checked
  <2>4. Checked' = Checked
    BY <2>1 DEF Checked
  <2>5. next \in Nat /\ Len(requirements) \in Nat
    BY ArgumentTypes DEF TypeOK
  <2>6. CASE outcome = "no"
    <3>1. next' = next + 1 /\ UNCHANGED <<version, requirements, answer>>
      BY <2>1, <2>6
    <3>2. \A i \in 1 .. next : Passed(i)
      BY <2>3, <2>5, <2>6 DEF Passed
    <3>3. \A i \in 1 .. next' - 1 : Passed(i)'
      BY <2>4, <2>5, <3>1, <3>2 DEF Passed
    <3>4. TypeOK'
      BY <2>1, <2>5, <3>1 DEF TypeOK
    <3> HIDE DEF outcome, r
    <3> QED
      BY <2>1, <3>1, <3>3, <3>4
  <2>7. CASE outcome # "no"
    <3>1. answer' = outcome /\ UNCHANGED <<version, requirements, next>>
      BY <2>1, <2>7
    <3>2. TypeOK'
      BY <2>3, <3>1 DEF TypeOK
    <3>3. (\A i \in 1 .. next - 1 : Passed(i))'
      BY <2>4, <3>1 DEF Passed
    <3>4. Parses(version')
      BY <2>1, <3>1
    <3> QED
      BY <2>2, <2>3, <2>4, <2>7, <3>1, <3>2, <3>3, <3>4
  <2> QED
    BY <2>6, <2>7
<1>3. CASE NoneMatches
  <2>1. next = Len(requirements) + 1
    BY <1>3, ArgumentTypes DEF NoneMatches, TypeOK
  <2> QED
    BY <1>3, <2>1 DEF NoneMatches, TypeOK, Passed, Checked
<1>4. CASE UNCHANGED vars
  BY <1>4 DEF vars, TypeOK, Passed, Checked
<1> QED
  BY <1>1, <1>2, <1>3, <1>4 DEF Next, Done

LEMMA LoopInvAlways == Spec => []LoopInv
<1> QED
  BY LoopInvInit, LoopInvNext, PTL DEF Spec

\* The arguments and the index of CheckCompatibility keep their types.
THEOREM TypeCorrect == Spec => []TypeOK
<1>1. LoopInv => TypeOK
  BY DEF LoopInv
<1> QED
  BY <1>1, LoopInvAlways, PTL

LEMMA LoopInvAnswers == LoopInv => AnswerMeansWithin
<1> SUFFICES ASSUME LoopInv PROVE AnswerMeansWithin
  OBVIOUS
<1>1. next \in Nat /\ Len(requirements) \in Nat /\ DOMAIN requirements = 1 .. Len(requirements)
  BY ArgumentTypes DEF LoopInv, TypeOK
<1>2. answer = "yes" =>
     /\ Parses(version)
     /\ next \in DOMAIN requirements /\ Within(Checked, requirements[next])
     /\ \A i \in 1 .. next - 1 : WellFormed(requirements[i]) /\ ~Within(Checked, requirements[i])
  BY DEF LoopInv, Passed
<1>3. answer = "no" =>
     \A i \in DOMAIN requirements : WellFormed(requirements[i]) /\ ~Within(Checked, requirements[i])
  BY <1>1 DEF LoopInv, Passed
<1> QED
  BY <1>2, <1>3 DEF AnswerMeansWithin

\* The answers yes and no of CheckCompatibility mean that the version lies in an
\* interval of the requirements, and that it lies in none.
THEOREM AnswersMeanWithin == Spec => []AnswerMeansWithin
BY LoopInvAnswers, LoopInvAlways, PTL

\* An error of VersionIsCompatible means a malformed version, or a malformed
\* requirement before any that has the version.
THEOREM ErrorsMeanMalformed == Spec => []ErrorMeansMalformed
<1>1. LoopInv => ErrorMeansMalformed
  BY DEF LoopInv, ErrorMeansMalformed, Passed
<1> QED
  BY <1>1, LoopInvAlways, PTL

-----------------------------------------------------------------------------
(* What the answers imply *)

\* The models of the tasks use CheckCompatibility as one operator.
LoopIsOperator == answer # "open" => answer = VersionIsCompatible(version, requirements)

\* The loop of CheckCompatibility computes what the operator of this name says.
LEMMA LoopComputesOperator == Spec => []LoopIsOperator
<1>1. ASSUME LoopInv, answer # "open" PROVE answer = VersionIsCompatible(version, requirements)
  <2>1. CASE ~Parses(version)
    BY <1>1, <2>1 DEF LoopInv, TypeOK, VersionIsCompatible
  <2>2. CASE Parses(version)
    <3> DEFINE outcome(i) == Outcome(Checked, requirements[i])
               decisive == {i \in DOMAIN requirements : outcome(i) # "no"}
               first == CHOOSE i \in decisive : \A j \in decisive : i <= j
    <3>1. /\ next \in Nat /\ Len(requirements) \in Nat
          /\ DOMAIN requirements = 1 .. Len(requirements) /\ next \in 1 .. Len(requirements) + 1
      BY <1>1, ArgumentTypes DEF LoopInv, TypeOK
    <3>2. \A i \in DOMAIN requirements :
            /\ outcome(i) = "error" <=> ~WellFormed(requirements[i])
            /\ outcome(i) = "yes" <=> WellFormed(requirements[i]) /\ Within(Checked, requirements[i])
            /\ outcome(i) = "no" <=> Passed(i)
      BY <1>1, <2>2, ArgumentTypes, OutcomeIsWithin DEF LoopInv, Passed
    <3>3. \A i \in 1 .. next - 1 : i \notin decisive
      BY <1>1, <3>1, <3>2 DEF LoopInv
    <3>4. VersionIsCompatible(version, requirements) = IF decisive = {} THEN "no" ELSE outcome(first)
      BY <2>2 DEF VersionIsCompatible, CheckCompatibility, Checked
    <3>5. CASE answer = "no"
      <4>1. decisive = {}
        BY <1>1, <3>1, <3>3, <3>5 DEF LoopInv
      <4> QED
        BY <3>4, <3>5, <4>1
    <3>6. CASE answer # "no"
      <4>1. next \in DOMAIN requirements /\ outcome(next) = answer /\ answer # "no"
        BY <1>1, <2>2, <3>2, <3>6 DEF LoopInv, TypeOK
      <4>2. next \in decisive /\ \A j \in decisive : next <= j
        BY <3>1, <3>3, <4>1
      <4>3. \A i \in decisive : (\A j \in decisive : i <= j) => i = next
        BY <3>1, <4>2
      <4>4. first = next
        BY <4>2, <4>3
      <4> QED
        BY <3>4, <4>1, <4>2, <4>4
    <3> QED
      BY <3>5, <3>6
  <2> QED
    BY <2>1, <2>2
<1>2. LoopInv => LoopIsOperator
  BY <1>1 DEF LoopIsOperator
<1> QED
  BY <1>2, LoopInvAlways, PTL

\* "7.*" expands to the range from 7 to 7.*, which holds every version whose major
\* number is 7, unless its minor number is the largest int.
LEMMA StarInterval ==
  ASSUME NEW v \in Ver, NEW m \in Number, v.Minor < Infinity
  PROVE  /\ WellFormed(Exactly(<<m, Star>>))
         /\ InRange(v, Expand(Exactly(<<m, Star>>))) <=> v.Major = m
<1> DEFINE text == <<m, Star>>
<1>1. m \in Nat /\ m # Star /\ m # Bad /\ Infinity \in Nat
  BY VersionsAssumption DEF Number
<1>2. WithoutStars(text) = <<m>>
  <2>1. NumbersTo(text, 1) /\ ~NumbersTo(text, 2)
    BY DEF NumbersTo
  <2>2. \A n \in 1 .. Len(text) : n = 1 \/ n = 2
    OBVIOUS
  <2>3. (CHOOSE n \in 1 .. Len(text) : NumbersTo(text, n)) = 1
    BY <2>1, <2>2
  <2>4. SubSeq(text, 1, 1) = <<m>>
    <3>1. text \in Seq({m, Star}) /\ Len(text) = 2 /\ text[1] = m
      OBVIOUS
    <3>2. Len(SubSeq(text, 1, 1)) = 1 /\ SubSeq(text, 1, 1)[1] = m
      BY <3>1
    <3>3. SubSeq(text, 1, 1) \in Seq({m, Star})
      BY <3>1
    <3>4. ASSUME NEW s \in Seq({m, Star}), Len(s) = 1, s[1] = m PROVE s = <<m>>
      BY <3>4
    <3> QED
      BY <3>2, <3>3, <3>4
  <2> QED
    BY <2>3, <2>4 DEF WithoutStars
<1>3. HasStar(text)
  BY DEF HasStar
<1>4. Expand(Exactly(text)) = <<<<m>>, text>>
  BY <1>2, <1>3 DEF Expand, Exactly
<1>5. Parses(<<m>>) /\ Parses(text)
  BY <1>1, VersionsAssumption DEF Parses
<1>6. /\ ParseVersion(<<m>>) = [Major |-> m, Minor |-> 0, Patch |-> 0, Build |-> 0]
      /\ ParseVersion(text) = [Major |-> m, Minor |-> Infinity, Patch |-> 0, Build |-> 0]
  BY <1>1 DEF ParseVersion, Part
<1>7. WellFormed(Exactly(text))
  BY <1>4, <1>5 DEF WellFormed
<1>8. /\ IsGreaterThanEq(v, [Major |-> m, Minor |-> 0, Patch |-> 0, Build |-> 0]) <=> v.Major >= m
      /\ IsLessThanEq(v, [Major |-> m, Minor |-> Infinity, Patch |-> 0, Build |-> 0]) <=> v.Major <= m
  BY <1>1, VerNumbers DEF IsGreaterThanEq, IsLessThanEq
<1>9. InRange(v, Expand(Exactly(text))) <=> v.Major >= m /\ v.Major <= m
  BY <1>4, <1>6, <1>8 DEF InRange
<1> QED
  BY <1>1, <1>7, <1>9, VerNumbers

\* "Single wildcard version ("7.*")" (taskHelpersVersion.go): compatible are the
\* versions with this major number and no others.
THEOREM WildcardsMeanMajor == Spec => []WildcardIsMajor
<1>1. ASSUME LoopInv, LoopIsOperator PROVE WildcardIsMajor
  <2> SUFFICES ASSUME NEW m \in Number, answer # "open", Parses(version),
                      Checked.Minor < Infinity,
                      requirements = <<Exactly(<<m, Star>>)>>
               PROVE  answer = (IF Checked.Major = m THEN "yes" ELSE "no")
    BY DEF WildcardIsMajor
  <2> DEFINE r == Exactly(<<m, Star>>)
  <2>1. DOMAIN requirements = {1} /\ requirements[1] = r
    OBVIOUS
  <2>2. Checked \in Ver
    BY <1>1, <2>1, ArgumentTypes DEF LoopInv
  <2>3. Outcome(Checked, r) = IF Checked.Major = m THEN "yes" ELSE "no"
    BY <2>2, StarInterval DEF Outcome
  <2>4. answer = CheckCompatibility(Checked, requirements)
    BY <1>1 DEF LoopIsOperator, VersionIsCompatible, Checked
  <2> HIDE DEF r
  <2>5. CheckCompatibility(Checked, requirements) = Outcome(Checked, r)
    <3> DEFINE decisive == {i \in DOMAIN requirements : Outcome(Checked, requirements[i]) # "no"}
               first == CHOOSE i \in decisive : \A j \in decisive : i <= j
    <3>1. decisive = IF Outcome(Checked, r) = "no" THEN {} ELSE {1}
      BY <2>1
    <3>2. decisive = {1} => first = 1
      OBVIOUS
    <3> HIDE DEF decisive
    <3>3. CheckCompatibility(Checked, requirements)
            = IF decisive = {} THEN "no" ELSE Outcome(Checked, requirements[first])
      BY DEF CheckCompatibility, decisive
    <3> HIDE DEF first
    <3> QED
      BY <2>1, <3>1, <3>2, <3>3
  <2> QED
    BY <2>3, <2>4, <2>5
<1> QED
  BY <1>1, LoopInvAlways, LoopComputesOperator, PTL

\* "Minimum version: ("7.4+")" (taskHelpersVersion.go): compatibility with a
\* minimum is kept by every higher version.
THEOREM MinimumsAreUpward == Spec => []MinimumIsUpward
<1>1. ASSUME LoopInv, AnswerMeansWithin PROVE MinimumIsUpward
  <2> SUFFICES ASSUME NEW t \in Version, answer = "yes", Parses(t),
                      AtMost(Checked, ParseVersion(t)),
                      Len(requirements) = 1, requirements[1].plus
               PROVE  Outcome(ParseVersion(t), requirements[1]) = "yes"
    BY DEF MinimumIsUpward
  <2> DEFINE r == requirements[1]
             w == ParseVersion(t)
             low == ParseVersion(Expand(r)[1])
  <2>1. next = 1
    BY <1>1, ArgumentTypes DEF LoopInv, TypeOK
  <2>2. WellFormed(r) /\ Within(Checked, r) /\ 1 \in DOMAIN requirements
    BY <1>1, <2>1 DEF LoopInv
  <2>3. /\ r \in Requirement /\ r.bounds # <<>> /\ Checked \in Ver
        /\ \A b \in DOMAIN r.bounds : StarsLast(r.bounds[b])
    BY <1>1, <2>2, ArgumentTypes DEF LoopInv
  <2>4. w \in Ver
    BY VersionCheckAssumption, ParsedIsVer
  <2>5. Expand(r) \in Seq(Text) /\ Len(Expand(r)) = 2
    BY <2>2, <2>3, ExpandedAreTexts DEF WellFormed
  <2>6. low \in Ver
    BY <2>2, <2>5, ParsedIsVer DEF WellFormed
  <2>7. Expand(r)[2] = Unbounded
    <3>1. r.bounds \in Seq(Text) /\ Len(r.bounds) >= 1
      BY <2>3 DEF Requirement
    <3>2. Len(Append(r.bounds, Unbounded)) # 1
      BY <3>1
    <3>3. Expand(r) = Append(r.bounds, Unbounded)
      BY <3>2 DEF Expand
    <3>4. ASSUME NEW s \in Seq(Text), Len(Append(s, Unbounded)) = 2
          PROVE  Append(s, Unbounded)[2] = Unbounded
      BY <3>4
    <3> QED
      BY <2>5, <3>1, <3>3, <3>4
  <2>8. IsLessThanEq(w, ParseVersion(Unbounded))
    <3>1. ParseVersion(Unbounded)
            = [Major |-> Infinity, Minor |-> Infinity, Patch |-> Infinity, Build |-> Infinity]
      BY DEF ParseVersion, Part, Unbounded
    <3>2. /\ w.Major <= Infinity /\ w.Minor <= Infinity
          /\ w.Patch <= Infinity /\ w.Build <= Infinity
      BY <2>4 DEF Ver, Number
    <3>3. Infinity \in Nat
      BY VersionsAssumption
    <3> HIDE DEF w
    <3> QED
      BY <2>4, <3>1, <3>2, <3>3, VerNumbers DEF IsLessThanEq
  <2>9. IsGreaterThanEq(w, low)
    <3>1. AtMost(low, Checked)
      BY <2>2 DEF Within
    <3>2. IsLessThanEq(low, Checked) /\ IsLessThanEq(Checked, w)
      BY <2>3, <2>4, <2>6, <3>1, ComparisonsAreTheOrder
    <3>3. IsLessThanEq(low, w)
      BY <2>3, <2>4, <2>6, <3>2, VersionsTotallyOrdered
    <3> QED
      BY <2>4, <2>6, <3>3, ComparisonsAreTheOrder
  <2> QED
    BY <2>2, <2>7, <2>8, <2>9 DEF Outcome, InRange
<1>2. LoopInv => AnswerMeansWithin
  BY LoopInvAnswers
<1>3. LoopInv => MinimumIsUpward
  BY <1>1, <1>2
<1> QED
  BY <1>3, LoopInvAlways, PTL

=============================================================================
