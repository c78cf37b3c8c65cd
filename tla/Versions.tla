------------------------------ MODULE Versions ------------------------------
(***************************************************************************)
(* Versions and compatibility requirements (taskHelpersVersion.go in       *)
(* src/tasks): "8.1", "4.0-7.4", "7.4+", "7.*".                            *)
(*                                                                         *)
(* The text of a version is the sequence of its parts between the dots:    *)
(* numbers, Star for "*", and Bad for a part that is no number. The text   *)
(* "infinity" reads as four stars. A requirement is the sequence of its    *)
(* texts between the dashes, and whether a "+" was in it.                  *)
(***************************************************************************)
EXTENDS Naturals, Sequences

CONSTANTS
  Infinity,  \* the largest int, which stands for a star
  Star, Bad

ASSUME VersionsAssumption ==
  /\ Infinity \in Nat \ {0}
  /\ Star \notin Nat /\ Bad \notin Nat /\ Star # Bad

Number == 0 .. Infinity
Ver == [Major : Number, Minor : Number, Patch : Number, Build : Number]
Text == Seq(Number \cup {Star, Bad})
Requirement == [bounds : Seq(Text), plus : BOOLEAN]

-----------------------------------------------------------------------------
(* Texts *)

\* Parts after the fourth must be numbers too, and are dropped.
Parses(text) == text # <<>> /\ \A i \in DOMAIN text : text[i] # Bad

Part(text, i) ==
  IF i \in DOMAIN text THEN IF text[i] = Star THEN Infinity ELSE text[i] ELSE 0

ParseVersion(text) ==
  [Major |-> Part(text, 1), Minor |-> Part(text, 2),
   Patch |-> Part(text, 3), Build |-> Part(text, 4)]

Unbounded == <<Star, Star, Star, Star>>

-----------------------------------------------------------------------------
(* Comparison *)

IsGreaterThanEq(v, min) ==
  \/ v.Major > min.Major
  \/ /\ v.Major = min.Major
     /\ \/ v.Minor > min.Minor
        \/ /\ v.Minor = min.Minor
           /\ \/ v.Patch > min.Patch
              \/ v.Patch = min.Patch /\ v.Build >= min.Build

BuildBelow(v, max) ==
  \/ v.Major < max.Major
  \/ /\ v.Major = max.Major
     /\ \/ v.Minor < max.Minor
        \/ /\ v.Minor = max.Minor
           /\ \/ v.Patch < max.Patch
              \/ v.Patch = max.Patch /\ v.Build < max.Build
IsLessThanEq(v, max) ==
  \/ v.Major < max.Major
  \/ /\ v.Major = max.Major
     /\ \/ v.Minor < max.Minor
        \/ /\ v.Minor = max.Minor
           /\ \/ v.Patch < max.Patch
              \/ v.Patch = max.Patch /\ v.Build <= max.Build

InRange(v, bounds) ==
  /\ IsGreaterThanEq(v, ParseVersion(bounds[1]))
  /\ IsLessThanEq(v, ParseVersion(bounds[2]))

-----------------------------------------------------------------------------
(* Requirements *)

HasStar(text) == \E i \in DOMAIN text : text[i] = Star

\* In the requirements of the repository numbers come first, then stars.
NumbersTo(text, n) ==
  /\ \A i \in 2 .. n : text[i] # Star
  /\ \A i \in n + 1 .. Len(text) : text[i] = Star
StarsLast(text) == \E n \in 1 .. Len(text) : NumbersTo(text, n)

\* strings.Replace removes each ".*": a star in front has no dot and stays.
WithoutStars(text) == SubSeq(text, 1, CHOOSE n \in 1 .. Len(text) : NumbersTo(text, n))

Expand(r) ==
  LET bounds == IF r.plus THEN Append(r.bounds, Unbounded) ELSE r.bounds
      only == bounds[1]
  IN  IF Len(bounds) # 1 THEN bounds
      ELSE IF HasStar(only) THEN <<WithoutStars(only), only>> ELSE <<only, only>>

WellFormed(r) ==
  LET bounds == Expand(r)
  IN  Len(bounds) = 2 /\ Parses(bounds[1]) /\ Parses(bounds[2])

Outcome(v, r) ==
  IF ~WellFormed(r) THEN "error"
  ELSE IF InRange(v, Expand(r)) THEN "yes" ELSE "no"

\* The first requirement that does not answer "no" decides.
CheckCompatibility(v, requirements) ==
  LET decisive == {i \in DOMAIN requirements : Outcome(v, requirements[i]) # "no"}
      first == CHOOSE i \in decisive : \A j \in decisive : i <= j
  IN  IF decisive = {} THEN "no" ELSE Outcome(v, requirements[first])

VersionIsCompatible(text, requirements) ==
  IF Parses(text) THEN CheckCompatibility(ParseVersion(text), requirements) ELSE "error"

-----------------------------------------------------------------------------
(* Ways to write a requirement *)

Exactly(text) == [bounds |-> <<text>>, plus |-> FALSE]
AtLeast(text) == [bounds |-> <<text>>, plus |-> TRUE]
Between(low, high) == [bounds |-> <<low, high>>, plus |-> FALSE]

-----------------------------------------------------------------------------
(* The order of versions, by the first of the four numbers that differs *)

Numbers(v) == <<v.Major, v.Minor, v.Patch, v.Build>>
Precedes(v, w) ==
  \E i \in 1 .. 4 : /\ Numbers(v)[i] < Numbers(w)[i]
                    /\ \A j \in 1 .. i - 1 : Numbers(v)[j] = Numbers(w)[j]
AtMost(v, w) == v = w \/ Precedes(v, w)

\* v lies in the interval that r denotes.
Within(v, r) ==
  /\ AtMost(ParseVersion(Expand(r)[1]), v)
  /\ AtMost(v, ParseVersion(Expand(r)[2]))

=============================================================================
