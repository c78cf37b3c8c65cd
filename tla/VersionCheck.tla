---------------------------- MODULE VersionCheck ----------------------------
(***************************************************************************)
(* The loop of CheckCompatibility (src/tasks/taskHelpersVersion.go) over   *)
(* the requirements, one after another, and what it must answer: whether   *)
(* the version lies in one of the intervals they denote.                   *)
(***************************************************************************)
EXTENDS Versions

CONSTANTS
  Version,       \* texts of versions to check
  Requirements   \* lists of requirements to check them against

ASSUME VersionCheckAssumption ==
  /\ Version \subseteq Text
  /\ Requirements \subseteq Seq(Requirement)
  /\ \A rs \in Requirements : \A i \in DOMAIN rs :
       rs[i].bounds # <<>> /\ \A b \in DOMAIN rs[i].bounds : StarsLast(rs[i].bounds[b])

VARIABLES
  version, requirements,  \* the arguments
  next,                   \* the requirement the loop is at
  answer                  \* "open", then "yes", "no" or "error"
vars == <<version, requirements, next, answer>>

Init ==
  /\ version \in Version /\ requirements \in Requirements
  /\ next = 1
  /\ answer = "open"

NotIsNo ==
  /\ answer = "open" /\ next = 1
  /\ ~Parses(version)
  /\ answer' = "no"
  /\ UNCHANGED <<version, requirements, next>>

NotAVersion ==
  /\ answer = "open" /\ next = 1
  /\ ~Parses(version)
  /\ answer' = "error"
  /\ UNCHANGED <<version, requirements, next>>

CheckRequirement ==
  /\ answer = "open" /\ next <= Len(requirements)
  /\ Parses(version)
  /\ LET outcome == Outcome(ParseVersion(version), requirements[next])
     IN  IF outcome = "no"
         THEN next' = next + 1 /\ UNCHANGED answer
         ELSE answer' = outcome /\ UNCHANGED next
  /\ UNCHANGED <<version, requirements>>

NoneMatches ==
  /\ answer = "open" /\ next > Len(requirements)
  /\ Parses(version)
  /\ answer' = "no"
  /\ UNCHANGED <<version, requirements, next>>

Done == answer # "open" /\ UNCHANGED vars

Next == NotAVersion \/ CheckRequirement \/ NoneMatches \/ Done
Spec == Init /\ [][Next]_vars /\ WF_vars(Next)

-----------------------------------------------------------------------------
Checked == ParseVersion(version)

\* The loop of CheckCompatibility.
TypeOK ==
  /\ version \in Version /\ requirements \in Requirements
  /\ next \in 1 .. Len(requirements) + 1
  /\ answer \in {"open", "yes", "no", "error"}

\* "It returns a boolean indicating compatibility": yes means that one of the
\* requirements holds the version, and that those before it were well formed and
\* did not; no means that none of them does.
AnswerMeansWithin ==
  /\ answer = "yes" =>
       /\ Parses(version)
       /\ next \in DOMAIN requirements /\ Within(Checked, requirements[next])
       /\ \A i \in 1 .. next - 1 : WellFormed(requirements[i]) /\ ~Within(Checked, requirements[i])
  /\ answer = "no" =>
       \A i \in DOMAIN requirements : WellFormed(requirements[i]) /\ ~Within(Checked, requirements[i])

\* "an error in cases of invalid input": a malformed requirement is told of
\* unless one before it has the version, and nothing else is an error.
ErrorMeansMalformed ==
  /\ answer = "error" =>
       \/ ~Parses(version)
       \/ \E i \in DOMAIN requirements :
            /\ ~WellFormed(requirements[i])
            /\ \A j \in 1 .. i - 1 : WellFormed(requirements[j]) /\ ~Within(Checked, requirements[j])
  /\ answer \in {"yes", "no"} => Parses(version)

\* "Single wildcard version ("7.*") - Returns true for any version with 7 major
\* version ("7.9.1")", and for no other.
WildcardIsMajor ==
  \A m \in Number :
    /\ answer # "open" /\ Parses(version)
    /\ Checked.Minor < Infinity
    /\ requirements = <<Exactly(<<m, Star>>)>>
    => answer = (IF Checked.Major = m THEN "yes" ELSE "no")

\* "Minimum version: ("7.4+")": a version at least as high as one that is
\* compatible with a minimum is compatible with it.
MinimumIsUpward ==
  \A w \in Version :
    /\ answer = "yes" /\ Parses(w) /\ AtMost(Checked, ParseVersion(w))
    /\ Len(requirements) = 1 /\ requirements[1].plus
    => Outcome(ParseVersion(w), requirements[1]) = "yes"

=============================================================================
