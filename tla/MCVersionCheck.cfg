SPECIFICATION Spec
CONSTANTS
  star = star
  bad = bad
  Star = star
  Bad = bad
  Infinity = 3
  Version <- MCVersion
  Requirements <- MCRequirements
INVARIANTS
  AnswerMeansWithin
  ErrorMeansMalformed
