----------------------------- MODULE TaskFamily -----------------------------
(***************************************************************************)
(* What the tasks of one family share (src/tasks/tasks.go): the results    *)
(* kept so far and how a task reads those of its dependencies. The modules *)
(* that extend this one give each task its Execute, which Diagnostics      *)
(* takes as a choice of results.                                           *)
(*                                                                         *)
(* A result is a record with a status and, unless its Payload is nil, a    *)
(* payload. TaskQueue shows that dependencies run first; any order with    *)
(* this property is allowed here.                                          *)
(***************************************************************************)
EXTENDS Naturals, Sequences

VARIABLES
  host,     \* what the tasks find on the host
  results,  \* the result of each task that has run
  process   \* "running", or "panicked" when an Execute panicked

Status == {"None", "Success", "Warning", "Failure", "Error", "Info"}

Verdict(s) == [status |-> s]
With(s, p) == [status |-> s, payload |-> p]

\* The result of a task, the zero Result when it is no key of the map.
Upstream(t) == IF t \in DOMAIN results THEN results[t] ELSE Verdict("None")

\* The Payload of r is not nil, so that it has the type its task gives it.
Holds(r) == "payload" \in DOMAIN r

HasPayload(r) == r.status \notin {"None", "Error", "Failure"}

Ready(t, dependencies) ==
  /\ process = "running"
  /\ t \notin DOMAIN results
  /\ dependencies \subseteq DOMAIN results

Return(t, r) ==
  /\ results' = [u \in DOMAIN results \cup {t} |-> IF u = t THEN r ELSE results[u]]
  /\ UNCHANGED process

\* Nothing recovers from a panic in Execute: the process ends.
Panic ==
  /\ process' = "panicked"
  /\ UNCHANGED results

NothingRun ==
  /\ results = [t \in {} |-> Verdict("None")]
  /\ process = "running"

\* The elements of s that are in S, in their order: SelectSeq as a function that
\* can be reasoned about.
Among(s, S) ==
  LET kept[i \in 0..Len(s)] ==
        IF i = 0 THEN <<>>
        ELSE IF s[i] \in S THEN Append(kept[i - 1], s[i]) ELSE kept[i - 1]
  IN  kept[Len(s)]

=============================================================================
