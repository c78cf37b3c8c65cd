--------------------------- MODULE DiagnosticRun ---------------------------
(***************************************************************************)
(* What a run of nrdiag promises to the person who started it: the tasks   *)
(* that were asked for, and everything they depend on, are executed one    *)
(* after the other, each after what it depends on; then all of them are    *)
(* reported, the archive is closed, and only then it may be sent.  A run   *)
(* may end at any point (a wrong suite name, a panic, a failed upload).    *)
(***************************************************************************)
CONSTANTS
  Task,     \* the registered tasks
  Needs     \* Needs[task]: the tasks it depends on

VARIABLES
  wanted,    \* the tasks the run was asked for
  phase,     \* "setup", "executing", "reporting", "closed", "ended"
  executed,  \* the tasks that have a result
  reported,  \* the tasks whose result is reported
  published  \* the report has been sent

vars == <<wanted, phase, executed, reported, published>>

Init ==
  /\ wanted \subseteq Task
  /\ phase = "setup"
  /\ executed = {}
  /\ reported = {}
  /\ published = FALSE

\* What was asked for and what it depends on, transitively, and nothing else.
IsClosure(S) == S = wanted \cup UNION {Needs[t] : t \in S}

StartTasks ==
  /\ phase = "setup"
  /\ phase' = "executing"
  /\ UNCHANGED <<wanted, executed, reported, published>>

Execute(t) ==
  /\ phase = "executing"
  /\ t \notin executed
  /\ Needs[t] \subseteq executed
  /\ executed' = executed \cup {t}
  /\ UNCHANGED <<wanted, phase, reported, published>>

Report ==
  /\ phase = "executing"
  /\ IsClosure(executed)
  /\ reported' = executed
  /\ phase' = "reporting"
  /\ UNCHANGED <<wanted, executed, published>>

CloseArchive ==
  /\ phase = "reporting"
  /\ phase' = "closed"
  /\ UNCHANGED <<wanted, executed, reported, published>>

Publish ==
  /\ phase = "closed"
  /\ published' = TRUE
  /\ UNCHANGED <<wanted, phase, executed, reported>>

End ==
  /\ phase # "ended"
  /\ phase' = "ended"
  /\ UNCHANGED <<wanted, executed, reported, published>>

Next == StartTasks \/ (\E t \in Task : Execute(t)) \/ Report \/ CloseArchive \/ Publish \/ End

Spec == Init /\ [][Next]_vars /\ WF_vars(Next)

=============================================================================
