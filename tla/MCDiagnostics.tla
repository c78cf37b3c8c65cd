--------------------------- MODULE MCDiagnostics ---------------------------
(***************************************************************************)
(* Three tasks: collect returns files, logs depends on it and returns a    *)
(* stream and files with names already taken, hsm depends on both.         *)
(***************************************************************************)
EXTENDS Diagnostics

CONSTANTS collect, logs, hsm, s1, s2

MCTask == {collect, logs, hsm}
MCRef == {"collect", "logs", "LOGS", "hsm"}

MCMatches ==
  [r \in MCRef |-> CASE r = "collect" -> {collect}
                     [] r \in {"logs", "LOGS"} -> {logs}
                     [] r = "hsm" -> {hsm}]

\* Only the exact spelling is a key of Work.Results.
MCKey ==
  [r \in MCRef |-> CASE r = "collect" -> collect
                     [] r = "logs" -> logs
                     [] r = "LOGS" -> NoTask
                     [] r = "hsm" -> hsm]

MCDependencies ==
  [t \in MCTask |-> CASE t = collect -> << >>
                      [] t = logs -> <<"collect">>
                      [] t = hsm -> <<"collect", "logs">>]

\* hsm writes the name of logs in another case.
MixedCaseDependencies == [MCDependencies EXCEPT ![hsm] = <<"collect", "LOGS">>]

MCRequests == {[all |-> TRUE, refs |-> << >>]}

\* A task by a name in another case, and nothing at all (-script -run).
MCAllRequests ==
  MCRequests \cup
  {[all |-> FALSE, refs |-> <<"LOGS">>], [all |-> FALSE, refs |-> << >>]}

MCPath == {"a/agent.log", "b/agent.log", "c/agent.log", "c/agent(1).log", "run.sh", "gone.log",
           "docker.txt", "agent.log", "json", "filelist"}
AgentLogs == {"a/agent.log", "b/agent.log", "c/agent.log", "c/agent(1).log", "agent.log"}
MCBaseName ==
  [p \in MCPath |->
     [stem |-> CASE p \in AgentLogs -> "agent.log"
                 [] p = "json" -> "nrdiag-output.json"
                 [] p = "filelist" -> "nrdiag-filelist.txt"
                 [] OTHER -> p,
      numbers |-> IF p = "c/agent(1).log" THEN <<1>> ELSE << >>]]
MCFileKind ==
  [p \in MCPath |-> CASE p = "run.sh" -> "executable"
                      [] p \in {"gone.log", "docker.txt", "agent.log"} -> "missing"
                      [] OTHER -> "plain"]

File(p) == PlainFile(p)
Streamed(p, s, f) == [File(p) EXCEPT !.stream = s, !.folder = f]

Returns(status, payload, files, starts) ==
  [status |-> status, payload |-> payload, files |-> files, starts |-> starts,
   override |-> FALSE]

\* hsm starts a producer for a stream it does not return when it fails.
MCOutcomes ==
  [t \in MCTask |->
     CASE t = collect ->
            {Returns("Success", "typed", <<File("a/agent.log"), File("run.sh"), File("gone.log")>>, {})}
       [] t = logs ->
            {Returns("Success", "typed",
                     <<File("a/agent.log"), File("b/agent.log"), File("c/agent.log"),
                       File("c/agent(1).log"), Streamed("docker.txt", s1, "base/log")>>,
                     {s1}),
             Returns("None", "nil", << >>, {})}
       [] t = hsm ->
            {Returns("Success", "typed", <<Streamed("agent.log", s2, NoFolder)>>, {s2}),
             Returns("Failure", "nil", << >>, {s2})}]

\* The faulty runs leave out what does not matter to them.
FewOutcomes ==
  [t \in MCTask |->
     CASE t = collect -> {Returns("Success", "typed", <<File("a/agent.log")>>, {})}
       [] t = logs -> {Returns("Success", "typed", <<Streamed("docker.txt", s1, "base/log")>>, {s1}),
                       Returns("None", "nil", << >>, {})}
       [] t = hsm -> {Returns("Warning", "typed", << >>, {})}]

MCTrusts == [t \in MCTask |-> IF t = hsm THEN {"logs"} ELSE {}]

NoOverrides == [t \in MCTask |-> [status |-> "", text |-> FALSE]]
MCOverrideChoices == {NoOverrides}
SomeOverrides ==
  {NoOverrides,
   [NoOverrides EXCEPT ![logs] = [status |-> "Success", text |-> FALSE]],
   [NoOverrides EXCEPT ![hsm] = [status |-> "", text |-> TRUE]]}

PlainRun == [info |-> FALSE, badSuite |-> FALSE, include |-> << >>, huge |-> FALSE,
        script |-> << >>, shown |-> {"Success", "Warning", "Failure"}, upload |-> FALSE]
MCFlagChoices == {[PlainRun EXCEPT !.upload = TRUE]}
SomeFlags ==
  {PlainRun,
   [PlainRun EXCEPT !.include = <<"a/agent.log", "run.sh", "b/agent.log">>],
   [PlainRun EXCEPT !.script = <<"a/agent.log", "b/agent.log", "gone.log">>, !.upload = TRUE]}
AllFlags ==
  SomeFlags \cup
  {[PlainRun EXCEPT !.info = TRUE], [PlainRun EXCEPT !.badSuite = TRUE, !.upload = TRUE],
   [PlainRun EXCEPT !.info = TRUE, !.badSuite = TRUE], [PlainRun EXCEPT !.huge = TRUE],
   [PlainRun EXCEPT !.shown = Status]}

MCFolder == {"base/config", "base/log", "base/hsm"}
MCFolderOf ==
  [t \in MCTask |-> CASE t = collect -> "base/config" [] t = logs -> "base/log"
                      [] t = hsm -> "base/hsm"]

MCChunks == [s \in {s1, s2} |-> IF s = s1 THEN 2 ELSE 0]

=============================================================================
