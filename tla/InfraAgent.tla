------------------------------ MODULE InfraAgent ------------------------------
(***************************************************************************)
(* The tasks of the Infrastructure agent (suite infra:debug): is it there, *)
(* which version, where are its logs and at which level, do the endpoints  *)
(* answer, is the clock right; and Infra/Agent/Debug, which switches the   *)
(* running agent to debug for five minutes, after which its logs go into   *)
(* the archive. Linux; the version is its minor number, of 1.x.            *)
(***************************************************************************)
EXTENDS TaskFamily, Naturals, Sequences, SequencesExt, FiniteSets

CONSTANTS
  Log,       \* paths of logs
  Endpoint,  \* infra-api, identity-api, ...
  Host,      \* see HostType
  None

Region == {"us01", "eu01"}

HostType ==
  [agent : {"validated", "parsed", "binary", "absent"},
   shell : BOOLEAN,                           \* Base/Env/CollectEnvVars succeeded
   env : SUBSET Log,                          \* NRIA_LOG_FILE: one log or none
   readable : SUBSET Log,
   logs : SUBSET Log,                         \* that the configuration leads to
   verbose : BOOLEAN,
   release : [answer : {"version", "fails", "garbage"}, minor : Nat, years : Nat \cup {None}],
   data : BOOLEAN,                            \* the data directory is there
   regions : SUBSET Region,                   \* that RegionDetect found
   unreachable : SUBSET (Region \X Endpoint),
   skew : BOOLEAN,                            \* more than a minute
   ctl : BOOLEAN]                             \* newrelic-infra-ctl works

\* What the values of the constants must be.
InfraAgentAssumption == Host \subseteq HostType

VARIABLES
  level,    \* of the running agent: "info", or "debug" once it was switched
  lines,    \* the logs have lines of that level
  pending,  \* the files ProcessFilesChannel was sent
  archive   \* the logs in the archive: with or without such lines

vars == <<host, level, lines, pending, archive, results, process>>
unchanged == <<host, level, lines, pending, archive>>

ConfigAgent == "Infra/Config/Agent"
DataDirectory == "Infra/Config/DataDirectoryCollect"
Version == "Infra/Agent/Version"
Collect == "Infra/Log/Collect"
LevelCheck == "Infra/Log/LevelCheck"
Connect == "Infra/Agent/Connect"
ClockSkew == "Infra/Env/ClockSkew"
Debug == "Infra/Agent/Debug"
Tasks == {ConfigAgent, DataDirectory, Version, Collect, LevelCheck, Connect, ClockSkew, Debug}

Init ==
  /\ host \in Host /\ level = "info" /\ lines = FALSE /\ pending = {}
  /\ archive = [l \in {} |-> FALSE]
  /\ NothingRun

Present == Upstream(ConfigAgent).status = "Success"

-----------------------------------------------------------------------------
(* The agent *)

\* A configuration that could be validated, one that could only be searched,
\* or the binary: the last leaves no payload.
InfraConfigAgent ==
  /\ Ready(ConfigAgent, {})
  /\ Return(ConfigAgent,
       CASE host.agent \in {"validated", "parsed"} -> With("Success", host.agent)
         [] host.agent = "binary" -> Verdict("Success")
         [] OTHER -> Verdict("None"))
  /\ UNCHANGED unchanged

\* FindFiles finds nothing below a directory that is not there.
InfraConfigDataDirectoryCollect ==
  /\ Ready(DataDirectory, {ConfigAgent})
  /\ Return(DataDirectory, Verdict(IF Present THEN "Success" ELSE "None"))
  /\ UNCHANGED unchanged

OldestGithubRelease == 12

\* None stands for a date that GitHub did not tell.
ValidatePublishDate(r) ==
  CASE r.minor <= OldestGithubRelease -> Verdict("Failure")
    [] r.minor > OldestGithubRelease /\ r.years = None -> Verdict("Warning")
    [] OTHER -> CASE r.years >= 2 -> Verdict("Failure")
                  [] r.years = 1 -> Verdict("Warning")
                  [] OTHER -> With("Info", r.minor)

InfraAgentVersion ==
  /\ Ready(Version, {ConfigAgent})
  /\ Return(Version,
       IF ~Present \/ ~host.shell THEN Verdict("None")
       ELSE CASE host.release.answer = "fails" -> Verdict("Failure")
              [] host.release.answer = "garbage" -> Verdict("Error")
              [] OTHER -> ValidatePublishDate(host.release))
  /\ UNCHANGED unchanged

-----------------------------------------------------------------------------
(* Its logs *)

\* The key log/file is searched for with its rotated files, which exist; the
\* key log_file is taken as it is, and so is the variable.
GetLogFilePaths ==
  (IF host.shell THEN host.env ELSE {}) \cup
  (IF host.agent = "validated" THEN host.logs ELSE {})

Everything(paths) == paths
ValidatePaths(paths) == paths \cap host.readable

WholeList(paths, valid) == With("Warning", paths)
CollectResult(paths, valid) ==
  CASE paths = {} -> Verdict("None")
    [] paths # {} /\ valid = paths -> With("Success", paths)
    [] valid # {} /\ valid # paths -> With("Warning", valid)
    [] OTHER -> Verdict("Warning")

InfraLogCollect ==
  /\ Ready(Collect, {ConfigAgent})
  /\ LET valid == ValidatePaths(GetLogFilePaths)
     IN  IF Present
         THEN /\ Return(Collect, CollectResult(GetLogFilePaths, valid))
              /\ pending' = valid
         ELSE Return(Collect, Verdict("None")) /\ UNCHANGED pending
  /\ UNCHANGED <<host, level, lines, archive>>

\* What was only searched has no parsed result, where no level is found.
InfraLogLevelCheck ==
  /\ Ready(LevelCheck, {ConfigAgent})
  /\ LET agent == Upstream(ConfigAgent)
     IN  Return(LevelCheck, Verdict(
           CASE ~Present -> "None"
             [] Present /\ ~Holds(agent) -> "Error"
             [] OTHER -> IF agent.payload = "validated" /\ host.verbose THEN "Success" ELSE "Warning"))
  /\ UNCHANGED unchanged

-----------------------------------------------------------------------------
(* The endpoints *)

BuildRequestURLs == (IF host.regions = {} THEN Region ELSE host.regions) \X Endpoint

AnyAnswers(urls) == urls \ host.unreachable # {}
ValidateResponses(urls) == urls \cap host.unreachable = {}

InfraAgentConnect ==
  /\ Ready(Connect, {ConfigAgent})
  /\ Return(Connect,
       IF Present
       THEN With(IF ValidateResponses(BuildRequestURLs) THEN "Success" ELSE "Failure", BuildRequestURLs)
       ELSE Verdict("None"))
  /\ UNCHANGED unchanged

\* The first URL of infra-api tells the time, of either region.
GetCollectorURL(urls) == {u \in urls : u[2] = "infra-api"}

InfraEnvClockSkew ==
  /\ Ready(ClockSkew, {Connect})
  /\ IF Upstream(Connect).status = "None" THEN Return(ClockSkew, Verdict("None"))
     ELSE \E url \in GetCollectorURL(Upstream(Connect).payload) :
            Return(ClockSkew,
              IF url \in host.unreachable THEN Verdict("Error")
              ELSE With(IF host.skew THEN "Failure" ELSE "Success", url))
  /\ UNCHANGED unchanged

-----------------------------------------------------------------------------
(* Infra/Agent/Debug *)

CtlVersion == 4

\* Why the agent is not switched, in the order of the checks.
AnyLog(logs, version) ==
  CASE logs.status \in {"Error", "Failure", "None"} \/ version.status \notin {"Info", "Warning"} -> "Failure"
    [] OTHER -> IF Holds(version) THEN "None" ELSE "Error"
Refusal(logs, version) ==
  CASE logs.status \in {"Error", "Failure", "None"} -> "Failure"
    [] HasPayload(logs) /\ ~Holds(logs) -> "Error"
    [] OTHER -> CASE version.status \notin {"Info", "Warning"} -> "Failure"
                  [] version.status = "Warning" /\ ~Holds(version) -> "Error"
                  [] Holds(version) /\ version.payload < CtlVersion -> "Failure"
                  [] OTHER -> "None"

\* The task blocks until the minutes are over or the user interrupts it; the
\* agent stays at its level.
InfraAgentDebug ==
  /\ Ready(Debug, {Collect, Version})
  /\ LET refusal == Refusal(Upstream(Collect), Upstream(Version))
     IN  IF refusal # "None" THEN Return(Debug, Verdict(refusal)) /\ UNCHANGED <<level, lines>>
         ELSE \/ ~host.ctl /\ Return(Debug, Verdict("Error")) /\ UNCHANGED <<level, lines>>
              \/ /\ host.ctl
                 /\ level' = "debug"
                 /\ \/ Return(Debug, Verdict("Success")) /\ lines' = TRUE
                    \/ Return(Debug, Verdict("Warning")) /\ lines' \in BOOLEAN
  /\ UNCHANGED <<host, pending, archive>>

-----------------------------------------------------------------------------
(* The archive *)

\* Files are copied once the channel is closed, that is after the last task.
AsTheyCome == pending # {}
ChannelClosed == Tasks \subseteq DOMAIN results

CopyFilesToZip ==
  /\ ChannelClosed /\ pending # {}
  /\ archive' = [l \in pending \cup DOMAIN archive |-> IF l \in pending THEN lines ELSE archive[l]]
  /\ pending' = {}
  /\ UNCHANGED <<host, level, lines, results, process>>

Done == Tasks \subseteq DOMAIN results /\ pending = {} /\ UNCHANGED vars

Next ==
  \/ InfraConfigAgent \/ InfraConfigDataDirectoryCollect \/ InfraAgentVersion \/ InfraLogCollect
  \/ InfraLogLevelCheck \/ InfraAgentConnect \/ InfraEnvClockSkew \/ InfraAgentDebug
  \/ CopyFilesToZip \/ Done

Spec == Init /\ [][Next]_vars

-----------------------------------------------------------------------------
(* Properties *)

Ran(t) == t \in DOMAIN results

\* Results have the statuses of the tasks, and the archive has only logs that
\* are readable.
TypeOK ==
  /\ host \in Host /\ level \in {"info", "debug"} /\ lines \in BOOLEAN
  /\ DOMAIN results \subseteq Tasks
  /\ \A t \in DOMAIN results : results[t].status \in Status
  /\ pending \cup DOMAIN archive \subseteq host.readable

\* The suite promises an "installation with 5 minutes of debug log collection"
\* (suiteDefinitions.go:25): although the logs are collected by a task that ran
\* before Debug, the archive has what the agent wrote in those minutes
\* (output.go:185 copies after the channel is closed).
DebugLogsCollected ==
  Ran(Debug) /\ results[Debug].status = "Success" => \A l \in DOMAIN archive : archive[l]

\* A running agent is switched to debug only when a log of it can be read and
\* its version is known to have newrelic-infra-ctl (debug.go:94): otherwise it
\* would write debug logs that nobody collects.
SwitchedForALog ==
  level = "debug" =>
    /\ pending \cup DOMAIN archive # {}
    /\ host.release.answer = "version" /\ host.release.minor >= CtlVersion

\* A connection check that succeeded had an answer of every endpoint of every
\* region there is or may be (connect.go:67).
ConnectMeansAll ==
  Upstream(Connect).status = "Success" =>
    \A r \in Region, e \in Endpoint :
      (host.regions = {} \/ r \in host.regions) => <<r, e>> \notin host.unreachable

\* What Log/Collect hands on, and Debug relies on, are the logs that go into
\* the archive (collect.go:96).
PayloadCollected ==
  Holds(Upstream(Collect)) => results[Collect].payload \subseteq pending \cup DOMAIN archive

=============================================================================
