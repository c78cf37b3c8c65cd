--------------------------- MODULE AgentDetection ---------------------------
(***************************************************************************)
(* Which agents are on the host, of which version, and whether one has     *)
(* reached its end of life: <Agent>/Config/Agent looks for the agent's     *)
(* keys in the configuration files, <Agent>/Agent/Version asks what each   *)
(* language offers, and Base/Agent/EOL puts the versions together.         *)
(*                                                                         *)
(* Base/Config/Collect and Validate (see ConfigFiles), Base/Log/Copy and   *)
(* Node/Env/NpmVersion are part of the host.                               *)
(***************************************************************************)
EXTENDS TaskFamily, Sequences, SequencesExt, FiniteSets

CONSTANTS
  File,    \* configuration files
  Kind,    \* "yml", "infra.yml", "js", "ini", "cfg", "newrelic.config", ...
  Key,     \* keys that tell the agents apart, and marks in a text
  Keys,    \* the keys of each agent, in their order
  Mark,    \* the marks looked for in the text, for the two .NET agents
  Text,    \* the keys and marks in the text of a file
  Set,     \* those that are settings, and not in a comment or a list
  Log,     \* log files that configuration files of PHP may name
  LogOf,   \* the log files a file names
  Host,    \* what the tasks may find, see HostType
  None

Versions == {"old", "new", "odd"}  \* at its end of life, supported, no number

HostType ==
  [suites : SUBSET (DOMAIN Keys), windows : BOOLEAN,
   files : Seq(File), state : [File -> {"parsed", "unparsed", "unreadable"}],
   envVars : BOOLEAN,                       \* the three variables of Node
   jar : BOOLEAN, binary : BOOLEAN,         \* newrelic*.jar, newrelic-infra
   jars : Seq({"old", "new", "bad"}),       \* newrelic.jar where Version looks
   npm : {"absent", "error", "empty", "without"} \cup Versions,
   logs : Seq({"none"} \cup Versions) \cup {None},
   gems : {"failed", "absent", "listed"}, gemVersions : Seq(Versions),
   phpLog : [Log -> {"none", "old", "new"}],
   dll : {"absent", "failed"} \cup Versions, coreDll : BOOLEAN]

\* What the values of the constants must be.
AgentDetectionAssumption ==
  /\ DOMAIN Keys = {"Java", "Infra", "Node", "Python", "PHP", "Ruby", "DotNet", "DotNetCore"}
  /\ \A a \in DOMAIN Keys : Keys[a] \in Seq(Key)
  /\ Mark \in [{"DotNet", "DotNetCore"} -> SUBSET Key]
  /\ Text \in [File -> SUBSET Key] /\ Set \in [File -> SUBSET Key]
  /\ \A f \in File : Set[f] \subseteq Text[f]
  /\ LogOf \in [File -> Seq(Log)]
  /\ Host \subseteq HostType

vars == <<host, results, process>>

Agents == DOMAIN Keys
ConfigAgent(a) == <<a, "Config/Agent">>
Version(a) == <<a, "Agent/Version">>
Installed(a) == <<a, "Agent/Installed">>
NodeDependencies == <<"Node", "Env/Dependencies">>
EOL == <<"Base", "Agent/EOL">>

Init == host \in Host /\ NothingRun

\* Agents whose tasks run: those of the suites chosen, all without -suites.
Selected == IF host.suites = {} THEN Agents ELSE host.suites

-----------------------------------------------------------------------------
(* The files, as Base/Config/Collect and Validate give them *)

Validated == \E f \in Range(host.files) : host.state[f] = "parsed"

FindKey(k, f) == host.state[f] = "parsed" /\ k \in Set[f]
FindStringInFile(ks, f) == host.state[f] # "unreadable" /\ Text[f] \cap ks # {}

Kinds ==
  [Java |-> {"yml", "infra.yml"}, Ruby |-> {"yml", "infra.yml"}, Infra |-> {"infra.yml"},
   Node |-> {"js"}, Python |-> {"ini"}, PHP |-> {"ini", "cfg"},
   DotNet |-> {"newrelic.config", "web.config"},
   DotNetCore |-> {"newrelic.config", "appSettings.json"}]

\* Python and Ruby look for each key in turn, the others at each file in turn.
PerKey(a) ==
  FlattenSeq([i \in DOMAIN Keys[a] |->
    SelectSeq(host.files, LAMBDA f : Kind[f] \in Kinds[a] /\ FindKey(Keys[a][i], f))])
CheckValidation(a) ==
  IF a \in {"Python", "Ruby"} THEN PerKey(a)
  ELSE Among(host.files,
         {f \in File : Kind[f] \in Kinds[a] /\ \E k \in Range(Keys[a]) : FindKey(k, f)})

NoRawCheck(a) == <<>>
CheckConfig(a) ==
  Among(host.files, {f \in File : Kind[f] \in Kinds[a] /\ FindStringInFile(Range(Keys[a]), f)})

Identified(files) == With("Success", files)

\* Found without a file; Infra gives no payload.
LastEffort(a) ==
  CASE a = "Java" /\ host.jar -> Identified(<<>>)
    [] a = "Infra" /\ host.binary -> Verdict("Success")
    [] OTHER -> Verdict("None")

Detect(a) ==
  LET variables == a = "Node" /\ host.envVars
      found == IF Validated THEN CheckValidation(a) ELSE <<>>
  IN  CASE variables -> Identified(<<>>)
        [] ~variables /\ found # <<>> -> Identified(found)
        [] ~variables /\ found = <<>> /\ CheckConfig(a) # <<>> -> Identified(CheckConfig(a))
        [] OTHER -> LastEffort(a)

LanguageConfigAgent(a) ==
  /\ a \in Selected
  /\ Ready(ConfigAgent(a), {})
  /\ Return(ConfigAgent(a), Detect(a))
  /\ UNCHANGED host

JavaConfigAgent == LanguageConfigAgent("Java")
InfraConfigAgent == LanguageConfigAgent("Infra")
NodeConfigAgent == LanguageConfigAgent("Node")
PythonConfigAgent == LanguageConfigAgent("Python")
PHPConfigAgent == LanguageConfigAgent("PHP")
RubyConfigAgent == LanguageConfigAgent("Ruby")

-----------------------------------------------------------------------------
(* The .NET agents *)

Unguarded == "newrelic.config" \in {Kind[f] : f \in Range(host.files)}
HasNewRelicConfig == Validated /\ \E f \in Range(host.files) : Kind[f] = "newrelic.config"

DotNetAgentInstalled ==
  /\ "DotNet" \in Selected /\ host.windows
  /\ Ready(Installed("DotNet"), {})
  /\ Return(Installed("DotNet"),
       CASE ~HasNewRelicConfig -> Verdict("None")
         [] HasNewRelicConfig /\ host.dll = "absent" -> Verdict("Failure")
         [] OTHER -> With("Success", host.dll))
  /\ UNCHANGED host

DotNetCoreAgentInstalled ==
  /\ "DotNetCore" \in Selected
  /\ Ready(Installed("DotNetCore"), {})
  /\ Return(Installed("DotNetCore"),
       IF host.coreDll THEN With("Success", "path") ELSE Verdict("None"))
  /\ UNCHANGED host

CheckConfigs(a) ==
  Among(host.files, {f \in File :
    /\ Kind[f] \in Kinds[a]
    /\ (\E k \in Range(Keys[a]) : FindKey(k, f)) \/ FindStringInFile(Mark[a], f)})

DotNetConfigAgent ==
  /\ "DotNet" \in Selected /\ host.windows
  /\ Ready(ConfigAgent("DotNet"), {Installed("DotNet")})
  /\ Return(ConfigAgent("DotNet"),
       CASE Upstream(Installed("DotNet")).status # "Success" -> Verdict("None")
         [] Upstream(Installed("DotNet")).status = "Success" /\ ~Validated -> Verdict("Error")
         [] OTHER -> IF CheckConfigs("DotNet") = <<>> THEN Verdict("Warning")
                     ELSE Identified(CheckConfigs("DotNet")))
  /\ UNCHANGED host

DotNetCoreConfigAgent ==
  /\ "DotNetCore" \in Selected
  /\ Ready(ConfigAgent("DotNetCore"), {Installed("DotNetCore")})
  /\ Return(ConfigAgent("DotNetCore"),
       CASE Upstream(Installed("DotNetCore")).status # "Success" \/ ~Validated -> Verdict("None")
         [] OTHER -> IF CheckConfigs("DotNetCore") = <<>> THEN Verdict("Failure")
                     ELSE Identified(CheckConfigs("DotNetCore")))
  /\ UNCHANGED host

DotNetAgentVersion ==
  LET installed == Upstream(Installed("DotNet")) IN
  /\ "DotNet" \in Selected /\ host.windows
  /\ Ready(Version("DotNet"), {Installed("DotNet")})
  /\ Return(Version("DotNet"),
       CASE installed.status # "Success" -> Verdict("None")
         [] installed.status = "Success" /\ host.dll = "failed" -> Verdict("Error")
         [] OTHER -> With("Info", <<host.dll>>))
  /\ UNCHANGED host

-----------------------------------------------------------------------------
(* The versions; a payload is given as the sequence of its versions *)

Detected(a) == Upstream(ConfigAgent(a)).status = "Success"

BestJar(jars) ==
  LET good == Among(jars, {"old", "new"}) IN IF good = <<>> THEN "bad" ELSE good[1]

JavaAgentVersion ==
  /\ "Java" \in Selected
  /\ Ready(Version("Java"), {ConfigAgent("Java")})
  /\ Return(Version("Java"),
       CASE ~Detected("Java") \/ host.jars = <<>> -> Verdict("None")
         [] Detected("Java") /\ host.jars # <<>> /\ BestJar(host.jars) = "bad" -> Verdict("Error")
         [] OTHER -> With("Info", <<BestJar(host.jars)>>))
  /\ UNCHANGED host

\* npm ls in the current directory; "without" is a list without newrelic.
NodeEnvDependencies ==
  /\ "Node" \in Selected
  /\ Ready(NodeDependencies, {ConfigAgent("Node")})
  /\ Return(NodeDependencies,
       CASE host.npm = "absent" \/ ~Detected("Node") -> Verdict("None")
         [] host.npm \in {"error", "empty"} /\ Detected("Node") -> Verdict("Error")
         [] OTHER -> With("Info", host.npm))
  /\ UNCHANGED host

NodeAgentVersion ==
  LET modules == Upstream(NodeDependencies) IN
  /\ "Node" \in Selected
  /\ Ready(Version("Node"), {NodeDependencies})
  /\ Return(Version("Node"),
       CASE modules.status # "Info" -> Verdict("None")
         [] modules.status = "Info" /\ host.npm = "without" -> Verdict("Warning")
         [] OTHER -> With("Info", <<host.npm>>))
  /\ UNCHANGED host

AllLogs(logs) == logs
\* The last version in a log, the first log that has one.
GetPythonVersionFromLog(logs) == Among(logs, Versions)

PythonAgentVersion ==
  /\ "Python" \in Selected
  /\ Ready(Version("Python"), {ConfigAgent("Python")})
  /\ Return(Version("Python"),
       IF ~Detected("Python") \/ host.logs = None \/ GetPythonVersionFromLog(host.logs) = <<>>
       THEN Verdict("None")
       ELSE With("Info", <<Head(GetPythonVersionFromLog(host.logs))>>))
  /\ UNCHANGED host

ParseGemVersions(versions) ==
  IF "odd" \in Range(versions) THEN Verdict("Error") ELSE With("Info", versions)

RubyAgentVersion ==
  /\ "Ruby" \in Selected
  /\ Ready(Version("Ruby"), {ConfigAgent("Ruby")})
  /\ Return(Version("Ruby"),
       CASE ~Detected("Ruby") -> Verdict("None")
         [] Detected("Ruby") /\ host.gems = "failed" -> Verdict("Error")
         [] Detected("Ruby") /\ host.gems = "absent" -> Verdict("Failure")
         [] OTHER -> ParseGemVersions(host.gemVersions))
  /\ UNCHANGED host

\* One version for each mention of a log that has one, in the files whose
\* settings were found and not their text.
MentionsIn(f, n) ==
  {[file |-> n, place |-> i, version |-> host.phpLog[LogOf[f][i]]] : i \in DOMAIN LogOf[f]}
AgentVersions(files) ==
  IF Validated /\ CheckValidation("PHP") # <<>>
  THEN {m \in UNION {MentionsIn(files[n], n) : n \in DOMAIN files} : m.version # "none"}
  ELSE {}

PHPAgentVersion ==
  /\ "PHP" \in Selected
  /\ Ready(Version("PHP"), {ConfigAgent("PHP")})
  /\ Return(Version("PHP"),
       IF ~Detected("PHP") \/ Upstream(ConfigAgent("PHP")).payload = <<>> THEN Verdict("None")
       ELSE LET found == AgentVersions(Upstream(ConfigAgent("PHP")).payload)
            IN  IF Cardinality(found) = 1 THEN With("Info", <<(CHOOSE m \in found : TRUE).version>>)
                ELSE Verdict("Warning"))
  /\ UNCHANGED host

-----------------------------------------------------------------------------
(* Base/Agent/EOL *)

\* The tasks of the suites chosen, and of all languages without a choice.
DefaultDependencies(suites) == {"Node", "Java", "Python", "Ruby", "PHP", "DotNet"}
AgentsOfSuites(suites) ==
  {a \in DefaultDependencies(suites) : a \in suites \/ suites = {}}
EOLDependencies ==
  {Version(a) : a \in {a \in AgentsOfSuites(host.suites) : a = "DotNet" => host.windows}}

FirstOf(t) == IF Holds(results[t]) THEN {results[t].payload[1]} ELSE {}
DecisionQueue(t) ==
  IF results[t].status \in {"Success", "Info"} THEN Range(results[t].payload) ELSE {}

GenSummaryStatus(queue) ==
  CASE queue = {} -> "None"
    [] "old" \in queue -> "Failure"
    [] "old" \notin queue /\ "odd" \in queue -> "Error"
    [] OTHER -> "Success"

BaseAgentEOL ==
  /\ Ready(EOL, EOLDependencies)
  /\ Return(EOL, Verdict(GenSummaryStatus(UNION {DecisionQueue(t) : t \in EOLDependencies})))
  /\ UNCHANGED host

Done ==
  /\ EOL \in DOMAIN results
  /\ \A a \in Selected : (a = "DotNet" => host.windows) => ConfigAgent(a) \in DOMAIN results
  /\ UNCHANGED vars

Next ==
  \/ JavaConfigAgent \/ InfraConfigAgent \/ NodeConfigAgent
  \/ PythonConfigAgent \/ PHPConfigAgent \/ RubyConfigAgent
  \/ DotNetAgentInstalled \/ DotNetConfigAgent \/ DotNetAgentVersion
  \/ DotNetCoreAgentInstalled \/ DotNetCoreConfigAgent
  \/ JavaAgentVersion \/ NodeEnvDependencies \/ NodeAgentVersion \/ PythonAgentVersion
  \/ RubyAgentVersion \/ PHPAgentVersion \/ BaseAgentEOL \/ Done

Spec == Init /\ [][Next]_vars

-----------------------------------------------------------------------------
Ran(t) == t \in DOMAIN results

TypeOK ==
  /\ host \in Host /\ process = "running"
  /\ \A t \in DOMAIN results : results[t].status \in Status
  /\ \A t \in DOMAIN results : t[2] = "Agent/Version" /\ Holds(results[t]) =>
       Range(results[t].payload) \subseteq Versions

\* An agent whose keys stand in a file that can be read is detected, whether
\* the file parses or not ("If checking with the parsed Config failed, now check
\* the file itself line by line", java/config/agent.go:70).
DetectedFromText ==
  \A a \in Agents \ {"DotNet", "DotNetCore"} :
    Ran(ConfigAgent(a)) /\ (\E f \in Range(host.files) :
        Kind[f] \in Kinds[a] /\ FindStringInFile(Range(Keys[a]), f)) =>
      results[ConfigAgent(a)].status = "Success"

\* A file is at most once in a payload. Python and Ruby repeat a file for each
\* of their keys, so that they are not among these agents.
OneElementPerFile ==
  \A a \in Agents \ {"Python", "Ruby"} :
    Ran(ConfigAgent(a)) /\ Holds(results[ConfigAgent(a)]) =>
      LET files == results[ConfigAgent(a)].payload
      IN  \A f \in Range(files) : Cardinality({i \in DOMAIN files : files[i] = f})
            <= Cardinality({i \in DOMAIN host.files : host.files[i] = f})

\* "No need to verify if this task succeeded because we already checked this on
\* the upstream task DotNet/Agent/Installed" (dotnet/config/agent_windows.go:62).
InstalledMeansValidated ==
  Ran(ConfigAgent("DotNet")) => results[ConfigAgent("DotNet")].status # "Error"

\* An agent at its end of life fails the check whatever the other agents are:
\* each version of each gem, and the first jar that can be asked ("For all jars
\* found, return first successfully parsed version", java/agent/version.go:54).
OldAgentNoticed ==
  Ran(EOL) =>
    /\ "Ruby" \in Selected /\ results[Version("Ruby")].status = "Info"
         /\ "old" \in Range(host.gemVersions) => results[EOL].status = "Failure"
    /\ "Java" \in Selected /\ Detected("Java") /\ host.jars # <<>>
         /\ "new" \notin Range(host.jars) /\ "old" \in Range(host.jars) =>
           results[EOL].status = "Failure"

\* "we wanted it to run on every suite. But we didn't want it to kick off tasks
\* for agents unrelated to the selected suite" (base/agent/EOL.go:45): with a choice
\* of suites no version of another agent is looked for, and the check still runs.
SuitesRespected ==
  /\ \A a \in Agents : Ran(Version(a)) => a \in Selected
  /\ \A t \in EOLDependencies : t[1] \in Selected

=============================================================================
