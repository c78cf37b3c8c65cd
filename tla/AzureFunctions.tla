--------------------------- MODULE AzureFunctions ---------------------------
(***************************************************************************)
(* The suite azure-functions: run inside a function app it reads the       *)
(* variables of the container, run from elsewhere it fetches the settings  *)
(* of the app with az, downloads a dump from Kudu, and asks before it      *)
(* collects more or changes the settings of the app.                       *)
(*                                                                         *)
(* functionName and resourceGroup are one target here: they are given and  *)
(* handed on together.                                                     *)
(***************************************************************************)
EXTENDS TaskFamily, Sequences, SequencesExt, FiniteSets

CONSTANTS
  Pattern,  \* the patterns of crash dumps, in their order
  Dump,     \* names of crash dumps
  Matching, \* the patterns a name matches
  Host,     \* see HostType
  None

DetectFunctionApp == "DetectFunctionApp"
FetchAppSettings == "FetchAppSettings"
DetectRuntime == "DetectRuntime"
ValidateAgentConfig == "ValidateAgentConfig"
CheckCrashDumpConfig == "CheckCrashDumpConfig"
AgentInfo == "AgentInfo"
AnalyzeLogs == "AnalyzeLogs"
DownloadSiteDump == "DownloadSiteDump"
CollectProcessDetails == "CollectProcessDetails"
CollectLiveMemoryDump == "CollectLiveMemoryDump"
ConfigureCrashDump == "ConfigureCrashDump"
CollectReport == "CollectReport"
Targeting == {DownloadSiteDump, FetchAppSettings, CollectProcessDetails,
              CollectLiveMemoryDump, ConfigureCrashDump}

\* JAVA_TOOL_OPTIONS and JAVA_OPTS (or WEBSITE_JAVA_OPTS) are sets of options,
\* empty when not set; vars says whether the agent's variables are right.
Settings ==
  [runtime : {"dotnet", "java", "node", "python", "powershell", "odd", ""},
   license : {"valid", "malformed", "unset"}, app : BOOLEAN, vars : BOOLEAN, insights : BOOLEAN,
   tool : SUBSET {"agent", "heap", "other"}, opts : SUBSET {"agent", "heap", "other"},
   dump : {"off", "DOTNET", "COMPlus"}]

HostType ==
  [local : Settings \cup {None},     \* the container's, None outside of one
   azure : Settings,                 \* those of the app in Azure
   given : SUBSET Targeting,         \* the tasks whose options name a target
   valid : BOOLEAN,                  \* the names follow Azure's rules
   yes : BOOLEAN,                    \* -y
   dumps : SUBSET Dump,
   logs : Seq([found : SUBSET {"error", "warning", "general"}, whole : BOOLEAN])]

\* What the values of the constants must be.
AzureFunctionsAssumption ==
  /\ Pattern \in Seq(Range(Pattern)) /\ Matching \in [Dump -> SUBSET Range(Pattern)]
  /\ Host \subseteq HostType /\ None \notin Settings

VARIABLES
  remote,     \* the settings of the app in Azure
  az,         \* the tasks that called az, with the target
  prompts,    \* the questions asked, in order
  consented,  \* the tasks whose question was answered with yes, or by -y
  written,    \* the files written completely
  copied,     \* FilesToCopy
  report      \* the status of each task in the report, empty before

vars == <<host, remote, az, prompts, consented, written, copied, report, results, process>>
azure == <<host, remote, az, prompts, consented, written, copied, report>>

ReportDependencies ==
  {DetectFunctionApp, FetchAppSettings, DetectRuntime, ValidateAgentConfig, CheckCrashDumpConfig,
   AgentInfo, AnalyzeLogs, DownloadSiteDump, CollectProcessDetails, CollectLiveMemoryDump,
   ConfigureCrashDump}

AnyOrder(t) ==
  CASE t \in {FetchAppSettings, CollectProcessDetails, CollectLiveMemoryDump} -> {DownloadSiteDump}
    [] t = DetectRuntime -> {DetectFunctionApp, FetchAppSettings}
    [] t \in {ValidateAgentConfig, CheckCrashDumpConfig, AgentInfo} ->
         {DetectFunctionApp, DetectRuntime, FetchAppSettings}
    [] t = AnalyzeLogs -> {DetectFunctionApp}
    [] t = ConfigureCrashDump -> {DownloadSiteDump, DetectRuntime}
    [] t = CollectReport -> ReportDependencies
    [] OTHER -> {}

\* The memory dump is asked for after the details, the crash dumps after both.
Dependencies(t) ==
  AnyOrder(t) \cup (CASE t = CollectLiveMemoryDump -> {CollectProcessDetails}
                      [] t = ConfigureCrashDump -> {CollectLiveMemoryDump}
                      [] OTHER -> {})

Init ==
  /\ host \in Host /\ remote = host.azure
  /\ az = {} /\ prompts = <<>> /\ consented = {} /\ written = {} /\ copied = {}
  /\ report = [t \in {} |-> "None"]
  /\ NothingRun

Runs(t) == Ready(t, Dependencies(t))

-----------------------------------------------------------------------------
(* What the tasks share *)

\* The target from the options of the task, else from the dump downloaded.
ResolveFunctionTarget(t) ==
  IF t \in host.given \/ Holds(Upstream(DownloadSiteDump)) THEN "target" ELSE None
NoRules == TRUE
ValidateAzureTarget == host.valid
CallsAz(t) == az' = az \cup {[by |-> t, valid |-> host.valid]}

\* The settings to check: those of the app, else the variables of the container.
Anywhere(upstream) == IF host.local = None THEN host.azure ELSE host.local
ResolveEnvVars(upstream) ==
  CASE upstream[FetchAppSettings].status = "Info" -> upstream[FetchAppSettings].payload
    [] upstream[FetchAppSettings].status # "Info" /\ upstream[DetectFunctionApp].status = "Info" ->
         host.local
    [] OTHER -> None
EnvVars == ResolveEnvVars(results)

Runtime ==
  IF Holds(Upstream(DetectRuntime)) THEN Upstream(DetectRuntime).payload ELSE ""

-----------------------------------------------------------------------------
(* Tasks that only look *)

AzureFunctionsDetectFunctionApp ==
  /\ Runs(DetectFunctionApp)
  /\ Return(DetectFunctionApp,
       IF host.local = None \/ host.local.runtime = "" THEN Verdict("None")
       ELSE With("Info", host.local))
  /\ UNCHANGED azure

RuntimeOf(settings) ==
  CASE settings.runtime = "" -> Verdict("Warning")
    [] settings.runtime = "odd" -> With("Warning", "odd")
    [] OTHER -> With("Info", settings.runtime)

LocalFirst(fetched, detected) ==
  CASE detected.status = "Info" -> RuntimeOf(detected.payload)
    [] detected.status # "Info" /\ fetched.status = "Info" -> RuntimeOf(fetched.payload)
    [] OTHER -> Verdict("None")
RuntimeResult(fetched, detected) ==
  CASE fetched.status = "Info" -> RuntimeOf(fetched.payload)
    [] fetched.status # "Info" /\ detected.status = "Info" -> RuntimeOf(detected.payload)
    [] OTHER -> Verdict("None")

AzureFunctionsDetectRuntime ==
  /\ Runs(DetectRuntime)
  /\ Return(DetectRuntime, RuntimeResult(results[FetchAppSettings], results[DetectFunctionApp]))
  /\ UNCHANGED azure

FirstNonEmpty(a, b) == IF a # {} THEN a ELSE b

\* Of the variables with options of the JVM the first that is set is looked at.
ValidateJavaAgentVars(s) == "agent" \in FirstNonEmpty(s.opts, s.tool)

CollectValidationResults(s, runtime) ==
  LET failures == s.license # "valid" \/ (runtime = "dotnet" /\ ~s.vars)
      warnings == \/ ~s.app
                  \/ s.insights
                  \/ runtime = "java" /\ ~ValidateJavaAgentVars(s)
                  \/ runtime \in {"node", "python"} /\ ~s.vars
  IN  CASE failures -> "Failure"
        [] ~failures /\ warnings -> "Warning"
        [] OTHER -> "Success"

AzureFunctionsValidateAgentConfig ==
  /\ Runs(ValidateAgentConfig)
  /\ Return(ValidateAgentConfig,
       Verdict(IF EnvVars = None THEN "None" ELSE CollectValidationResults(EnvVars, Runtime)))
  /\ UNCHANGED azure

\* A file is found once for each pattern that it matches.
ScanDumpDir ==
  FlattenSeq([i \in DOMAIN Pattern |->
    SetToSeq({d \in host.dumps : Pattern[i] \in Matching[d]})])

ParseCrashDumpConfig(s) == s.dump # "off"
ParseJavaHeapDumpConfig(s) == "heap" \in FirstNonEmpty(s.tool, s.opts)

AzureFunctionsCheckCrashDumpConfig ==
  /\ Runs(CheckCrashDumpConfig)
  /\ LET enabled == IF Runtime = "dotnet" THEN ParseCrashDumpConfig(EnvVars)
                    ELSE ParseJavaHeapDumpConfig(EnvVars)
     IN  Return(CheckCrashDumpConfig,
           IF EnvVars = None \/ Runtime \notin {"dotnet", "java"} THEN Verdict("None")
           ELSE With(IF enabled THEN "Info" ELSE "Warning", ScanDumpDir))
  /\ UNCHANGED azure

AzureFunctionsAgentInfo ==
  /\ Runs(AgentInfo)
  /\ LET collected == \/ EnvVars.license # "unset"
                      \/ EnvVars.app
                      \/ EnvVars.vars /\ (EnvVars.runtime = "node" \/ Runtime = "dotnet")
     IN  Return(AgentInfo, CASE EnvVars = None -> Verdict("None")
                             [] EnvVars # None /\ collected -> With("Info", "collected")
                             [] OTHER -> Verdict("Warning"))
  /\ UNCHANGED azure

\* Lines that were read before a file could not be read further count.
AzureFunctionsAnalyzeLogs ==
  /\ Runs(AnalyzeLogs)
  /\ LET found == UNION {l.found : l \in Range(host.logs)}
     IN  Return(AnalyzeLogs,
           IF Upstream(DetectFunctionApp).status # "Info" \/ host.logs = <<>> THEN Verdict("None")
           ELSE With(CASE "error" \in found -> "Failure"
                       [] "error" \notin found /\ "warning" \in found -> "Warning"
                       [] OTHER -> "Success",
                     Cardinality({i \in DOMAIN host.logs : host.logs[i].whole})))
  /\ UNCHANGED azure

-----------------------------------------------------------------------------
(* Tasks with a target *)

\* Without a target a task is skipped, and with names that break the rules it
\* is an error; otherwise it goes on.
Skipped(t) ==
  /\ \/ ResolveFunctionTarget(t) = None /\ Return(t, Verdict("None"))
     \/ /\ ResolveFunctionTarget(t) # None /\ ~ValidateAzureTarget
        /\ Return(t, Verdict("Error"))
  /\ UNCHANGED azure

GoesOn(t) == ResolveFunctionTarget(t) # None /\ ValidateAzureTarget

\* az has no token and no credentials, Kudu cannot be reached, or the file
\* cannot be saved: an error. Kudu answers with another status: a failure.
Download(t, file) ==
  \/ /\ \E status \in {"Error", "Failure"} : Return(t, Verdict(status))
     /\ UNCHANGED <<written, copied>>
  \/ /\ Return(t, With("Info", "target"))
     /\ written' = written \cup {file} /\ copied' = copied \cup {file}

AzureFunctionsDownloadSiteDump ==
  /\ Runs(DownloadSiteDump)
  /\ \/ Skipped(DownloadSiteDump)
     \/ /\ GoesOn(DownloadSiteDump)
        /\ CallsAz(DownloadSiteDump)
        /\ Download(DownloadSiteDump, "site-dump.zip")
        /\ UNCHANGED <<host, remote, prompts, consented, report>>

AzureFunctionsFetchAppSettings ==
  /\ Runs(FetchAppSettings)
  /\ \/ Skipped(FetchAppSettings)
     \/ /\ GoesOn(FetchAppSettings)
        /\ CallsAz(FetchAppSettings)
        /\ Return(FetchAppSettings, With("Info", remote)) \/ Return(FetchAppSettings, Verdict("Error"))
        /\ UNCHANGED <<host, remote, prompts, consented, written, copied, report>>

WithoutAsking(t, answer) == answer /\ UNCHANGED <<prompts, consented>>

\* tasks.PromptUser: -y answers with yes and asks nothing; the end of the input
\* is a no.
PromptUser(t, answer) ==
  IF host.yes THEN answer /\ UNCHANGED prompts /\ consented' = consented \cup {t}
  ELSE /\ prompts' = Append(prompts, t)
       /\ consented' = IF answer THEN consented \cup {t} ELSE consented

Declined(t) ==
  /\ GoesOn(t) /\ PromptUser(t, FALSE) /\ Return(t, Verdict("None"))
  /\ UNCHANGED <<host, remote, az, written, copied, report>>

\* Without -y the user is asked for a process; the end of the input chooses none.
NoProcessSelected(t) ==
  /\ ~host.yes
  /\ Return(t, Verdict("None"))
  /\ UNCHANGED <<written, copied>>

Sections == {"general", "modules", "handles", "threads", "environment"}

\* Files to copy after what saveProcessDetails could write.
AllSections(saved) == Sections
FilesOf(saved) == IF saved = Sections THEN saved ELSE {}

AzureFunctionsCollectProcessDetails ==
  /\ Runs(CollectProcessDetails)
  /\ \/ Skipped(CollectProcessDetails) \/ Declined(CollectProcessDetails)
     \/ /\ GoesOn(CollectProcessDetails) /\ PromptUser(CollectProcessDetails, TRUE)
        /\ CallsAz(CollectProcessDetails)
        /\ \/ Return(CollectProcessDetails, Verdict("Error")) /\ UNCHANGED <<written, copied>>
           \/ NoProcessSelected(CollectProcessDetails)
           \/ \E saved \in {{}, {"general"}, Sections} :
                /\ written' = written \cup saved /\ copied' = copied \cup FilesOf(saved)
                /\ Return(CollectProcessDetails,
                     IF saved = Sections THEN With("Info", saved) ELSE Verdict("Error"))
        /\ UNCHANGED <<host, remote, report>>

AzureFunctionsCollectLiveMemoryDump ==
  /\ Runs(CollectLiveMemoryDump)
  /\ \/ Skipped(CollectLiveMemoryDump) \/ Declined(CollectLiveMemoryDump)
     \/ /\ GoesOn(CollectLiveMemoryDump) /\ PromptUser(CollectLiveMemoryDump, TRUE)
        /\ CallsAz(CollectLiveMemoryDump)
        /\ Download(CollectLiveMemoryDump, "memdump.dmp") \/ NoProcessSelected(CollectLiveMemoryDump)
        /\ UNCHANGED <<host, remote, report>>

\* az sets whole variables: JAVA_TOOL_OPTIONS is what the task knows.
ApplyAppSettings(s, runtime) ==
  IF runtime = "dotnet" THEN [s EXCEPT !.dump = "DOTNET"] ELSE [s EXCEPT !.tool = {"heap"}]

\* With output that is no JSON the settings may have been applied or not.
AzureFunctionsConfigureCrashDump ==
  LET t == ConfigureCrashDump IN
  /\ Runs(t)
  /\ \/ Skipped(t)
     \/ /\ GoesOn(t) /\ Runtime \notin {"dotnet", "java"}
        /\ Return(t, Verdict("None")) /\ UNCHANGED azure
     \/ Runtime \in {"dotnet", "java"} /\ Declined(t)
     \/ /\ GoesOn(t) /\ Runtime \in {"dotnet", "java"} /\ PromptUser(t, TRUE)
        /\ CallsAz(t)
        /\ \/ /\ remote' = ApplyAppSettings(remote, Runtime)
              /\ Return(t, With("Success", "applied")) \/ Return(t, Verdict("Error"))
           \/ UNCHANGED remote /\ Return(t, Verdict("Error"))
        /\ UNCHANGED <<host, written, copied, report>>

WithoutPrompted(upstream) == [t \in ReportDependencies \ consented |-> upstream[t].status]
BuildReport(upstream) == [t \in ReportDependencies \cap DOMAIN upstream |-> upstream[t].status]

AzureFunctionsCollectReport ==
  /\ Runs(CollectReport)
  /\ IF \A t \in {FetchAppSettings, DetectFunctionApp} : Upstream(t).status # "Info"
     THEN Return(CollectReport, Verdict("None")) /\ UNCHANGED azure
     ELSE /\ \/ /\ report' = BuildReport(results)
                /\ written' = written \cup {"report"} /\ copied' = copied \cup {"report"}
                /\ Return(CollectReport, With("Info", "report"))
             \/ Return(CollectReport, Verdict("Error")) /\ UNCHANGED <<report, written, copied>>
          /\ UNCHANGED <<host, remote, az, prompts, consented>>

Done == CollectReport \in DOMAIN results /\ UNCHANGED vars

Next ==
  \/ AzureFunctionsDetectFunctionApp \/ AzureFunctionsFetchAppSettings \/ AzureFunctionsDetectRuntime
  \/ AzureFunctionsValidateAgentConfig \/ AzureFunctionsCheckCrashDumpConfig
  \/ AzureFunctionsAgentInfo \/ AzureFunctionsAnalyzeLogs \/ AzureFunctionsDownloadSiteDump
  \/ AzureFunctionsCollectProcessDetails \/ AzureFunctionsCollectLiveMemoryDump
  \/ AzureFunctionsConfigureCrashDump \/ AzureFunctionsCollectReport \/ Done

Spec == Init /\ [][Next]_vars

-----------------------------------------------------------------------------
(* Properties *)

\* Results have the statuses the tasks can give them, and every file that is
\* to be copied stands on the disk completely (a part of a dump is removed, the
\* sections of the details count only together).
TypeOK ==
  /\ host \in Host /\ remote \in Settings
  /\ \A t \in DOMAIN results : results[t].status \in Status
  /\ DOMAIN results \subseteq ReportDependencies \cup {CollectReport}
  /\ copied \subseteq written

\* No command reaches az with a name that breaks Azure's rules, whichever way
\* the name came: by the options of the task or by the dump it inherits from
\* (validateAzureTarget, fetchAppSettings.go:129).
AzOnlyForValidTargets == \A call \in az : call.valid

\* The questions come in their order, "so the process-details prompt appears
\* before the memory dump prompt" (collectLiveMemoryDump.go:59), however the
\* other tasks interleave.
PromptOrder ==
  LET Place(t) == CHOOSE i \in 1..3 :
        <<CollectProcessDetails, CollectLiveMemoryDump, ConfigureCrashDump>>[i] = t
  IN  \A i, j \in DOMAIN prompts : i < j => Place(prompts[i]) < Place(prompts[j])

\* The settings of the app change only after a yes to the question that says
\* so, and a success means that they did (configureCrashDump.go:97).
RemoteChangedOnlyOnConsent ==
  /\ remote # host.azure => ConfigureCrashDump \in consented
  /\ Upstream(ConfigureCrashDump).status = "Success" =>
       remote = ApplyAppSettings(host.azure, Runtime)

\* The report has every task with the result it ended with, those that waited
\* for an answer included (collectReport.go:58 lists them as dependencies).
ReportSaysAll ==
  Holds(Upstream(CollectReport)) =>
    report = [t \in ReportDependencies |-> results[t].status]

\* Outside of a container the variables of this machine are never taken for
\* those of the app: "Only fall back to local env vars when confirmed running
\* inside Azure container" (fetchAppSettings.go:238).
LocalOnlyInAzure ==
  \A t \in {ValidateAgentConfig, CheckCrashDumpConfig, AgentInfo} :
    Upstream(t).status # "None" =>
      \E source \in {FetchAppSettings, DetectFunctionApp} : Upstream(source).status = "Info"

\* What the tasks judge and the runtime they judge it by come from one source:
\* the fetched settings are not checked by the rules of the container's runtime
\* (detectRuntime.go:56).
OneSource ==
  Upstream(DetectRuntime).status = "Info" => Runtime = EnvVars.runtime

=============================================================================
