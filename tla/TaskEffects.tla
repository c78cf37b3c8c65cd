---------------------------- MODULE TaskEffects -----------------------------
(***************************************************************************)
(* The families whose tasks reach beyond nrdiag, put together: they send   *)
(* keys, call az and change the settings of an app, switch a running       *)
(* agent, ask its integrations' servers, and copy what the user may keep   *)
(* back. What each of them may do, and when, is stated by theme.           *)
(*                                                                         *)
(* A run is of one family, as in MCFamily. The results of tasks are what   *)
(* families have in common; the other variables are each of one family.    *)
(***************************************************************************)
EXTENDS MCFamily

CONSTANTS
  \* account keys, and the proxy (AccountChecks)
  AccountKey, AccountFormat, AccountRegion, AccountFile, AccountFileType, AccountHost,
  \* function apps (AzureFunctions)
  AzurePattern, AzureDump, AzureMatching, AzureHost,
  \* the infrastructure agent (InfraAgent) and its integrations (InfraIntegrations)
  InfraLog, InfraEndpoint, InfraHost, IntegrationsHost,
  \* agents found by their keys (AgentDetection)
  AgentsFile, AgentsKind, AgentsKey, AgentsKeys, AgentsMark, AgentsText, AgentsSet,
  AgentsLog, AgentsLogOf, AgentsHost

VARIABLES
  environ, cached, requests, sent,                           \* of AccountChecks
  remote, az, prompts, consented, written, copied, report,   \* of AzureFunctions
  level, lines, pending, archive,                            \* of InfraAgent
  declined, kept, tested, asked, listed                      \* of InfraIntegrations

AccountTasks == INSTANCE AccountChecks WITH
  Key <- AccountKey, Format <- AccountFormat, Region <- AccountRegion,
  File <- AccountFile, FileType <- AccountFileType, Host <- AccountHost

AzureTasks == INSTANCE AzureFunctions WITH
  Pattern <- AzurePattern, Dump <- AzureDump, Matching <- AzureMatching, Host <- AzureHost

InfraTasks == INSTANCE InfraAgent WITH
  Log <- InfraLog, Endpoint <- InfraEndpoint, Host <- InfraHost

IntegrationsTasks == INSTANCE InfraIntegrations WITH
  Host <- IntegrationsHost, copied <- kept

AgentsTasks == INSTANCE AgentDetection WITH
  File <- AgentsFile, Kind <- AgentsKind, Key <- AgentsKey, Keys <- AgentsKeys,
  Mark <- AgentsMark, Text <- AgentsText, Set <- AgentsSet, Log <- AgentsLog,
  LogOf <- AgentsLogOf, Host <- AgentsHost

\* What the values of the constants must be.
TaskEffectsAssumption ==
  /\ AccountTasks!AccountChecksAssumption
  /\ AzureTasks!AzureFunctionsAssumption
  /\ InfraTasks!InfraAgentAssumption
  /\ IntegrationsTasks!InfraIntegrationsAssumption
  /\ AgentsTasks!AgentDetectionAssumption

ASSUME TaskEffectsValues == TaskEffectsAssumption

AccountVars == <<environ, cached, requests, sent>>
AzureVars == <<remote, az, prompts, consented, written, copied, report>>
InfraVars == <<level, lines, pending, archive>>
IntegrationsVars == <<declined, kept, tested, asked, listed>>
OwnVars == <<AccountVars, AzureVars, InfraVars, IntegrationsVars>>
effectsVars == <<family, host, results, process, OwnVars>>

AccountIdle == environ = None /\ cached = None /\ requests = {} /\ sent = {}
AzureIdle ==
  /\ remote = None /\ az = {} /\ prompts = <<>> /\ consented = {}
  /\ written = {} /\ copied = {} /\ report = None
InfraIdle == level = "info" /\ lines = FALSE /\ pending = {} /\ archive = None
IntegrationsIdle == declined = {} /\ kept = {} /\ tested = {} /\ asked = {} /\ listed = {}
EffectsIdle == AccountIdle /\ AzureIdle /\ InfraIdle /\ IntegrationsIdle

EffectsInit ==
  \/ Of("account") /\ AccountTasks!Init /\ AzureIdle /\ InfraIdle /\ IntegrationsIdle
  \/ Of("azure") /\ AzureTasks!Init /\ AccountIdle /\ InfraIdle /\ IntegrationsIdle
  \/ Of("infra") /\ InfraTasks!Init /\ AccountIdle /\ AzureIdle /\ IntegrationsIdle
  \/ Of("integrations") /\ IntegrationsTasks!Init /\ AccountIdle /\ AzureIdle /\ InfraIdle
  \/ Of("agents") /\ AgentsTasks!Init /\ EffectsIdle

EffectsNext ==
  /\ \/ Of("account") /\ AccountTasks!Next /\ UNCHANGED <<AzureVars, InfraVars, IntegrationsVars>>
     \/ Of("azure") /\ AzureTasks!Next /\ UNCHANGED <<AccountVars, InfraVars, IntegrationsVars>>
     \/ Of("infra") /\ InfraTasks!Next /\ UNCHANGED <<AccountVars, AzureVars, IntegrationsVars>>
     \/ Of("integrations") /\ IntegrationsTasks!Next /\ UNCHANGED <<AccountVars, AzureVars, InfraVars>>
     \/ Of("agents") /\ AgentsTasks!Next /\ UNCHANGED OwnVars
  /\ UNCHANGED family

EffectsSpec == EffectsInit /\ [][EffectsNext]_effectsVars

-----------------------------------------------------------------------------
(* Properties *)

\* Nothing is changed, sent or copied that the user did not agree to: settings of
\* the app (configureCrashDump.go:97), files kept back, the level of an agent whose
\* logs nobody could collect (debug.go:94), az with a name that breaks its rules,
\* agents of suites that were not chosen (EOL.go:45).
OnlyOnConsent ==
  /\ Of("azure") =>
       /\ AzureTasks!RemoteChangedOnlyOnConsent
       /\ AzureTasks!AzOnlyForValidTargets
  /\ Of("integrations") => IntegrationsTasks!DeclinedNotCopied
  /\ Of("infra") => InfraTasks!SwitchedForALog
  /\ Of("agents") => AgentsTasks!SuitesRespected

\* However the tasks interleave, questions are asked in their order
\* (collectLiveMemoryDump.go:59), queries follow a connection that was tested, and
\* logs written after their task ran are in the archive (output.go:185).
InOrder ==
  /\ Of("azure") => AzureTasks!PromptOrder
  /\ Of("integrations") => IntegrationsTasks!QueriesAfterConnection
  /\ Of("infra") => InfraTasks!DebugLogsCollected

\* Requests follow from what was found before: keys are sent once their form was
\* checked, those of variables first (checkEnvVarFormat, checkConfigFormat), and both
\* collectors are skipped for their regions only (prepareEarlyResult).
RequestsAsFound ==
  Of("account") =>
    /\ AccountTasks!SentKeysChecked
    /\ AccountTasks!SomeCollectorChecked

\* A failure of one of several does not hide the others, nor others it: endpoints,
\* brokers, files of JSON, jars and tasks all count in the result.
NothingHidden ==
  /\ Of("azure") => AzureTasks!ReportSaysAll
  /\ Of("infra") => InfraTasks!ConnectMeansAll
  /\ Of("integrations") =>
       /\ IntegrationsTasks!ConfiguredPathWorks
       /\ IntegrationsTasks!JsonChecked
  /\ Of("agents") => AgentsTasks!OldAgentNoticed

\* What tasks hand on is well formed and agrees with the files it comes from, regions
\* with the keys that were found (tasks.go:18), and those after them take it from one
\* source (detectRuntime.go:56, fetchAppSettings.go:238).
HandedOn ==
  /\ Of("account") =>
       /\ AccountTasks!TypeOK
       /\ AccountTasks!RegionsOfFoundKeys
  /\ Of("azure") =>
       /\ AzureTasks!TypeOK
       /\ AzureTasks!LocalOnlyInAzure
       /\ AzureTasks!OneSource
  /\ Of("infra") =>
       /\ InfraTasks!TypeOK
       /\ InfraTasks!PayloadCollected
  /\ Of("integrations") =>
       /\ IntegrationsTasks!TypeOK
       /\ IntegrationsTasks!MatchAgrees
  /\ Of("agents") =>
       /\ AgentsTasks!TypeOK
       /\ AgentsTasks!DetectedFromText
       /\ AgentsTasks!OneElementPerFile
       /\ AgentsTasks!InstalledMeansValidated

=============================================================================
