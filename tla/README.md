# Specifications of the New Relic Diagnostics CLI (nrdiag)

TLA+ models of nrdiag, the command that runs some 150 diagnostic tasks on a
host, collects the files they ask for in `nrdiag-output.zip`, reports their
results in `nrdiag-output.json` and, when asked to, uploads both. All paths
are relative to the root of the repository.

## The system

| Component | Code | State | Operations |
|---|---|---|---|
| Registration | `registration/registration.go`, `processTasks.go:22` | registered tasks, `queuedTasks`, `WorkQueue` (unbuffered) | names and wildcards to tasks, dependencies before dependents, close |
| Worker | `processTasks.go:50` | `Work.Results`, `ResultsChannel` and `FilesChannel` (two places each) | look up upstream results, override, execute, store, publish, close |
| Collector | `output/output.go:137`, `output/outputHelpers.go` | names and paths taken, files to copy, the archive, the filelist | filter and name files, copy files and streams |
| Producers | `tasks/taskHelpers.go:1086`, `tasks/taskHelpers_containers.go:216` | one unbuffered stream each | send lines, close |
| main | `core.go:17` | archive, results, wait group | set up, `-include`, start, gather results, wait, report, script output, filelist, close, upload, usage |
| Uploads, usage | `processTasks.go:204`, `attach/attach.go`, `usage/usage.go` | both output files, license keys | ask, upload per key, send usage data |
| Container logs | `tasks/synthetics/minion/collectLogs.go` | wait group, error stream, streams | start `docker logs` per container, gather errors |
| Command line, suites | `config/`, `processOptions.go`, `suites/` | flags, environment, overrides, the selection | parse, find suites and their misplaced names, set the proxy and the region, exit early |
| Scripts, version check | `scriptrunner/`, `scriptcatalog/`, `version/` | the script's output and files | download a catalog and a script, ask, run, and look for a newer nrdiag at the end |
| Tasks | `tasks/*` | the host, the environment of the process | `Execute`: a status, a payload, files; see the families below |
| Versions | `tasks/taskHelpersVersion.go`, `tasks/compatibilityVars/` | | parse, compare, look up in tables of requirements |

The tasks talk to each other in one way only: a task that names another as its
dependency is given that task's result, and most assert the type of its payload.
They fall into families, which share little but the results:

| Family | Asks |
|---|---|
| `base/config`, `base/collector`, `base/log`, `base/env` | which configuration files, keys, proxies, logs and host there are; can New Relic be reached |
| `*/config/agent`, `*/agent/version`, `base/agent` | which agents are there, of which version, and is one past its end of life |
| `node`, `python`, `ruby`, `dotnetcore/env`, `dotnet` | does the runtime meet the requirements of its agent; is the application profiled |
| `java` | do the processes, machines, permissions and servers suit the agent |
| `azure` | settings, dumps and runtime of a function app, with questions to the user |
| `infra` | is the infrastructure agent well, do its integrations reach what they ask |

Four kinds of goroutines run at once:

    registrar --WorkQueue (0)--> worker --ResultsChannel (2)--> main
                                 worker --FilesChannel (2)----> collector
    producers --streams (0)----------------------------------> collector

main is also a user of the archive, before the goroutines are started and after
the wait group is back to zero; the registrar can end the process at any time.
Hard to test are the interleavings of these, the order of Go's map iteration, the
channels at their limit and at their close, what a run leaves behind when it
ends early or a write fails, and the two copies of every result. `PROJECT.json`
lists these hazards at their lines with the properties that cover them.

What makes each component correct:

- registration: the queue is the transitive closure of the request, each task
  once and after its dependencies, and it ends;
- worker: a task gets the results its dependencies left; nothing is lost in a
  channel; streams are not touched while tasks run;
- collector: every file and stream a task returned ends up in the archive,
  complete and on the list, and under a name of its own unless its name or its folder is
  one that the collector cannot tell apart (see "Differences");
- main: one user of the archive at a time; what is uploaded is final; a wrong
  suite stops the run; only an override or a failing disk makes it panic; the run ends;
- uploads: both files to the account of every valid key or a failed run; nothing
  without consent; the report that is sent is this run's;
- container logs: no error is lost, no send on a closed channel, all that can be read of a
  log is copied;
- command line: an unusable proxy stops the run before anything is sent, plain http goes
  through the proxy and all data to one region; a suite behind the list of `-suites` is
  an error; a panic has a malformed argument as its cause, the run ends;
- versions: the answer is whether the version is in one of the intervals;
- tasks: nothing is changed, copied or sent that the user did not agree to; a failure of
  one of several is not hidden by the others; a verdict is that of the tables; and what
  a task hands on has the form its dependents assert and is what it found, although
  files and processes come and go between the tasks.

## The modules

| Module | Models |
|---|---|
| `TaskQueue` | the registrar. `stack` is the call stack of the mutually recursive `AddTaskToQueue` and `AddTasksByIdentifier`; `sending` is the send it is blocked in |
| `FileNames` | `FileCopyEnvelope`: base name, number of the duplicate, folder |
| `Diagnostics` | a whole run; extends the two and adds worker, collector, producers and main |
| `DiagnosticsProofs` | the theorems about `TaskQueue` and `Diagnostics`, the archive among them |
| `DiagnosticRun` | what a run promises: one loop, no goroutines, no channels |
| `Uploads` | main from the report to its return, with both copies of a result |
| `UploadsProofs` | its theorems |
| `ContainerLogs` | the goroutines of CollectLogs, docker with its pipes, the collector reading the streams |
| `ContainerLogsProofs` | its theorems |
| `FrontEnd` | what is around the tasks: flags, environment, proxy, region, overrides, a script, the goroutine that selects, and the requests at the end |
| `FrontEndProofs` | its theorems |
| `Versions` | versions, requirements and their comparison, as operators |
| `VersionCheck` | the loop of `CheckCompatibility` over the requirements, and the intervals they mean |
| `VersionCheckProofs` | its theorems |
| `TaskFamily` | what families of tasks share: host, results, a panic, the selection `Among` |
| `SequenceLemmas` | lemmas about numbers and sequences for the proofs about families |
| `ConfigFiles` | `base/config`: collect and parse files, names, levels, HSM; files vanish between tasks |
| `AccountChecks` | license keys, their validation and regions, the proxy, both collectors |
| `BaseLog` | where logs are looked for, which are copied, what is asked |
| `HostEnvironment` | `base/env`: host, user, rights, SELinux, and Node/Env/OsCheck |
| `AgentDetection` | agents found by their keys, their versions, end of life |
| `RuntimeVersions` | node, npm, python, pip, ruby, dotnet against their tables |
| `DotNetRequirements`, `DotNetProfiler` | requirements of the .NET agents; registry, profiler keys, worker processes, log levels |
| `JavaTasks` | java processes and their arguments, machines, permissions, settings, application servers |
| `AzureFunctions` | the suite `azure-functions` |
| `InfraAgent`, `InfraIntegrations` | the infrastructure agent with its debug mode; integrations, JMX, Kafka |
| `TaskEffects` | the families whose tasks reach beyond nrdiag (`AccountChecks`, `AzureFunctions`, `InfraAgent`, `InfraIntegrations`, `AgentDetection`) put together, and what they may do and when |
| `TaskEffectsProofs` | its theorems |
| `BaseTasks` | `ConfigFiles`, `BaseLog` and `HostEnvironment` put together, and what the user and the following tasks rely on |
| `BaseTasksProofs` | its theorems |
| `MC*` | small instances for TLC |

The families are composed by the tasks that call across them: what a module does
not have is a choice in its `Host`, and its comment names the module that has it.
To check them, several families are put into one run: `family`, which never changes,
says whose tasks are run (`MCFamily`), and the variables of the others stay as they
are. `MCBaseTasks` has `BaseTasks` and the hosts of its families;
`MCAgentTasks` has `TaskEffects`, whose hosts are in `MCTaskEffects`, and the families
of `MCRuntimes`, `MCDotNet` and `MCJavaTasks`. Each invariant of such a run is a theme,
one conjunct per family and statement.

Correspondence. An action is named after the function, or the part of it, between
two points where another goroutine can see or stop it: a send, a receive, a close,
the wait group, a call of `os.Exit`. `PROJECT.json` maps every definition to its
lines. A goroutine's place in its code is `worker.pc`, `collector.pc`, `main`.
A buffered channel is `[buf, closed]`, an unbuffered one a joint step of sender
and receiver (`Deliver` in `ReceiveTask`, `ReadChunk`). Results are kept by
task, as `Work.Results` does; the channels carry the task only.

Abstractions. In `Diagnostics` a task's `Execute` is a choice among `Outcomes[task]`,
each a status, whether the payload has its documented type, the files and the
streams started. In the families it is an action that computes the result from the
host and the results before, for any order that runs dependencies first; a task
that looks at several hosts, files or processes loops over a sequence, or over a set
where the code ranges over a map. A name is a stem and the numbers in parentheses at its end, so that a
renamed duplicate and a file that is called so meet. The text of files, what is
printed, timestamps and URLs are left out. A file is copied whole, in part, or
not at all; a write that failed makes every later one fail, as in `zip.Writer`.
In `ContainerLogs` output is counted in parts, and `long` is a line
`bufio.Scanner` does not take; what is in a pipe, and what has been copied, are the
places of the parts in the output of their container. In `FrontEnd` a command line is a
record of its flags with the arguments as the operating system has them: which of them is
a suite, which contain the name of one, and where the value of `-suites` stands
(`ValueInArgs`), so that the flag may be repeated and names may stand anywhere; no suite
is called "" or "unknown". A service of New Relic is asked by https, the latest version
and its download by plain http, and `HTTPS_PROXY` is an input besides `HTTP_PROXY`. A path is a directory and a name, or one model value; a
regular expression is the set of names it matches; what a command, a registry or a
service answers is a choice.

Mutants: next to some definitions stands a second one with the same parameters that
nothing uses. It is a plausible mistake in the same code. `PROJECT.json` says which
definition it replaces and which property then fails; every property has one, and
a theme has one for each of its statements but for the types of a few families.

## The runs

| Run | Shows |
|---|---|
| `queue` | five tasks with a diamond, a task that is not run by default, a name in another case, an unknown name and a wildcard; six requests. The queue is the closure, in order, once, and is closed |
| `run` | three tasks, two streams, duplicate, executable and missing files, no free name, and a file called as a renamed duplicate is; no faults: the properties of a run. `SharedNamesHaveCause`: entries with one name have a file with such a name, or a folder of its own, among them |
| `exits` | faults of the disk, overrides, wrong suite, early return, `-include`, a script, failing uploads. The run ends, and `Diagnostics` implements `DiagnosticRun` in all of them (`ImplementsRun`) |
| `uploads` | all flags, two keys, four results of ValidateLicenseKey, lost requests and answers, faults of the disk. `UploadsAccounted`: every account has both files, and a partial upload ends the run as failed |
| `container_logs` | three containers, two that may fail, pipes of one part, and outputs that fill the pipe of stderr before stdout ends. `ErrorsAccounted`: all errors are collected, none is sent after the close. `LogsEnd`: the task returns, and the streams are consumed or docker is blocked on a full stderr, which is the only way to wait without end |
| `version_check` | 41 versions against the requirements of every form, alone and in pairs: the answer is whether one interval has the version, and an error means malformed text |
| `front_end` | command lines for proxies and regions, modes, selections, overrides, scripts, and malformed ones. `RequestsAsAsked`: an unusable proxy stops the run, requests by plain http go through the proxy, data go to one region. `MisplacedSuitesTold`: no suite behind the list is left out untold. `FilesAccounted`: the files of a script are in the archive, or the user is told that they are not |
| `base_tasks` | configuration files, logs and the host's environment, by theme, see below |
| `agent_tasks` | the families of `TaskEffects`, the runtimes, .NET and java, by theme |

The themes, with the statements of the modules they collect:

| Theme | Statements |
|---|---|
| `OnlyWhatIsWanted` (of `BaseTasks`) | `ConfigFiles`: RefusedOnlyByName, TakenOnce. `BaseLog`: DeclinedNotCopied, OldLogAlone |
| `OnlyOnConsent` (of `TaskEffects`) | `AzureFunctions`: RemoteChangedOnlyOnConsent, AzOnlyForValidTargets. `InfraIntegrations`: DeclinedNotCopied. `InfraAgent`: SwitchedForALog. `AgentDetection`: SuitesRespected |
| `NothingHidden` (of `BaseTasks`) | `ConfigFiles`: EveryPathAccounted. `BaseLog`: ConfiguredLogCopied. `HostEnvironment`: PartialInfoKept, UnknownIsNoFailure, ElevatedNotDenied, PanicHasCause |
| `NothingHidden` (of `TaskEffects`) | `AgentDetection`: OldAgentNoticed. `InfraAgent`: ConnectMeansAll. `InfraIntegrations`: ConfiguredPathWorks, JsonChecked. `AzureFunctions`: ReportSaysAll |
| `VerdictsFollow` (of `MCAgentTasks`) | the types, and `RuntimeVersions`: NodeByInterval, PythonByInterval, RubyByInterval, OtherCommandCounts, CoreErrorMeansNoSource. `DotNetRequirements`: FrameworkByInterval, RequirementsMet, SameOnWindows, BadDatastoreTold, TargetErrorsTold. `DotNetProfiler`: InstrumentationBySettings, LevelsByFile, TLSPanicHasCause, WorkersAccounted. `JavaTasks`: VendorsByInterval, ServersByInterval, SettingsInEffect, ArgumentsTell, DeniedHasCause, PanicHasCause |
| `HandedOn` (of `BaseTasks`) | the type invariants; `ConfigFiles`: AssertionsHold, NamesByPrecedence |
| `HandedOn` (of `TaskEffects`) | the type invariants; `AccountChecks`: RegionsOfFoundKeys. `AgentDetection`: DetectedFromText, OneElementPerFile, InstalledMeansValidated. `AzureFunctions`: LocalOnlyInAzure, OneSource. `InfraAgent`: PayloadCollected. `InfraIntegrations`: MatchAgrees |
| `RequestsAsFound` (of `TaskEffects`) | `AccountChecks`: SentKeysChecked, SomeCollectorChecked |
| `InOrder` (of `TaskEffects`) | `AzureFunctions`: PromptOrder. `InfraIntegrations`: QueriesAfterConnection. `InfraAgent`: DebugLogsCollected |

Three runs show where the code departs from what it or its comments say; the
findings in `PROJECT.json` quote the lines:

- `mixed_case`: names are queued in lower case and looked up as spelled; a task
  whose dependency is written in another case (there is one among the .NET tasks)
  is given the zero result;
- `stale_report`: a report that cannot be written is replaced, unnoticed, by an
  earlier run's or a truncated one;
- `log_declined`: `Base/Log/Collect` takes the files that `Base/Log/Copy` asked about
  and the user kept back.

Bounds. The channels have their real capacity, two; three tasks fill
`ResultsChannel`, and two results with files and a busy collector fill
`FilesChannel`. Two streams are enough for one to be read while another waits,
and one is started and never returned. `MaxTries` is 3 for 49, so that giving up
happens with three names. Two license keys tell the first account from the rest;
three containers let one succeed between two that fail. The dependencies of
instances have no cycle, like the repository's 212.
The families have no loop without an end, so that their bounds are the hosts. For
each family these are chosen around the limits of what it checks rather than as a
product: two files, keys, logs, processes or URLs, one that works and one that does
not, since the statements tell one of several from all; versions at, just below and
just above the ends of the intervals of the tables, which are copied in full;
and of each switch on the host both positions, alone and with those it meets in the
code. Where others change something during the run, `Fragile` and the processes that
end name which. Versions have parts up to the bound in the model, and `Infinity`,
which stands for a star, is above all of them.

Fairness. Weak fairness of every goroutine: the Go scheduler runs what can run,
`Execute` returns, commands behind streams end, requests time out (two hours for
a file, `attach.go:45`), the prompt ends with its input. No fairness between the
alternatives of one step: a disk may always fail, a request may always be lost.
`Register`, `Worker`, `Collector`, `Main` and each producer are one
weakly fair action each, since a goroutine has one next step. In `FrontEnd` main and
the goroutine that selects are weakly fair. `base_tasks` and `agent_tasks` check
invariants only and assume no fairness; that their tasks end is the worker's
assumption that `Execute` returns.

Deadlock is checked in all runs that must pass but one: a run that has ended stutters in
an action for that, such as `Ended`, `QueueDone` or `Finished`. In `container_logs` the
system really can stop, when docker blocks on a full stderr; that it stops for no other
reason is what `LogsEnd` says.

## The proofs

`DiagnosticsProofs` begins with the registrar: for every registry, request and number of
tasks it keeps its types (`QueueTypeCorrect`), delivers dependencies first
(`QueueDependenciesFirst`), once (`QueueDeliversOnce`) and, when it closes the
queue, exactly the closure (`QueueDeliversClosure`). They rest on
`NoTaskAssumption` and `RegistryAssumption` only: cycles are not excluded, since
a cycle keeps the registrar from sending, not from being right.

None of the three invariants is inductive. `QueueInv` adds what the stack knows:
the names and tasks a frame still has to look at, together with what is queued or
on the stack above it, cover its dependencies (`NothingForgotten`); whatever is on
the stack, queued or still to be added is needed for the request
(`NothingInvented`, `QueuedForAReason`); what has been queued is delivered or
being sent, and the task being sent is the top frame's (`SendingIsTop`); the
bottom frame is the request (`EntryFirst`); and after the close there are no frames
(`ClosedAtTheEnd`). TLC checked `QueueInv` on the instance of `queue` before it was
proved.

Then it proves a whole run right, for every registry, every result the
tasks may leave, every flag and override, every capacity of the channels and every
failure of the disk: the types (`RunTypeCorrect`), and that the report is complete
(`RunReportComplete`), the archive has one user (`RunOneZipUser`), an upload is
final (`RunUploadIsFinal`), a wrong suite stops the run (`RunSuiteErrorStopsRun`),
streams wait for the tasks (`RunStreamsAfterTasks`), a task gets the results of
its dependencies (`RunPassesResults`), a panic has one of two causes
(`RunCrashHasCause`) and every step is one of `DiagnosticRun` or none
(`RunIsDiagnosticRun`). The assumptions are those in the modules, and two more
that the code does not enforce and that the theorems name: `ExactNames`,
dependencies are spelled like the identifiers they name (run `mixed_case` shows what
happens otherwise), and `PayloadsKept`, tasks return on success the type that
others assert.

The inductive invariant, `DiagnosticsInv`, has four parts:

- `TypeOK`, and `QueueInv`: every step of a run is a step of the registrar or
  leaves its variables alone (`StepOfQueue`), so what is proved of the queue holds in a run;
- `Control`: where each goroutine is given the others. The wait group counts the
  goroutines between their start and their return (`WaitGroupCounts`), each channel
  is closed by its sender, in the order queue, results, files, and its receiver
  goes on only from there (`ClosedInOrder`). `OneZipUser`, `UploadIsFinal` and
  `StreamsAfterTasks` follow from this part;
- `Flow`: where the results are. While the process runs, what has been received is
  `outputResults`, followed by `ResultsChannel`, followed by the task the worker holds
  (`ResultsInOrder`). When main leaves the loop the last two are empty, so the report
  is the sequence of the tasks received, which is the closure of the request.

`RunPassesResults` adds that a result is stored once: a task about to be executed
has not been executed, and what it depends on has (`ExecutedInOrder`, from the order
of the queue). TLC checked the four parts on the instances of `run` and `exits`
before they were proved.

`VersionCheckProofs` proves the versions right for every list of requirements and every
version, from `VersionsAssumption` and `VersionCheckAssumption` (a requirement has a
bound, and stars come last in it, as in the tables). The comparisons are the
lexicographic order of four numbers (`ComparisonsAreTheOrder`), which is total
(`VersionsTotallyOrdered`). The loop keeps its types (`TypeCorrect`), answers yes
exactly for the versions in an interval (`AnswersMeanWithin`), ends in an error only for
malformed text (`ErrorsMeanMalformed`). A lemma, `LoopComputesOperator`, says that the operator the
families use stands for the loop. Two consequences that the code documents follow:
"7.*" means the major number (`WildcardsMeanMajor`), and with "7.4+" every higher version
is compatible (`MinimumsAreUpward`). Neither answer is inductive; `LoopInv` adds what the
requirements already passed have shown: none of them was malformed, and none has the
version.

Last, `DiagnosticsProofs` goes on from `DiagnosticsInv` to what the run leaves behind. Every file
and stream that the tasks returned is in the archive, or the disk failed
(`ArchiveIsComplete`), the list names every entry that was copied (`ArchiveIsListed`),
and two entries have one name only for a cause in the names that tasks gave
(`ArchiveNamesShared`). The archive alone shows none of
the three; where a file is on its way does:

- `ArchiveInv`: every envelope of a result that was published is in `FilesChannel`, with
  the collector, among the files to copy, or copied (`FilesTracked`, `PathsKept`), a path
  is passed over only for one that is kept, copies go in the order of the list
  (`CopiesInOrder`), and what could not be written was noted (`BreaksNoted`);
- `ListInv`: the list has a line for what has been copied so far, and it is copied itself;
- `NameInv`: the names reserved are those of the files to copy, but for `OddPaths`
  (`NamesReserved`), the folders of tasks, `-include`, scripts and nrdiag's own files are kept
  apart (`FilesApart`, `OwnNames`), and no two entries share a name without a cause
  (`Unshared`).

The third has no hypothesis but `NamesAssumption`, which the code keeps: no task
returns an envelope with a number, none has the category Include or ScriptOutput, and
`-include` walks to each path once. It does not say that names are unique, since they
are not: a name is reserved before its folder is set, with its number, so a file whose name
ends in a number, or whose envelope names its folder, can meet another (`OddPaths`), and a
script can name one file by two patterns. It says that nothing else makes two entries meet.

`UploadsProofs`: nothing is sent to an account that was not allowed
(`OnlyAllowedAreSent`), and at the end every allowed account has both files or the run
failed (`UploadsAreAccounted`), for every set of keys, any flags and all results of
ValidateLicenseKey, from `UploadsAssumption`. `UploadsInv` says by main's place
what the accounts have: nothing before the prompt (`NothingYet`), both files of the
keys already done (`DoneAtNext`, `DoneAtSend`, `DoneAtUsage`), of the current key the
first before the second (`FilesInOrder`), and where main can stop (`EndsAtItsPlace`).

`ContainerLogsProofs`: no error is lost and none is sent after the close
(`ErrorsAreAccounted`), and a log that was copied has all that can be read of it, each line
once and in order (`LogsAreComplete`), for any containers in any order, any output, failing commands and any
size of the pipes (`ContainerLogsAssumption`). In `ErrorsInv` the wait group is the number
of the goroutines that have not called `Done` (`WaitGroupCounts`), which is why the
close comes after the last send (`ClosedOnReturn`). In `LogsInv`, for each container
(`LogInv`), every part that docker has written is in a pipe or copied (`Kept`), each pipe
holds its own parts in their order, later ones than those copied (`PipesOrdered`,
`CopiedOrdered`), and where the producer is tells what it has read (`ReadSoFar`).

`FrontEndProofs`: nothing is sent with an unusable proxy, nothing by plain http around a
good one, and all data to one region (`RequestsGoAsAsked`); tasks that `-suites` selects run
only if every name in it was understood and no suite stands behind it (`SuitesUnderstood`);
a panic has a cause (`PanicsHaveCause`) and the files of a script are archived or told
(`FilesAreAccounted`), for every command line and environment of `FrontEndAssumption`.
`FrontInv` says what is set at each place of main: `HTTP_PROXY` once the proxy was
looked for (`ProxyInPlace`), the region (`RegionsInPlace`), the requests sent until
then (`RequestsByPlace`), when the goroutine that selects runs (`RegistrarInPlace`) and
what it has selected (`SuitesSelected`).

`TaskEffectsProofs` proves the five themes of `TaskEffects`, for all hosts, keys, files,
answers of services and orders of the tasks that run dependencies first:
`EffectsOnlyOnConsent`, `EffectsInOrder` and `EffectsRequestsAsFound` from `EffectsInv`,
`EffectsNothingHidden` and `EffectsHandedOn` from `EffectsFacts`. They assume
`TaskEffectsAssumption`, which is what the modules of the families say of their constants.
The service may leave keys out of its answers, as it likes.

Both invariants are those of the family that is run, since the others do not move. What
`EffectsInv` adds to the statements is how the results of tasks that are done agree with
what was found, sent and written:

- `AccountInv`: keys have the sources they were found in (`KeysHaveSources`), a collector
  was passed over for the regions that the keys have (`SkippedForRegions`), and keys that
  were sent had a valid form when they were (`SentKeysChecked`);
- `AzureInv`: prompts come in the order of the tasks that ask (`AzureOrder`), a prompt
  was followed by a result (`AskedHaveResults`), and the settings of the app are as they
  were found unless a consent is recorded (`RemoteAsFound`);
- `InfraInv`: logs that Log/Collect handed on are on their way to the archive or in it
  (`LogsOnTheWay`), which is filled when all tasks have run (`CopiedAtTheEnd`); the level
  was switched after that task, a success of Debug means that lines were written
  (`SwitchedByDebug`), and a version handed on is the agent's (`VersionTold`);
- `IntegrationsInv`: queries are sent after a test of the connection that was answered
  (`ConnectionAnswered`, `AskedWhenConnected`);
- `VersionsOfChosenAgents` for the agents.

`EffectsFacts` says what the results are, so that a task can rely on those before it:

- `AccountFacts`: keys that were validated are keys that were found, and were sent;
- `AzureFacts`: DetectRuntime comes after both sources of settings (FetchAppSettings and
  the container's own), and its runtime is that of the source the others take; when the report is written every task in it has run, and none runs twice, so that it
  stays true;
- `InfraFacts`: logs handed on by Log/Collect are on their way to the archive or in it;
- `IntegrationsFacts`: Collect and Validate hand on the files of the host in their order, so
  that the pairs of Match are those of the last file of each kind on the host, from which
  `MatchAgrees` follows (`MatchIsOfFiles`);
- `AgentsFacts`: each result is one that its task returns on this host (`AgentsReturns`), so
  that the versions of Ruby are those of all gems, and DotNet/Config finds the validated
  files that it does not look for again; the version of Java comes after its search, and EOL after all versions. That a
  file is not in a payload more often than it was found is a fact about selections
  (`AmongNotMore`): each place has a place of its own in the files (`AmongKeepsOrder`).

TLC checked each of these invariants, on the instances of the runs, before it was proved.

`BaseTasksProofs` proves the three themes of `BaseTasks`: nothing is taken or copied that
was not asked for (`BaseOnlyWhatIsWanted`), no result hides what failed
(`BaseNothingHidden`), and what is handed on has the form that the dependents assert
(`BaseHandedOn`), for any directories, files, names, logs, hosts and answers of the user,
any files that vanish between two tasks, and any order of the tasks that runs
dependencies first. They assume `BaseTasksAssumption`, which is what the three modules say of
their constants. `BaseInv` is the invariant of the family that is run:

- `ConfigInv`: what Collect hands on are files that were found, each once, and none that was
  refused (`CollectHandsOn`), Validate hands on readable ones of these (`ValidateHandsOn`),
  and names are taken from what Validate read, unless the environment or the first process
  with the property names another (`NamesHandedOn`, `NamesByPrecedence`);
- `LogInv`: the results that Base/Log/Copy reads have the types it asserts
  (`SettingsHandedOn`), and until it has run nothing is copied or kept back
  (`NothingBeforeCopy`). Its one step carries the statements: `DedupeLogPaths` keeps the
  first element of each path (`FirstOfPath`), and the secure ones come first, so that what
  the user declined cannot come back under another source; of a directory that is
  searched the recent files are taken, or one old file (`RecentOrAlone`);
- `EnvInv`: host information that is partial keeps what was found
  (`HostInfoComplete`), a rights check fails for a known reason only (`FailureIsKnown`), and a
  denial or a panic has its cause on the host (`DenialHasCause`).

These statements are about loops over files and lists, which the model writes as
recursive functions and selections. Where a step of the loop has to be followed, the proof
takes the least number for which a fact fails: a bounded set of numbers has a least and a
greatest member (`Least`, `Greatest`), from which follow that a recursive function
exists (`Recursion`, `StagedRecursion`), what an iteration reaches (`IterationSteps`), and
what `SetToSeq`, `FlattenSeq` and the selection `Among` return.

Only model-checked, and why:

- liveness (`QueueCloses`, `RunEnds`, `UploadsEnd`, `LogsEnd`) and the fairness of
  `ImplementsRun`: these rest on ENABLED. That the steps of a run are steps of
  `DiagnosticRun` is proved;
- `VerdictsFollow` of `MCAgentTasks`, for runtimes, .NET and java. Its statements compare
  the tasks with a table, of which there is one per runtime and agent, so that there are
  no constants to prove them for, or with what a fold over processes and targets should
  return. Of the versions themselves `VersionCheckProofs` says it for all.

## Differences met while modelling

The models have these as the code does. No run is about them, but where a run is named:
its property then says that this is the only way to get there. For the others no property
can hold that a reader would expect, so none is stated; `PROJECT.json` notes it at the
hazard.

Archive, usage and containers
- Two entries of the archive can get one name: the number of a duplicate is put in front
  of the last dot (`output/output.go:166`), and a file may be called so from the start; names are
  reserved before folders are set (`output/output.go:138`). `SharedNamesHaveCause` of `run`
  says that it takes such a name or a folder the task names itself.
- The files of a script come after the file of what it printed, which is written only when
  it printed something (`core.go:88`); without it the copying ends at once
  (`output/output.go:95`) and none is archived, which the user is told. `docs/Script-overview.md:9`
  has all files in the archive.
- Usage data reads the payload of ValidateLicenseKey after `WriteLineResults` has replaced it.
- The stdout of `docker logs` is read to its end before its stderr
  (`tasks/taskHelpers.go:924`); docker blocks when the pipe of stderr is full, and nrdiag
  waits for it without end. `LogsEnd` of `container_logs` says that nothing else blocks.
- A log ends where a line is too long for `bufio.Scanner` (`tasks/taskHelpers.go:1090`), and
  `collectLogs.go:59` says that the logs were collected. `LogsComplete` is about what can be
  read (`Readable`).

Command line
- `-proxy` and what `ProxyDetect` finds are written to `HTTP_PROXY` (`processOptions.go:65`,
  `proxyDetect.go:135`), which `http.ProxyFromEnvironment` (`coreHelper.go:57`) does not use for
  https, and the environment is read once, at the first request. Without `HTTPS_PROXY` the
  services are asked around the proxy, although `core.go:25` and `connectUs.go:34` want it in
  place before. `RequestsAsAsked` is about plain http.
- Suites are left out without a word when `-t` or `-browser-url` is given, too
  (`processTasks.go:22`), when they stand in front of the list, and in all but the last of
  several `-suites` (`suites.go:73`). `MisplacedSuitesTold` is about those behind it.
- With `-attach` nothing is uploaded and nothing said when no task has left the keys, or
  when the payload of `ValidateLicenseKey` is not a map (`processTasks.go:234-238`).

Configuration, keys and logs
- A file that the user refused is collected when a variable or a property names it
  (`collect.go:310`), and the summary says that it was not (`collect.go:204`).
  `RefusedOnlyByName` says that nothing else leads to it.
- A key that the service leaves out of its answer is neither valid nor invalid, and the task
  can be a success (`validateLicenseKey.go:94`).
- One log of the profiler changes the limit for all that follow (`copy.go:240`), against
  `copy.go:34`.
- Queries that end in an error are a success (`nrjmxMbeans.go:96`, `:112`): the length tested
  is that of the message, which is still empty.

.NET
- The result of DotNet/Requirements/OwinCheck never counts, for the spelling of
  `mixed_case` (`requirementsChecker_windows.go:27`).
- The Warning of DotNet/Env/Versions is out of reach (`versions_windows.go:45`).
- `repository/validateKeys_windows.go:54` returns an error that is nil, and
  `profiler/tlsRegKey_windows.go:61` dereferences the value that comes with it.
- The comment at `dotnetcore/requirements/os.go:160` lists Ubuntu 14.04, the check does not.

The host
- Base/Env/HostInfo joins with "or" what its deadline needs both of (`hostInfo_windows.go:49`).
- The name of the user is matched as a regular expression without anchors, and a name
  that is none panics (`admin_windows.go:107`).
- `IsUserRoot` dereferences the user that was not found (`taskHelpers.go:1083`).
- "server" is looked for with its case in `node/env/osCheck.go:84`.

Versions
- "1.0-1.10" leaves 1.10.1 out, and WebSphere's "7.0-9" 9.0.x, which a comment includes.

Java
- `determineEnvironment` shadows its result: the environment is always "production".
- `matchConfig` compares the parent of the working directory.
- `ValidateSettings` looks at the first file and says that all were validated;
  `ValidateBoolean` panics on a number.
- The patterns of permissions have no anchors (`permissions_nix.go:34`, `:276`), so that the bits
  of group and others can satisfy the check of the owner, and processes pass that do not
  "meet minimum permissions requirements" (`:165`). `DeniedHasCause` is about denials; ids that could not be found out count as denied.
- The environment of nrdiag stands for that of every process, and `java -version` of the
  path for a process's own.
- One foreign `-javaagent` is a failure for all processes, and "-javaagent" without a colon
  panics (`process.go:148`).
- Amazon's JVM is in the tables as "Coretto" (`compatibilityVars/versions.go:59`),
  so "Corretto" is not found by name.

## Not modelled

- Obfuscation of configuration files: text to text, sequential and without state.
- Kubernetes tasks: one command and one stream each; a stream is a producer of `Diagnostics`.
- Browser, mobile and most synthetics tasks: each looks at one page, project or
  container and reports what it finds.
- Of the families: custom instrumentation of .NET, Go, `base/containers`, `java/log`, the
  tasks that collect the logs of one agent (a search like that of `BaseLog`), and what the
  infrastructure tasks do on Windows only.
- Printing, the headers and the insert key of usage data, and the survey: no state
  anybody reads.
- HTTP: a request succeeds, fails, or is received without a confirmation.
- The dependency grapher and the developer tools under `scripts/`.

## Plan

1. Core (done): `TaskQueue`, `FileNames`, `Diagnostics`, `DiagnosticRun`, `Uploads`,
   `ContainerLogs`.
2. Around the core (done): `FrontEnd`, `Versions`, `VersionCheck`.
3. Families of tasks (done but for the parts above): base, agents, runtimes, .NET, java,
   azure, infra.
4. Proofs (done): `TaskQueue`; the control, the results, the archive and the refinement of
   `Diagnostics`; `VersionCheck`, `Uploads`, `ContainerLogs`, `FrontEnd`; the themes of
   `TaskEffects` and of `BaseTasks`.
5. Proofs left: the statements of `VerdictsFollow` that loop over processes and targets
   (`DeniedHasCause` of java, `TargetErrorsTold` of .NET), with the lemmas of
   `SequenceLemmas`.
