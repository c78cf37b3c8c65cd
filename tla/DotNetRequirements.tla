------------------------- MODULE DotNetRequirements -------------------------
(***************************************************************************)
(* Whether an application meets the requirements of the .NET and of the    *)
(* .NET Core agent: the tasks of dotnet/env, dotnet/requirements and       *)
(* dotnetcore/requirements in src/tasks.                                   *)
(*                                                                         *)
(* The results of the tasks that detect an agent (see AgentDetection) and  *)
(* of Base/Env/HostInfo are part of the host.                              *)
(***************************************************************************)
EXTENDS TaskFamily, Versions, SequencesExt, FiniteSets

CONSTANTS
  Host, None,
  Unreadable  \* reading a file, a version or the registry ended in an error

HostType ==
  [installed : BOOLEAN, core : BOOLEAN,     \* the agents that are installed
   agent : Text \cup {Unreadable},          \* of NewRelic.Agent.Core.dll
   os : {"windows", "linux", "darwin", "solaris"}, platform : STRING,
   server : BOOLEAN,                        \* "server" is in its family
   osVersion : Text \cup {None},            \* None without a payload
   arch : STRING \cup {Unreadable},
   dirs : BOOLEAN,                          \* the working directory is known
   files : Seq([runtime : Text \cup {None, Unreadable},    \* what the three
                framework : Text \cup {None, Unreadable},  \* patterns capture
                project : Text \cup {None, Unreadable}]),  \* in an app's file
   names : SUBSET STRING \cup {Unreadable},    \* subkeys of the registry that start with "v"
   release : Nat \cup {None},
   dlls : Seq(STRING \X (Text \cup {Unreadable}))]  \* in the order of the search

vars == <<host, results, process>>

Target == "DotNet/Env/TargetVersion"
Versions == "DotNet/Env/Versions"
Agent == "DotNet/Agent/Version"
Validate == "DotNet/Requirements/NetTargetAgentVersionValidate"
OS == "DotNet/Requirements/OS"
Owin == "DotNet/Requirements/OwinCheck"
Processor == "DotNet/Requirements/ProcessorType"
Datastores == "DotNet/Requirements/Datastores"
Messaging == "DotNet/Requirements/MessagingServicesCheck"
Check == "DotNet/Requirements/RequirementCheck"
CoreOS == "DotNetCore/Requirements/OS"
CoreProcessor == "DotNetCore/Requirements/ProcessorType"

\* The tasks of the .NET agent are registered on Windows only.
Tasks ==
  {CoreOS, CoreProcessor} \cup
    IF host.os # "windows" THEN {}
    ELSE {Target, Versions, Agent, Validate, OS, Owin, Processor, Datastores, Messaging, Check}

Init == host \in Host /\ NothingRun

\* The tasks of an agent do nothing where it is not installed.
RunIf(there, t, dependencies, r) ==
  /\ t \in Tasks
  /\ Ready(t, dependencies)
  /\ Return(t, IF there THEN r ELSE Verdict("None"))
  /\ UNCHANGED host

-----------------------------------------------------------------------------
(* The versions of .NET that an application targets *)

Captured(f) ==
  CASE f.runtime # None -> f.runtime
    [] f.runtime = None /\ f.framework # None -> f.framework
    [] OTHER -> f.project

\* A text of one character is counted as an error.
TooShort(text) == Len(text) = 1 /\ text[1] \in 0 .. 9

Failing(f) == Captured(f) = Unreadable \/ (Captured(f) # None /\ TooShort(Captured(f)))
Targets(files) ==
  LET telling == SelectSeq(files, LAMBDA f : Captured(f) # None /\ ~Failing(f))
  IN  [i \in DOMAIN telling |-> Captured(telling[i])]

ErrorsUncounted(files) ==
  IF Targets(files) = <<>> THEN Verdict("None") ELSE With("Info", Targets(files))
GetNetVersionFromFiles(files) ==
  CASE Targets(files) # <<>> -> With("Info", Targets(files))
    [] Targets(files) = <<>> /\ (\E f \in Range(files) : Failing(f)) -> Verdict("Error")
    [] OTHER -> Verdict("None")

DotNetEnvTargetVersion ==
  RunIf(host.installed, Target, {},
    CASE ~host.dirs -> Verdict("Error")
      [] host.dirs /\ host.files = <<>> -> Verdict("Warning")
      [] OTHER -> GetNetVersionFromFiles(host.files))

-----------------------------------------------------------------------------
(* The versions of .NET and of the agent that are installed *)

Releases ==
  378389 :> "4.5" @@ 378675 :> "4.5.1" @@ 379893 :> "4.5.2" @@ 393295 :> "4.6"
  @@ 394254 :> "4.6.1" @@ 394802 :> "4.6.2" @@ 460798 :> "4.7 or later"

CheckNetAbove4(release) ==
  LET reached == {r \in DOMAIN Releases : release # None /\ release >= r}
  IN  {Releases[r] : r \in {s \in reached : \A q \in reached : q <= s}}

\* Without names the list is nil, and so is no different from one not read.
DotNetEnvVersions ==
  RunIf(TRUE, Versions, {},
    IF host.names \in {Unreadable, {}} THEN Verdict("Error")
    ELSE With("Info", host.names \cup
                (IF "v4" \in host.names THEN CheckNetAbove4(host.release) ELSE {})))

DotNetAgentVersion ==
  RunIf(host.installed, Agent, {},
    IF host.agent = Unreadable THEN Verdict("Error") ELSE With("Info", host.agent))

-----------------------------------------------------------------------------
(* The agent for these targets *)

DotnetFrameworkSupportedVersions ==
  [v \in {<<4, 8>>, <<4, 7>>, <<4, 6>>, <<4, 5>>} |-> AtLeast(<<7, 0, 0>>)]
DotnetFrameworkOldVersions ==
  [v \in {<<4, 0>>, <<3, 5>>} |-> Between(<<5, 1, Star>>, <<6, Star>>)]
FrameworkVersions == DotnetFrameworkSupportedVersions @@ DotnetFrameworkOldVersions

Truncated(text) == <<ParseVersion(text).Major, ParseVersion(text).Minor>>

FirstTargetDecides(targets, agent) ==
  IF Truncated(targets[1]) \in DOMAIN FrameworkVersions
     /\ VersionIsCompatible(agent, <<FrameworkVersions[Truncated(targets[1])]>>) = "yes"
  THEN "Success" ELSE "Failure"
TargetsVerdict(targets, agent) ==
  LET versions == {Truncated(t) : t \in Range(targets)}
      supported == versions \cap DOMAIN FrameworkVersions
      Answer(v) == VersionIsCompatible(agent, <<FrameworkVersions[v]>>)
  IN  CASE \E v \in supported : Answer(v) = "error" -> "Error"
        [] supported = versions /\ (\A v \in supported : Answer(v) = "yes") -> "Success"
        [] OTHER -> "Failure"

DotnetRequirementsNetTargetAgentVerValidate ==
  LET targets == Upstream(Target).payload
  IN  RunIf(host.installed, Validate, {Target, Agent}, Verdict(
        CASE Upstream(Target).status # "Info" \/ Upstream(Agent).status # "Info" -> "None"
          [] Upstream(Target).status = "Info" /\ Upstream(Agent).status = "Info"
             /\ (\E t \in Range(targets) : ~Parses(t)) -> "Error"
          [] OTHER -> TargetsVerdict(targets, Upstream(Agent).payload)))

-----------------------------------------------------------------------------
(* The operating system and the processor *)

CompatibleOS == Between(<<6>>, <<10, Star>>)
IsServer2003(version) ==
  host.server /\ \E i \in 1 .. Len(version) - 1 : version[i] = 5 /\ version[i + 1] = 2

OSVerdict(version) ==
  LET answer == VersionIsCompatible(SubSeq(version, 1, 2), <<CompatibleOS>>)
  IN  CASE version = <<>> \/ IsServer2003(version) -> "Warning"
        [] version # <<>> /\ ~IsServer2003(version) /\ (Len(version) < 2 \/ answer = "error") ->
             "Error"
        [] OTHER -> IF answer = "yes" THEN "Success" ELSE "Failure"

DotnetRequirementsOS ==
  RunIf(host.installed, OS, {},
    Verdict(IF host.osVersion = None THEN "Error" ELSE OSVerdict(host.osVersion)))

ProcessorVerdict(processors) ==
  Verdict(CASE host.arch = Unreadable -> "Error"
            [] host.arch \in processors -> "Success"
            [] OTHER -> "Failure")

DotnetRequirementsProcessorType ==
  RunIf(host.installed, Processor, {}, ProcessorVerdict({"x86", "AMD64"}))

OnLinux(version) ==
  LET is(majors) == version[1] \in majors
      minor == IF Len(version) > 1 THEN version[2] ELSE 0
  IN  CASE host.platform = "ubuntu" ->
             (is({16, 18, 20}) /\ minor = 4) \/ (is({17, 20}) /\ minor = 10)
        [] host.platform = "debian" -> is({9}) \/ (is({8}) /\ minor # Bad /\ minor >= 7)
        [] host.platform = "linuxmint" -> is({17, 18})
        [] host.platform = "opensuse" -> is({42}) /\ minor # Bad /\ minor >= 2
        [] host.platform = "suse" -> is({12})
        [] host.platform \in {"redhat", "centos", "oracle"} -> is({7})
        [] host.platform = "fedora" -> is({26, 27})

LinuxPlatforms ==
  {"ubuntu", "debian", "linuxmint", "opensuse", "suse", "redhat", "centos", "oracle", "fedora"}

BelowTen(version) == version[1] \in 6 .. 9
OnWindows(version) == version[1] \in 6 .. 10

CoreOSVerdict(version) ==
  LET passed == IF host.os = "windows" THEN OnWindows(version) ELSE OnLinux(version)
  IN  CASE version = <<>> -> "Warning"
        [] version # <<>> /\ host.os = "darwin" -> "Failure"
        [] version # <<>> /\ host.os \in {"windows", "linux"} ->
             IF version[1] = Bad THEN "Error"
             ELSE IF host.os = "linux" /\ host.platform \notin LinuxPlatforms THEN "Warning"
             ELSE IF passed THEN "Success" ELSE "Failure"
        [] OTHER -> "Warning"

DotNetCoreRequirementsOS ==
  RunIf(host.core, CoreOS, {},
    Verdict(IF host.osVersion = None THEN "Error" ELSE CoreOSVerdict(host.osVersion)))

\* The name of the processor in lower case.
CoreProcessors ==
  IF host.os = "windows" THEN {"x86", "AMD64", "amd64"} ELSE {"x86_64", "amd64"}
DotNetCoreRequirementsProcessorType ==
  RunIf(host.core /\ host.os # "darwin" /\ Upstream(CoreOS).status = "Success",
    CoreProcessor, {CoreOS}, ProcessorVerdict(CoreProcessors))

-----------------------------------------------------------------------------
(* The libraries in the application's directories *)

DatastoreNames ==
  {"CouchbaseNetClient.dll", "IBM.Data.DB2.dll", "MongoDB.Driver.dll", "MySql.Data.dll",
   "Oracle.ManagedDataAccess.dll", "Npgsql.dll", "ServiceStack.Redis.dll",
   "StackExchange.Redis.dll"}
MessagingNames == {"System.Messaging.dll", "NServiceBus.Core.dll", "RabbitMQ.Client.dll"}

DllVersions ==
  "CouchbaseNetClient.dll" :> <<AtLeast(<<2>>)>>
  @@ "MongoDB.Driver.dll" :> <<Between(<<1, 0>>, <<1, 10>>), Between(<<2, 3>>, <<2, 7, Star>>)>>
  @@ "NServiceBus.Core.dll" :> <<Between(<<5, 0>>, <<5, Star>>)>>
  @@ "RabbitMQ.Client.dll" :> <<AtLeast(<<3, 5>>), AtLeast(<<4>>)>>

Found(names) == SelectSeq(host.dlls, LAMBDA d : d[1] \in names)
WithoutVersion(dlls) == {i \in DOMAIN dlls : dlls[i][2] = Unreadable}
BadVersion(dlls) ==
  {i \in DOMAIN dlls \ WithoutVersion(dlls) :
     /\ dlls[i][1] \in DOMAIN DllVersions
     /\ VersionIsCompatible(dlls[i][2], DllVersions[dlls[i][1]]) # "yes"}

UnreadableFirst(dlls) ==
  CASE dlls = <<>> -> "None"
    [] dlls # <<>> /\ WithoutVersion(dlls) # {} -> "Warning"
    [] OTHER -> IF BadVersion(dlls) # {} THEN "Failure" ELSE "Success"
DatastoresVerdict(dlls) ==
  CASE dlls = <<>> -> "None"
    [] dlls # <<>> /\ BadVersion(dlls) # {} -> "Failure"
    [] OTHER -> IF WithoutVersion(dlls) # {} THEN "Warning" ELSE "Success"

\* The directories that are not known have no libraries.
DotnetRequirementsDatastores ==
  RunIf(host.installed, Datastores, {},
    Verdict(IF host.dirs THEN DatastoresVerdict(Found(DatastoreNames)) ELSE "None"))

\* A version that is not read is no version, which is an error.
MessagingVerdict(dlls) ==
  CASE dlls = <<>> -> "None"
    [] dlls # <<>> /\ WithoutVersion(dlls) # {} -> "Error"
    [] OTHER -> IF BadVersion(dlls) # {} THEN "Failure" ELSE "Success"

DotnetRequirementsMessagingServicesCheck ==
  RunIf(host.installed, Messaging, {},
    Verdict(IF host.dirs THEN MessagingVerdict(Found(MessagingNames)) ELSE "Error"))

OwinVerdict(dlls) ==
  CASE dlls = <<>> -> "None"
    [] dlls # <<>> /\ dlls[1][2] = Unreadable -> "Warning"
    [] OTHER -> IF VersionIsCompatible(dlls[1][2], <<AtLeast(<<3>>)>>) = "yes"
                THEN "Success" ELSE "Failure"

DotnetRequirementsOwinCheck ==
  RunIf(host.installed, Owin, {},
    Verdict(IF host.dirs THEN OwinVerdict(Found({"Microsoft.Owin.dll"})) ELSE "None"))

-----------------------------------------------------------------------------
(* All requirements *)

\* "Dotnet/Requirements/OwinCheck" is no key of the results, whose result is the
\* zero value: the status None, which is acceptable for it.
Counted == {Validate, OS, Processor, Datastores, Messaging}

NoneAlwaysAcceptable(t) == Upstream(t).status \in {"Success", "None"}
CheckTaskStatus(t) ==
  \/ Upstream(t).status = "Success"
  \/ Upstream(t).status = "None" /\ t \in {Datastores, Messaging}

DotnetRequirementsRequirementCheck ==
  RunIf(host.installed, Check, Counted \cup {Owin},
    Verdict(IF \A t \in Counted : CheckTaskStatus(t) THEN "Success" ELSE "Failure"))

-----------------------------------------------------------------------------

Done == DOMAIN results = Tasks /\ UNCHANGED vars

Next ==
  \/ DotNetEnvTargetVersion \/ DotNetEnvVersions \/ DotNetAgentVersion
  \/ DotnetRequirementsNetTargetAgentVerValidate
  \/ DotnetRequirementsOS \/ DotnetRequirementsProcessorType
  \/ DotnetRequirementsDatastores \/ DotnetRequirementsMessagingServicesCheck
  \/ DotnetRequirementsOwinCheck \/ DotnetRequirementsRequirementCheck
  \/ DotNetCoreRequirementsOS \/ DotNetCoreRequirementsProcessorType
  \/ Done

Spec == Init /\ [][Next]_vars /\ WF_vars(Next)

-----------------------------------------------------------------------------
(* Properties *)

TypeOK ==
  /\ host \in Host /\ process = "running"
  /\ DOMAIN results \subseteq Tasks
  /\ \A t \in DOMAIN results : results[t].status \in Status

Ended(t, s) == Upstream(t).status = s

AgentFits(f) ==
  LET target == Truncated(Captured(f))
  IN  /\ host.agent # Unreadable
      /\ target \in DOMAIN FrameworkVersions
      /\ Within(ParseVersion(host.agent), FrameworkVersions[target])
Telling == {f \in Range(host.files) : Captured(f) # None /\ ~Failing(f)}

\* DotNet/Requirements/NetTargetAgentVersionValidate: "Your .NET agent version %s is
\* fully compatible with the following found Target .NET version(s)" is said
\* exactly when the agent is in the interval of every target of every file.
FrameworkByInterval ==
  Upstream(Validate).status \in {"Success", "Failure"} =>
    (Ended(Validate, "Success") <=> \A f \in Telling : AgentFits(f))

\* DotNet/Requirements/RequirementCheck: "All DotNet Agent requirement checks detected
\* as having succeeded": the targets, the system, the processor and the libraries
\* of the host all meet their requirements, whatever order the checks ran in.
RequirementsMet ==
  Ended(Check, "Success") =>
    /\ Telling # {} /\ \A f \in Telling : AgentFits(f)
    /\ Within(ParseVersion(SubSeq(host.osVersion, 1, 2)), CompatibleOS)
    /\ host.arch \in {"x86", "AMD64"}
    /\ \A d \in Range(Found(DatastoreNames \cup MessagingNames)) :
         /\ d[2] # Unreadable
         /\ d[1] \in DOMAIN DllVersions =>
              \E r \in Range(DllVersions[d[1]]) : Within(ParseVersion(d[2]), r)

\* DotNet/Requirements/Datastores: "Incompatible datastores detected" is said when
\* there are some, also beside others whose version cannot be read.
BadDatastoreTold ==
  Datastores \in DOMAIN results /\ host.installed /\ host.dirs =>
    (BadVersion(Found(DatastoreNames)) # {} <=> Ended(Datastores, "Failure"))

\* DotNet/Env/TargetVersion: "Unable to find .NET version." only when every file was
\* searched to its end (targetVersion_windows.go:68).
TargetErrorsTold ==
  Target \in DOMAIN results /\ host.installed =>
    (Ended(Target, "None") => \A f \in Range(host.files) : Captured(f) = None)

\* "OS Major version 6 == Vista or Server 2008", "10 == Win 10 or Server 2016": both
\* agents ask for the same versions of Windows, each with code of its own.
SameOnWindows ==
  {OS, CoreOS} \subseteq DOMAIN results /\ host.installed /\ host.core =>
    (Ended(OS, "Success") => Ended(CoreOS, "Success"))

=============================================================================
