-------------------------- MODULE RuntimeVersions --------------------------
(***************************************************************************)
(* Whether the runtime of an application is supported by its agent: the    *)
(* tasks that ask node, python, pip, ruby, gem and dotnet for versions,    *)
(* and those that look them up in the tables of                            *)
(* src/tasks/compatibilityVars/versions.go.                                *)
(*                                                                         *)
(* The commands' answers and the results of the tasks that detect an agent *)
(* (see AgentDetection) are part of the host.                              *)
(***************************************************************************)
EXTENDS TaskFamily, Versions, SequencesExt, FiniteSets

CONSTANTS
  Host, None,
  Failed,  \* the command ended in an error
  Other    \* what it printed is no version

HostType ==
  [suite : {"Node", "Python", "Ruby", "DotNetCore"},  \* whose tasks are run
   detected : BOOLEAN,                     \* its agent, by Config/Agent or Installed
   node : Text \cup {Failed, Other},       \* node -v, letters removed
   nodeAgent : Text \cup {None},           \* Node/Agent/Version
   python : Text \cup {Failed, Other}, python3 : Text \cup {Failed, Other},
   pip : Seq(STRING \X Text) \cup {Failed},   \* pip freeze, name and version
   pip3 : Seq(STRING \X Text) \cup {Failed},
   ruby : Text \cup {Failed, Other},
   gems : Seq(Text) \cup {None},           \* Ruby/Agent/Version
   envVars : BOOLEAN,                      \* Base/Env/CollectEnvVars
   info : Seq(Text \cup {<<>>}) \cup {Failed},  \* dotnet --info, lines of its lists
   dotnet : Text \cup {Failed, Other},     \* dotnet --version, Other if blank
   sdk : Seq([state : {"missing", "unreadable", "listed"}, names : Seq(Text)])]

vars == <<host, results, process>>

Node == <<"Node", "Env/Version">>
NodeCompatible == <<"Node", "Env/VersionCompatibility">>
Python == <<"Python", "Env/Version">>
PythonDependencies == <<"Python", "Env/Dependencies">>
PythonCompatible == <<"Python", "Requirements/PythonVersion">>
Frameworks == <<"Python", "Requirements/Webframework">>
Ruby == <<"Ruby", "Env/Version">>
RubyCompatible == <<"Ruby", "Requirements/Version">>
Core == <<"DotNetCore", "Env/Versions">>
CoreCompatible == <<"DotNetCore", "Requirements/DotNetCoreVersion">>

Tasks ==
  {t \in {Node, NodeCompatible, Python, PythonDependencies, PythonCompatible,
          Frameworks, Ruby, RubyCompatible, Core, CoreCompatible} : t[1] = host.suite}

Init == host \in Host /\ NothingRun

Chosen(t, dependencies) == t \in Tasks /\ Ready(t, dependencies)

\* A result whose summary names these versions.
Telling(s, versions) == [status |-> s, told |-> versions]

-----------------------------------------------------------------------------
(* The tables: the agent's versions that support a version of the runtime *)

NodeSupportedVersions ==
  24 :> AtLeast(<<12, 23, 0>>) @@ 22 :> AtLeast(<<11, 22, 0>>) @@ 20 :> AtLeast(<<11, 0, 0>>)
  @@ 18 :> Between(<<9, 0, 0>>, <<13, 0, 0>>) @@ 16 :> Between(<<8, 0, 0>>, <<12, 0, 0>>)
  @@ 14 :> Between(<<7, 0, 0>>, <<11, 0, 0>>) @@ 12 :> Between(<<6, 0, 0>>, <<9, 0, 0>>)
  @@ 10 :> Between(<<4, 6, 0>>, <<7, Star>>)

PythonVersionAgentSupportability ==
  <<3, 13>> :> AtLeast(<<10, 1, 0>>) @@ <<3, 12>> :> AtLeast(<<9, 3, 0>>)
  @@ <<3, 11>> :> AtLeast(<<8, 3, 0>>) @@ <<3, 10>> :> AtLeast(<<7, 2, 0, 167>>)
  @@ <<3, 9>> :> AtLeast(<<5, 20, 1, 150>>) @@ <<3, 8>> :> AtLeast(<<5, 2, 3, 131>>)
  @@ <<3, 7>> :> Between(<<3, 4, 0, 95>>, <<10, 17, 0>>)
  @@ <<3, 6>> :> Between(<<2, 80, 0, 60>>, <<7, 16, 0, 178>>)
  @@ <<3, 5>> :> Between(<<2, 78, 0, 57>>, <<5, 24, 0, 153>>)
  @@ <<3, 4>> :> Between(<<2, 42, 0, 35>>, <<4, 20, 0, 120>>)
  @@ <<3, 3>> :> Between(<<2, 42, 0, 35>>, <<3, 4, 0, 95>>)
  @@ <<2, 7>> :> Between(<<2, 42, 0, 35>>, <<9, 13, 0>>)
  @@ <<2, 6>> :> Between(<<2, 42, 0, 35>>, <<3, 4, 0, 95>>)

RubyVersionAgentSupportability ==
  <<3, 4>> :> AtLeast(<<9, 17, 0>>) @@ <<3, 3>> :> AtLeast(<<9, 7, 0>>)
  @@ <<3, 2>> :> AtLeast(<<8, 15, 0>>) @@ <<3, 1>> :> AtLeast(<<8, 3, 0>>)
  @@ <<3, 0>> :> AtLeast(<<6, 15, 0>>) @@ <<2, 7>> :> AtLeast(<<6, 9, 0, 363>>)
  @@ <<2, 6>> :> AtLeast(<<5, 7, 0, 350>>) @@ <<2, 5>> :> AtLeast(<<4, 8, 0, 341>>)
  @@ <<2, 4>> :> AtLeast(<<3, 18, 0, 329>>)
  @@ [v \in {<<2, 3>>, <<2, 2>>} |-> Between(<<3, 9, 9, 275>>, <<8, 16, 0>>)]
  @@ <<2, 1>> :> Between(<<3, 9, 9, 275>>, <<6, 15, 0>>)
  @@ <<2, 0>> :> Between(<<3, 9, 6, 257>>, <<6, 15, 0>>)
  @@ [v \in {<<1, 9, 3>>, <<1, 9, 2>>, <<1, 8, 7>>} |->
        Between(<<3, 9, 6, 257>>, <<3, 18, 1, 330>>)]

DotnetCoreSupportedVersions ==
  {<<9, 0>>, <<8, 0>>, <<7, 0>>, <<6, 0>>, <<5, 0>>, <<3, 1>>, <<3, 0>>, <<2, 2>>, <<2, 1>>, <<2, 0>>}

SupportedFrameworks ==
  [f \in {"bottle", "cherrypy", "django", "falcon", "flask", "pylons", "pyramid", "sanic", "web2py"}
     |-> AtLeast(<<0>>)]
  @@ "tornado" :> AtLeast(<<6, 0>>) @@ "aiohttp" :> AtLeast(<<2, 2>>)

-----------------------------------------------------------------------------
(* Node *)

NodeEnvVersion ==
  /\ Chosen(Node, {})
  /\ Return(Node,
       CASE ~host.detected -> Verdict("None")
         [] host.detected /\ (host.node \in {Failed, Other} \/ ~Parses(host.node)) -> Verdict("Error")
         [] OTHER -> With("Info", ParseVersion(host.node)))
  /\ UNCHANGED host

MajorOnly(v, agent) == IF v.Major \in DOMAIN NodeSupportedVersions THEN "Success" ELSE "Warning"
NodeVerdict(v, agent) ==
  IF v.Major \in DOMAIN NodeSupportedVersions
  THEN CASE VersionIsCompatible(agent, <<NodeSupportedVersions[v.Major]>>) = "error" -> "Error"
         [] VersionIsCompatible(agent, <<NodeSupportedVersions[v.Major]>>) = "no" -> "Failure"
         [] OTHER -> "Success"
  ELSE IF v.Major % 2 # 0 THEN "Warning" ELSE "Failure"

NodeEnvVersionCompatibility ==
  /\ Chosen(NodeCompatible, {Node})
  /\ Return(NodeCompatible, Verdict(
       IF Upstream(Node).status # "Info" \/ host.nodeAgent = None THEN "None"
       ELSE NodeVerdict(Upstream(Node).payload, host.nodeAgent)))
  /\ UNCHANGED host

-----------------------------------------------------------------------------
(* Python *)

\* A command that exists twice, python and python3, or pip and pip3: each may fail.
OneFailureFails(answers, payload) ==
  IF Failed \in Range(answers) THEN Verdict("Error") ELSE With("Success", payload)
OfTwo(answers, payload) ==
  LET failures == {i \in DOMAIN answers : answers[i] \in {Failed, Other}}
  IN  CASE failures = DOMAIN answers -> Verdict("Error")
        [] failures # {} /\ failures # DOMAIN answers -> With("Warning", payload)
        [] OTHER -> With("Success", payload)

Answered(answers) == SelectSeq(answers, LAMBDA a : a \notin {Failed, Other})

PythonEnvVersion ==
  LET answers == <<host.python, host.python3>>
  IN  /\ Chosen(Python, {})
      /\ Return(Python, IF host.detected THEN OfTwo(answers, Answered(answers))
                        ELSE Verdict("None"))
      /\ UNCHANGED host

RemoveDuplicates(s) ==
  FoldLeft(LAMBDA kept, x : IF x \in Range(kept) THEN kept ELSE Append(kept, x), <<>>, s)

PythonEnvDependencies ==
  LET answers == <<host.pip, host.pip3>>
  IN  /\ Chosen(PythonDependencies, {})
      /\ Return(PythonDependencies,
           IF host.detected
           THEN OfTwo(answers, RemoveDuplicates(FlattenSeq(Answered(answers))))
           ELSE Verdict("None"))
      /\ UNCHANGED host

RemovePyVersionPatch(version) ==
  IF Len(version) > 2 THEN SubSeq(version, 1, 2) ELSE version

\* The numbers a version starts with.
Leading(text) ==
  SelectInSeq(text \o <<Bad>>, LAMBDA part : part = Bad) - 1

\* The pattern is not anchored: names that end in "newrelic" match.
EndsInNewRelic == {"newrelic", "django-newrelic"}
IsAgent(package) == package[1] \in EndsInNewRelic /\ Leading(package[2]) > 0

GetNewRelicAgent(packages) ==
  LET first == SelectInSeq(packages, IsAgent)
  IN  IF first = 0 THEN None
      ELSE SubSeq(packages[first][2], 1, Leading(packages[first][2]))

PythonSupported(version) ==
  RemovePyVersionPatch(version) \in DOMAIN PythonVersionAgentSupportability
PythonOutcome(version, agent) ==
  VersionIsCompatible(agent,
    <<PythonVersionAgentSupportability[RemovePyVersionPatch(version)]>>)

AllMustBeSupported(versions, agent) ==
  IF \A v \in Range(versions) : PythonSupported(v) /\ PythonOutcome(v, agent) = "yes"
  THEN Verdict("Success") ELSE Verdict("Failure")
\* The warning is written for versions that are not in the table, but returned
\* only when there is one that needs another agent.
PythonVerdict(versions, agent) ==
  LET known == {v \in Range(versions) : PythonSupported(v)}
      supported == {v \in known : PythonOutcome(v, agent) = "yes"}
      otherAgent == {v \in known : PythonOutcome(v, agent) = "no"}
  IN  CASE \E v \in known : PythonOutcome(v, agent) = "error" -> Verdict("Error")
        [] supported = {} -> Verdict("Failure")
        [] supported # {} /\ otherAgent # {} -> Telling("Warning", otherAgent)
        [] OTHER -> Verdict("Success")

PythonRequirementsPythonVersion ==
  LET version == Upstream(Python)
      dependencies == Upstream(PythonDependencies)
      agent == GetNewRelicAgent(dependencies.payload)
  IN  /\ Chosen(PythonCompatible, {Python, PythonDependencies})
      /\ Return(PythonCompatible,
           CASE version.status = "Error" \/ dependencies.status = "Error" -> Verdict("None")
             [] ~(version.status = "Error" \/ dependencies.status = "Error")
                /\ ~(Holds(version) /\ Holds(dependencies)) -> Verdict("Error")
             [] OTHER -> IF agent = None THEN Verdict("Error")
                         ELSE PythonVerdict(version.payload, agent))
      /\ UNCHANGED host

CheckWebframework(packages) ==
  IF \E p \in Range(packages) : /\ p[1] \in DOMAIN SupportedFrameworks
                                /\ VersionIsCompatible(p[2], <<SupportedFrameworks[p[1]]>>) = "yes"
  THEN "Success" ELSE "Warning"

PythonRequirementsWebframework ==
  LET dependencies == Upstream(PythonDependencies)
  IN  /\ Chosen(Frameworks, {PythonDependencies})
      /\ Return(Frameworks, Verdict(
           IF dependencies.status # "Info" THEN "None" ELSE CheckWebframework(dependencies.payload)))
      /\ UNCHANGED host

-----------------------------------------------------------------------------
(* Ruby *)

RubyEnvVersion ==
  /\ Chosen(Ruby, {})
  /\ Return(Ruby,
       CASE ~host.detected -> Verdict("None")
         [] host.detected /\ host.ruby = Failed -> Verdict("Error")
         [] OTHER -> With("Info", host.ruby))
  /\ UNCHANGED host

SanitizeRubyVersion(version) ==
  CASE version[1] >= 2 -> SubSeq(version, 1, 2)
    [] version[1] = 1 -> SubSeq(version, 1, 3)
    [] OTHER -> version

FirstGemDecides(version, gems) ==
  IF CheckCompatibility(ParseVersion(gems[1]), <<RubyVersionAgentSupportability[version]>>) = "yes"
  THEN "Success" ELSE "Failure"
GemsVerdict(version, gems) ==
  LET compatible ==
        {i \in DOMAIN gems : CheckCompatibility(ParseVersion(gems[i]),
                               <<RubyVersionAgentSupportability[version]>>) = "yes"}
  IN  CASE compatible = DOMAIN gems -> "Success"
        [] compatible = {} -> "Failure"
        [] OTHER -> "Warning"

RubyVerdict(ruby, gems) ==
  LET version == SanitizeRubyVersion(ruby)
  IN  CASE ruby = Other -> "Error"
        [] ruby # Other /\ version \notin DOMAIN RubyVersionAgentSupportability -> "Failure"
        [] OTHER -> GemsVerdict(version, gems)

RubyRequirementsVersion ==
  /\ Chosen(RubyCompatible, {Ruby})
  /\ Return(RubyCompatible, Verdict(
       IF Upstream(Ruby).status # "Info" \/ host.gems = None THEN "None"
       ELSE RubyVerdict(Upstream(Ruby).payload, host.gems)))
  /\ UNCHANGED host

-----------------------------------------------------------------------------
(* .NET Core *)

\* dotnet --info: every line of its lists, a line without a version as <<>>.
FromInfo == IF host.info = Failed THEN <<>> ELSE RemoveDuplicates(host.info)
FromVersion == IF host.dotnet \in {Failed, Other} THEN <<>> ELSE <<host.dotnet>>

IsSdkName(text) == Len(text) = 3 /\ Parses(text)
SdkNames == FlattenSeq([i \in DOMAIN host.sdk |->
              IF host.sdk[i].state = "listed" THEN SelectSeq(host.sdk[i].names, IsSdkName) ELSE <<>>])
\* A directory that cannot be read: the versions of the others are dropped.
GetVerFromDir ==
  IF \E i \in DOMAIN host.sdk : host.sdk[i].state = "unreadable" THEN <<>> ELSE SdkNames

SkipsDotnetVersion == IF FromInfo # <<>> THEN FromInfo ELSE GetVerFromDir
\* The sources in turn, until one gives a version.
CheckVersions ==
  CASE FromInfo # <<>> -> FromInfo
    [] FromInfo = <<>> /\ FromVersion # <<>> -> FromVersion
    [] OTHER -> GetVerFromDir

AlwaysInfo ==
  /\ Chosen(Core, {})
  /\ Return(Core, With("Info", CheckVersions))
  /\ UNCHANGED host
DotNetCoreEnvVersions ==
  /\ Chosen(Core, {})
  /\ Return(Core,
       CASE ~host.envVars -> Verdict("None")
         [] host.envVars /\ CheckVersions = <<>> -> Verdict("Error")
         [] OTHER -> With("Info", CheckVersions))
  /\ UNCHANGED host

MajorMinor(v) == <<v.Major, v.Minor>>

CheckCoreVersionsAreSupported(versions) ==
  LET parsed == {v \in Range(versions) : Parses(v)}
      unsupported == {v \in parsed : MajorMinor(ParseVersion(v)) \notin DotnetCoreSupportedVersions}
  IN  CASE parsed = {} -> Verdict("Error")
        [] parsed # {} /\ unsupported = {} -> Verdict("Success")
        [] OTHER -> Telling("Warning", unsupported)

DotNetCoreRequirementsVersion ==
  /\ Chosen(CoreCompatible, {Core})
  /\ Return(CoreCompatible,
       IF ~host.detected \/ Upstream(Core).status # "Info" THEN Verdict("None")
       ELSE CheckCoreVersionsAreSupported(Upstream(Core).payload))
  /\ UNCHANGED host

-----------------------------------------------------------------------------

Done == DOMAIN results = Tasks /\ UNCHANGED vars

Next ==
  \/ NodeEnvVersion \/ NodeEnvVersionCompatibility
  \/ PythonEnvVersion \/ PythonEnvDependencies
  \/ PythonRequirementsPythonVersion \/ PythonRequirementsWebframework
  \/ RubyEnvVersion \/ RubyRequirementsVersion
  \/ DotNetCoreEnvVersions \/ DotNetCoreRequirementsVersion
  \/ Done

Spec == Init /\ [][Next]_vars /\ WF_vars(Next)

-----------------------------------------------------------------------------
(* Properties *)

TypeOK ==
  /\ host \in Host /\ process = "running"
  /\ DOMAIN results \subseteq Tasks
  /\ \A t \in DOMAIN results : results[t].status \in Status
  /\ Holds(Upstream(Core)) => Upstream(Core).payload # <<>>

Ended(t, s) == Upstream(t).status = s

\* Node/Env/VersionCompatibility: success means an even version of the table with
\* an agent in its interval, "odd versions are considered unstable/experimental
\* releases", and nothing outside of the table or the interval is a success.
NodeByInterval ==
  /\ Ended(NodeCompatible, "Success") =>
       /\ host.node[1] \in DOMAIN NodeSupportedVersions
       /\ Within(ParseVersion(host.nodeAgent), NodeSupportedVersions[host.node[1]])
  /\ Ended(NodeCompatible, "Failure") =>
       /\ host.node[1] % 2 = 0
       /\ host.node[1] \in DOMAIN NodeSupportedVersions =>
            ~Within(ParseVersion(host.nodeAgent), NodeSupportedVersions[host.node[1]])

Interpreters == Range(Answered(<<host.python, host.python3>>))
WorksWith(version, agent) ==
  /\ PythonSupported(version)
  /\ Within(ParseVersion(agent), PythonVersionAgentSupportability[RemovePyVersionPatch(version)])

\* Python/Requirements/PythonVersion: "None of your versions of Python (%s) are
\* supported" is said exactly when it is true of the agent found, and a warning
\* names every interpreter that needs another agent.
PythonByInterval ==
  LET agent == GetNewRelicAgent(Upstream(PythonDependencies).payload)
  IN  Upstream(PythonCompatible).status \in {"Success", "Warning", "Failure"} =>
        /\ Ended(PythonCompatible, "Failure") <=> ~\E v \in Interpreters : WorksWith(v, agent)
        /\ Ended(PythonCompatible, "Warning") =>
             Upstream(PythonCompatible).told
               = {v \in Interpreters : PythonSupported(v) /\ ~WorksWith(v, agent)}
        /\ Ended(PythonCompatible, "Success") =>
             \A v \in Interpreters : PythonSupported(v) => WorksWith(v, agent)

\* Python/Env/Version and Python/Env/Dependencies: one of two commands that fails
\* does not keep the answer of the other from being checked.
OtherCommandCounts ==
  /\ PythonCompatible \in DOMAIN results /\ host.detected
  /\ Interpreters # {} /\ {host.pip, host.pip3} # {Failed}
  => ~Ended(PythonCompatible, "None")

\* Ruby/Requirements/Version, with several versions of the gem: a success means
\* all of them, a failure none, a warning some.
RubyByInterval ==
  LET Fits(i) == Within(ParseVersion(host.gems[i]),
                   RubyVersionAgentSupportability[SanitizeRubyVersion(host.ruby)])
      known == SanitizeRubyVersion(host.ruby) \in DOMAIN RubyVersionAgentSupportability
  IN  /\ Ended(RubyCompatible, "Success") => \A i \in DOMAIN host.gems : Fits(i)
      /\ Ended(RubyCompatible, "Failure") /\ known => \A i \in DOMAIN host.gems : ~Fits(i)
      /\ Ended(RubyCompatible, "Warning") => \E i, j \in DOMAIN host.gems : Fits(i) /\ ~Fits(j)

\* DotNetCore/Env/Versions: "Unable to determine .NET core version using any
\* method" only when no method had one.
CoreErrorMeansNoSource ==
  Ended(Core, "Error") => FromInfo = <<>> /\ FromVersion = <<>> /\ GetVerFromDir = <<>>

=============================================================================
