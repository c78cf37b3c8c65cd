------------------------------ MODULE JavaTasks ------------------------------
(***************************************************************************)
(* Java processes and what the Java agent needs of them: the tasks of      *)
(* java/env, java/jvm and java/appserver in src/tasks, and of java/config  *)
(* those that look at running processes and at the types of settings.      *)
(*                                                                         *)
(* Processes may end between two tasks. The results of Java/Config/Agent   *)
(* (see AgentDetection), Base/Env/CollectEnvVars, Base/Env/CollectSysProps *)
(* and Base/Log/Copy (see BaseLog) are part of the host. In the text of a  *)
(* version "_" is a dot.                                                   *)
(***************************************************************************)
EXTENDS TaskFamily, Versions, SequencesExt, FiniteSetsExt

CONSTANTS
  Host, None, Failed,
  Stdout  \* in place of a log file

VARIABLE running  \* the java processes that have not ended

Path == Seq(STRING)  \* the names of a path, from the root
Setting == {"app_name", "log_file_name", "license_key"}
Settings == [Setting -> STRING]  \* the empty text for none
Bits == SUBSET {"r", "w", "x"}
File == [uid : Nat, gid : Nat, owner : Bits, group : Bits, other : Bits]
\* A version in the name of the directory, or in a readme.
Home == [named : Text \cup {None}, readme : Text \cup {None}]
\* What java -version prints.
Answer == [vendor : STRING \cup {None}, version : Text \cup {None}] \cup {Failed}

Proc ==
  [cmdline : BOOLEAN,                          \* can be read
   exe : BOOLEAN,                              \* names a java executable
   own : Answer,                               \* of that executable to -version
   vendor : STRING \cup {None},                \* told by the arguments
   version : Text \cup {None, Failed},         \* Failed: an argument without one
   mentions : BOOLEAN,                         \* contains "-javaagent"
   agents : Seq({"newrelic", "other"}),        \* its javaagent: arguments
   user : [uid : Nat, gid : Nat] \cup {Failed},
   jar : Path, temp : Path \cup {None}, javaTemp : Path \cup {None},
   cwd : Path \cup {Failed},
   file : Path \cup {None},                    \* newrelic.config.file
   props : Seq([key : Setting, val : STRING]), \* newrelic.config.*, in order
   jboss : Home \cup {None}]                    \* its jboss.home.dir

HostType ==
  [os : {"linux", "windows", "darwin"},
   selected : SUBSET STRING,                     \* with those they depend on
   config : BOOLEAN, infra : BOOLEAN,            \* Java/Config/Agent, Infra/Config/Agent
   procs : Seq(Proc), listed : BOOLEAN,
   path : Answer,                                \* of the java in the PATH
   files : UNION {[p -> File] : p \in SUBSET Path},
   jars : SUBSET Path,                           \* where temporary jars are
   logs : Seq(Path \cup {Stdout}),               \* directories, by Base/Log/Copy
   configs : Seq([path : Path, found : BOOLEAN,  \* by Base/Config/Validate
                  production : Settings]),
   environ : Settings,
   typed : Seq([kind : STRING, value : STRING]), \* of the first file
   codes : Seq(Seq(Nat \cup {Bad})),             \* its list of status codes
   home : Home \cup {None},                      \* JBOSS_HOME
   search : {"found", "undetected", "failed"},   \* for a home of JBoss EAP
   eap : Text \cup {None, Failed},               \* the version file in its home
   dirs : BOOLEAN,                               \* working directory or that of nrdiag
   websphere : Seq(Text \cup {None})]            \* its files, by the version they tell

vars == <<host, results, process, running>>

EnvProcess == "Java/Env/Process"
EnvVersion == "Java/Env/Version"
Validate == "Java/Config/Validate"
ValidateSettings == "Java/Config/ValidateSettings"
Vendors == "Java/JVM/VendorsVersions"
Permissions == "Java/JVM/Permissions"
JBossAs == "Java/Appserver/JBossAsCheck"
JbossEap == "Java/Appserver/JbossEapCheck"
WebSphere == "Java/AppServer/WebSphere"

\* Registered on this system.
All ==
  {EnvProcess, EnvVersion, Validate, ValidateSettings, Vendors, JBossAs, JbossEap, WebSphere}
    \cup (IF host.os = "windows" THEN {} ELSE {Permissions})

Tasks == host.selected \cap All

Init == host \in Host /\ NothingRun /\ running = DOMAIN host.procs

RunIf(there, t, dependencies, r) ==
  /\ t \in Tasks
  /\ Ready(t, dependencies)
  /\ Return(t, IF there THEN r ELSE Verdict("None"))
  /\ UNCHANGED <<host, running>>

ProcessEnds ==
  /\ process = "running" /\ Tasks \ DOMAIN results # {}
  /\ \E p \in running : running' = running \ {p}
  /\ UNCHANGED <<host, results, process>>

First(s) == CHOOSE i \in s : \A j \in s : i <= j

-----------------------------------------------------------------------------
(* Processes with the agent *)

Mentioning == {p \in running : host.procs[p].cmdline /\ host.procs[p].mentions}
FirstForeign == {p \in Mentioning : host.procs[p].agents # <<>> /\ host.procs[p].agents[1] = "other"}
Foreign == {p \in Mentioning : host.procs[p].agents # <<>> /\ Last(host.procs[p].agents) = "other"}
\* The text has "-javaagent", but no argument has "javaagent:".
Unsplit == {p \in Mentioning : host.procs[p].agents = <<>>}

\* Of several processes the first that is not as expected decides.
JavaEnvProcess ==
  /\ EnvProcess \in Tasks /\ Ready(EnvProcess, {})
  /\ LET odd == Foreign \cup Unsplit
     IN  IF host.config /\ host.listed /\ odd # {} /\ First(odd) \in Unsplit THEN Panic
         ELSE Return(EnvProcess,
                CASE ~host.config -> Verdict("None")
                  [] host.config /\ ~host.listed -> Verdict("Error")
                  [] host.config /\ host.listed /\ running = {} -> Verdict("Warning")
                  [] OTHER -> IF odd # {} \/ Mentioning = {} THEN Verdict("Failure")
                              ELSE With("Success", Mentioning))
  /\ UNCHANGED <<host, running>>

Paired == Upstream(EnvProcess).payload
Started == Upstream(EnvProcess).status = "Success"

JavaEnvVersion ==
  RunIf(host.config \/ host.infra, EnvVersion, {},
    IF host.path = Failed THEN Verdict("Warning") ELSE With("Info", host.path))

-----------------------------------------------------------------------------
(* The settings a process runs with *)

NoSettings == [s \in Setting |-> ""]
Production(i) == host.configs[i].production

\* The parent of the working directory, of a working directory that cannot be
\* read the one of the jar, is compared to the file's directory.
WorkingDir(p) == IF host.procs[p].cwd = Failed THEN Front(host.procs[p].jar) ELSE Front(host.procs[p].cwd)
ConfigDir(i) ==
  LET dir == Front(host.configs[i].path)
  IN  IF dir # <<>> /\ Last(dir) = "newrelic" THEN Front(dir) ELSE dir
MatchConfig(p) ==
  {i \in DOMAIN host.configs : host.configs[i].found /\ ConfigDir(i) = WorkingDir(p)}

\* A file that is named is read, found or not; without one for its directory the
\* newrelic.yml beside the jar is.
MatchConfigFile(p) ==
  LET At(path) == {i \in DOMAIN host.configs : host.configs[i].path = path}
      beside == At(Append(Front(host.procs[p].jar), "newrelic.yml"))
      named == At(host.procs[p].file)
      chosen == IF host.procs[p].file # None THEN named
                ELSE IF MatchConfig(p) # {} THEN MatchConfig(p) ELSE beside
  IN  IF chosen = {} THEN NoSettings ELSE Production(First(chosen))

UpdateSysValues(p, settings) ==
  FoldLeft(LAMBDA s, prop : [s EXCEPT ![prop.key] = prop.val], settings, host.procs[p].props)

UpdateEnvValues(settings) ==
  [s \in Setting |-> IF host.environ[s] # "" THEN host.environ[s] ELSE settings[s]]

EnvironmentFirst(p) == UpdateSysValues(p, UpdateEnvValues(MatchConfigFile(p)))
ValidatedConfig(p) == UpdateEnvValues(UpdateSysValues(p, MatchConfigFile(p)))

\* No file found is no payload of Base/Config/Validate.
JavaConfigValidate ==
  RunIf(Started /\ \E i \in DOMAIN host.configs : host.configs[i].found, Validate, {EnvProcess},
    With("Success", [p \in Paired |-> ValidatedConfig(p)]))

-----------------------------------------------------------------------------
(* The types of settings *)

\* A value of the file: a type, or for a text what it can be read as.
Accepted ==
  [Integer |-> {"nil", "int", "integer"},
   Float |-> {"nil", "float", "int", "integer", "decimal"},
   Boolean |-> {"nil", "bool", "true"},
   AppName |-> {"true", "integer", "decimal", "apdex_f", "labels", "word"},
   LabelList |-> {"nil", "map", "labels"},
   LogLevel |-> {"nil", "level"},
   TransactionThreshold |-> {"nil", "float", "int", "apdex_f"}]

\* A boolean that is neither one nor a text is asserted to be a text.
AssertsText(setting) == setting.kind = "Boolean" /\ setting.value \in {"int", "float", "map"}

\* One number or two, the second greater, none above 1000.
ValidRange(range) ==
  /\ Len(range) <= 2
  /\ \A i \in DOMAIN range : range[i] # Bad /\ range[i] <= 1000
  /\ Len(range) = 2 => range[1] < range[2]
ValidateStatusCodeList(codes) == \A n \in DOMAIN codes : ValidRange(codes[n])

\* Only the first file is looked at.
JavaConfigValidateSettings ==
  /\ ValidateSettings \in Tasks /\ Ready(ValidateSettings, {})
  /\ IF host.config /\ (\E s \in Range(host.typed) : AssertsText(s)) THEN Panic
     ELSE Return(ValidateSettings, Verdict(
            CASE ~host.config -> "None"
              [] host.config /\ ValidateStatusCodeList(host.codes)
                 /\ (\A s \in Range(host.typed) : s.value \in Accepted[s.kind]) -> "Success"
              [] OTHER -> "Warning"))
  /\ UNCHANGED <<host, running>>

-----------------------------------------------------------------------------
(* Vendors and versions of the machines that run *)

SupportedJavaVersions ==
  [v \in {"OpenJDK", "Zulu", "Zing", "OpenJ9"} |->
     <<Between(<<1, 8>>, <<1, 9, Star>>),
       Between(<<8>>, <<CASE v = "OpenJDK" -> 18 [] v = "Zulu" -> 12 [] v = "Zing" -> 11 [] OTHER -> 13, Star>>)>>]
  @@ "HotSpot" :> <<Exactly(<<1, 8, Star>>), Between(<<8>>, <<20, Star>>)>>
  @@ "Coretto" :> <<Exactly(<<1, 8, Star>>), Exactly(<<8, Star>>), Exactly(<<11, Star>>), Exactly(<<17, Star>>)>>
  @@ "IBM" :> <<Exactly(<<1, 8, Star>>), Exactly(<<8, Star>>)>>
  @@ "Oracle" :> <<Exactly(<<1, 5, Star>>), Exactly(<<5, 0, Star>>)>>
  @@ "Dragonwell" :> <<Exactly(<<1, 8, Star>>), Exactly(<<8, Star>>), Exactly(<<11, Star>>)>>

SupportedForJavaAgentLegacy ==
  "Apple" :> <<Exactly(<<1, 6, Star>>), Exactly(<<6, Star>>)>>
  @@ "OpenJDK" :> <<Exactly(<<1, 7, Star>>), Exactly(<<7, Star>>)>>
  @@ "IBM" :> <<Between(<<1, 6>>, <<1, 7, Star>>), Between(<<6>>, <<7, Star>>)>>
  @@ "HotSpot" :> <<Between(<<1, 5>>, <<1, 7, Star>>), Between(<<5>>, <<7, Star>>)>>
  @@ "JRockit" :> <<Between(<<1>>, <<1, 6, 0, 50>>)>>

Needs == [Apple |-> "darwin", IBM |-> "linux"]
OnItsSystem(vendor) == vendor \in DOMAIN Needs => host.os = Needs[vendor]
InTable(table, vendor, version) ==
  vendor \in DOMAIN table /\ VersionIsCompatible(version, table[vendor]) = "yes"

DetermineSupportability(vendor, version) ==
  CASE OnItsSystem(vendor) /\ InTable(SupportedJavaVersions, vendor, version) -> "full"
    [] OnItsSystem(vendor) /\ InTable(SupportedForJavaAgentLegacy, vendor, version) -> "legacy"
    [] OTHER -> "no"

Told(answer) == answer # Failed /\ answer.vendor # None /\ answer.version # None

\* The java of the PATH answers for an executable that fails.
ByExe(p) ==
  IF host.procs[p].own = Failed THEN host.path ELSE host.procs[p].own
ByArgs(p) == [vendor |-> host.procs[p].vendor, version |-> host.procs[p].version]

OnlyByExe(p) == IF host.procs[p].exe THEN ByExe(p) ELSE ByArgs(p)
VendorDetails(p) ==
  IF host.procs[p].exe /\ Told(ByExe(p)) THEN ByExe(p) ELSE ByArgs(p)

Described(p) == host.procs[p].cmdline /\ Told(VendorDetails(p))
PIDInfo(p) ==
  [by |-> VendorDetails(p),
   supported |-> IF Described(p) THEN DetermineSupportability(VendorDetails(p).vendor, VendorDetails(p).version)
                 ELSE "no"]

\* The arguments name a version that no pattern matches; it is asked for after
\* their vendor.
VersionFirst(p) == host.procs[p].version = Failed
BadArgument(p) ==
  /\ host.procs[p].cmdline /\ host.procs[p].vendor # None /\ host.procs[p].version = Failed
  /\ ~(host.procs[p].exe /\ Told(ByExe(p)))

BestOf(infos) ==
  IF \E p \in DOMAIN infos : infos[p].supported = "full" THEN "Success" ELSE "Failure"
WorstOf(infos) ==
  CASE \E p \in DOMAIN infos : infos[p].supported = "no" -> "Failure"
    [] \A p \in DOMAIN infos : infos[p].supported = "full" -> "Success"
    [] OTHER -> "Warning"

JavaJVMVendorsVersions ==
  /\ Vendors \in Tasks /\ Ready(Vendors, {})
  /\ IF host.listed /\ (\E p \in running : BadArgument(p)) THEN Panic
     ELSE Return(Vendors,
            CASE ~host.listed -> Verdict("Error")
              [] host.listed /\ running = {} -> Verdict("None")
              [] OTHER -> LET infos == [p \in running |-> PIDInfo(p)] IN With(WorstOf(infos), infos))
  /\ UNCHANGED <<host, running>>

-----------------------------------------------------------------------------
(* Permissions of a process with the agent *)

OwnerOrPublic(user, file) == IF user.uid = file.uid THEN "owner" ELSE "public"
Class(user, file) ==
  CASE user.uid = file.uid -> "owner"
    [] user.uid # file.uid /\ user.gid = file.gid -> "group"
    [] OTHER -> "public"

\* The patterns are not anchored: what they look for may be further to the right.
CanRead(class, f) ==
  \/ "r" \in f.other /\ (class = "owner" => "x" \notin f.group)
  \/ class = "group" /\ "r" \in f.group
  \/ class = "owner" /\ ("r" \in f.owner \/ ("r" \in f.group /\ "x" \notin f.owner))
CanCreate(class, d) ==
  CASE class = "owner" -> {"w", "x"} \subseteq d.owner \/ {"w", "x"} \subseteq d.group
    [] class = "group" -> {"w", "x"} \subseteq d.group
    [] OTHER -> {"w", "x"} \subseteq d.other

Exists(path) == path \in DOMAIN host.files
Known(p) == p \in running /\ host.procs[p].user # Failed
ClassOf(p, path) == Class(host.procs[p].user, host.files[path])

DetermineJarPermissions(p) ==
  LET jar == host.procs[p].jar
  IN  IF Exists(jar) /\ Known(p) /\ CanRead(ClassOf(p, jar), host.files[jar])
      THEN "granted" ELSE "denied"

\* The last directory of the logs, of whatever process they are; where it does not
\* exist the one of the jar.
LogDir(p) ==
  LET home == Front(host.procs[p].jar)
      dir == IF host.logs = <<>> THEN Append(home, "logs") ELSE Last(host.logs)
  IN  IF Exists(dir) THEN dir ELSE home

DetermineLogPermissions(p) ==
  CASE Stdout \in Range(host.logs) -> "granted"
    [] Stdout \notin Range(host.logs) /\ ~(Exists(LogDir(p)) /\ Known(p)) -> "undetermined"
    [] OTHER -> IF CanCreate(ClassOf(p, LogDir(p)), host.files[LogDir(p)]) THEN "granted" ELSE "denied"

TempDir(p) ==
  CASE host.procs[p].temp # None -> host.procs[p].temp
    [] host.procs[p].temp = None /\ host.procs[p].javaTemp # None -> host.procs[p].javaTemp
    [] OTHER -> <<"tmp">>

DetermineTmpDirPermissions(p) ==
  LET dir == TempDir(p)
  IN  CASE ~(Exists(dir) /\ Known(p)) -> "denied"
        [] Exists(dir) /\ Known(p) /\ ~CanCreate(ClassOf(p, dir), host.files[dir]) -> "denied"
        [] OTHER -> IF dir \in host.jars THEN "granted" ELSE "undetermined"

JavaAgentPermissions(p) ==
  [jar |-> DetermineJarPermissions(p), log |-> DetermineLogPermissions(p),
   temp |-> DetermineTmpDirPermissions(p)]

PermissionsVerdict(levels) ==
  LET Some(level) == \E p \in DOMAIN levels : level \in Range(levels[p])
  IN  CASE Some("denied") -> "Failure"
        [] ~Some("denied") /\ Some("undetermined") -> "Warning"
        [] OTHER -> "Success"

JavaJVMPermissions ==
  RunIf(Started, Permissions, {EnvProcess},
    LET levels == [p \in Paired |-> JavaAgentPermissions(p)] IN With(PermissionsVerdict(levels), levels))

-----------------------------------------------------------------------------
(* Servers *)

Supported(version, requirement) ==
  Verdict(CASE VersionIsCompatible(version, <<requirement>>) = "error" -> "Error"
            [] VersionIsCompatible(version, <<requirement>>) = "yes" -> "Success"
            [] OTHER -> "Failure")

JBossRange == Between(<<4, 0, 5>>, <<7, Star>>)
InHome(home) ==
  LET version == IF home.named # None THEN home.named ELSE home.readme
  IN  IF version = None THEN Verdict("Error") ELSE Supported(version, JBossRange)

WithJBoss == {p \in running : host.procs[p].cmdline /\ host.procs[p].jboss # None}

JavaAppserverJBossAsCheck ==
  RunIf(Started, JBossAs, {EnvProcess},
    CASE host.home # None -> InHome(host.home)
      [] host.home = None /\ ~host.listed -> Verdict("Error")
      [] host.home = None /\ host.listed /\ WithJBoss = {} -> Verdict("None")
      [] OTHER -> InHome(host.procs[First(WithJBoss)].jboss))

WholeVersion(version) == Supported(version, AtLeast(<<6>>))
VersionCheckJBoss(version) == Supported(SubSeq(version, 1, 1), AtLeast(<<6>>))

ReadVersionFile ==
  CASE host.eap = None -> Verdict("Warning")
    [] host.eap = Failed -> Verdict("Error")
    [] OTHER -> VersionCheckJBoss(host.eap)

JavaAppserverJbossEapCheck ==
  RunIf(host.config, JbossEap, {},
    CASE host.home # None \/ (host.os # "darwin" /\ host.search = "found") -> ReadVersionFile
      [] host.home = None /\ host.os # "darwin" /\ host.search = "failed" -> Verdict("Error")
      [] OTHER -> Verdict("None"))

\* "7.0-9" ends with the version 9.
WebSphereRange == Between(<<7, 0>>, <<9>>)

JavaAppServerWebSphere ==
  LET telling == {i \in DOMAIN host.websphere : host.websphere[i] # None}
  IN  RunIf(TRUE, WebSphere, {},
        CASE ~host.dirs -> Verdict("Error")
          [] host.dirs /\ host.websphere = <<>> -> Verdict("None")
          [] host.dirs /\ host.websphere # <<>> /\ telling = {} -> Verdict("Warning")
          [] OTHER -> Supported(host.websphere[First(telling)], WebSphereRange))

-----------------------------------------------------------------------------

Done == (process = "panicked" \/ DOMAIN results = Tasks) /\ UNCHANGED vars

Next ==
  \/ JavaEnvProcess \/ JavaEnvVersion
  \/ JavaConfigValidate \/ JavaConfigValidateSettings
  \/ JavaJVMVendorsVersions \/ JavaJVMPermissions
  \/ JavaAppserverJBossAsCheck \/ JavaAppserverJbossEapCheck \/ JavaAppServerWebSphere
  \/ ProcessEnds \/ Done

Spec == Init /\ [][Next]_vars /\ WF_vars(Next)

-----------------------------------------------------------------------------
(* Properties *)

Ended(t, s) == t \in DOMAIN results /\ results[t].status = s

\* A process that Java/Env/Process hands on has the agent as its last one, and those
\* after it have an element for each of these processes (permissions_nix.go:124).
TypeOK ==
  /\ host \in Host /\ running \subseteq DOMAIN host.procs
  /\ process \in {"running", "panicked"}
  /\ DOMAIN results \subseteq Tasks
  /\ \A t \in DOMAIN results : results[t].status \in Status
  /\ Started => Paired # {} /\ \A p \in Paired : Last(host.procs[p].agents) = "newrelic"
  /\ \A t \in {Validate, Permissions} : Holds(Upstream(t)) => DOMAIN Upstream(t).payload = Paired

Latest(p, s) == {i \in DOMAIN host.procs[p].props : host.procs[p].props[i].key = s}

\* Java/Config/Validate hands on "the valid running config for each Process": a setting
\* of the environment goes before the last argument that sets it, the argument
\* before the file (validate.go:97-119).
SettingsInEffect ==
  Holds(Upstream(Validate)) =>
    \A p \in Paired, s \in Setting :
      LET value == Upstream(Validate).payload[p][s]
      IN  CASE host.environ[s] # "" -> value = host.environ[s]
            [] host.environ[s] = "" /\ Latest(p, s) # {} -> value = host.procs[p].props[Max(Latest(p, s))].val
            [] OTHER -> value = MatchConfigFile(p)[s]

\* Java/JVM/VendorsVersions: a process "fully supported by the latest version of the
\* Java Agent" is in an interval of its vendor, and "We only support IBM in Linux
\* environment" (vendorsVersions.go:502), whoever told vendor and version.
VendorsByInterval ==
  Ended(Vendors, "Success") =>
    \A p \in DOMAIN results[Vendors].payload :
      LET by == results[Vendors].payload[p].by
      IN  /\ Told(by) /\ by.vendor \in DOMAIN SupportedJavaVersions
          /\ \E r \in Range(SupportedJavaVersions[by.vendor]) : Within(ParseVersion(by.version), r)
          /\ by.vendor = "IBM" => host.os = "linux"

\* "fallback: get vendor details by parsing cmd line args" (vendorsVersions.go:101):
\* a process whose arguments tell both is never unknown.
ArgumentsTell ==
  Holds(Upstream(Vendors)) =>
    \A p \in DOMAIN Upstream(Vendors).payload :
      host.procs[p].cmdline /\ Told(ByArgs(p)) => Told(Upstream(Vendors).payload[p].by)

\* The bits of the first class that the user of a process is of, which are the only
\* ones the system looks at.
OwnBits(p, f) ==
  CASE host.procs[p].user.uid = f.uid -> f.owner
    [] host.procs[p].user.uid # f.uid /\ host.procs[p].user.gid = f.gid -> f.group
    [] OTHER -> f.other

\* A jar "does not have permissions" (permissions_nix.go:422) for a process that ended, one
\* without a known user, or one whose class may not read it.
DeniedHasCause ==
  Holds(Upstream(Permissions)) =>
    \A p \in Paired :
      Upstream(Permissions).payload[p].jar = "denied" /\ Exists(host.procs[p].jar) /\ Known(p) =>
        "r" \notin OwnBits(p, host.files[host.procs[p].jar])

\* "Supported versions are 4.0.5 to AS 7.x" (jbossas.go), "we only care about the major
\* version" (jbosseap.go:232): the verdicts are those of the intervals.
ServersByInterval ==
  /\ Ended(JBossAs, "Success") /\ host.home # None =>
       \E v \in {host.home.named, host.home.readme} \ {None} : Within(ParseVersion(v), JBossRange)
  /\ Ended(JbossEap, "Error") =>
       host.eap = Failed \/ host.search = "failed" \/ host.eap[1] = Bad
  /\ Ended(JbossEap, "Failure") => host.eap[1] < 6
  /\ Ended(JbossEap, "Success") => host.eap[1] >= 6

\* Nothing recovers from a panic in a task: one has its cause in an argument of a
\* process or in a setting, validateSettings_validators.go:110.
PanicHasCause ==
  process = "panicked" =>
    \/ \E p \in DOMAIN host.procs : host.procs[p].mentions /\ host.procs[p].agents = <<>>
    \/ \E p \in DOMAIN host.procs : /\ host.procs[p].vendor # None /\ host.procs[p].version = Failed
                                    /\ ~Told(host.procs[p].own)
    \/ \E s \in Range(host.typed) : AssertsText(s)

=============================================================================
