---------------------------- MODULE ConfigFiles ----------------------------
(***************************************************************************)
(* The tasks that find and read configuration files: Base/Config/Collect,  *)
(* Validate, AppName, ValidateHSM and LogLevel. Files may be removed or    *)
(* locked by others between the tasks.                                     *)
(***************************************************************************)
EXTENDS TaskFamily, Sequences, SequencesExt, FiniteSets

CONSTANTS
  Path,      \* paths of files and directories
  Extension, \* what filepath.Ext says of a path
  Kind,      \* "web", "exe", "monitor" or "other": what the secure patterns see
  Modules,   \* the paths below a node_modules directory
  Fragile,   \* bound: the paths others remove or lock during the run
  Host,      \* what Collect may meet, see HostType
  Disk,      \* what the paths may be at first, see DiskType
  Name, DefaultName,
  None,      \* no path, no name
  Blank      \* a name that is set to the empty text

AppNameSources == {"NEW_RELIC_APP_NAME", "-Dnewrelic.config.app_name"}

Extensions == {"yml", "xml", "json", "js", "ini", "none"}
Switch == {"true", "false", "odd", "absent"}

HostType ==
  [override : Path \cup {None}, \* the option configFile
   standard : SUBSET Path,      \* matches of patterns in the standard places
   secure : SUBSET Path,        \* matches of secureFilePatterns
   agentPath : Path \cup {None},\* the path an app.config names
   sysProps : Seq(Path),        \* -Dnewrelic.config.file of the JVMs
   envVars : Seq(Path),         \* the values of configEnvVarKeys
   inside : SUBSET Path,        \* matches of patterns in a directory
   noConfigVar : BOOLEAN, hsmEnv : Switch,
   appEnv : Name \cup {None}, \* NEW_RELIC_APP_NAME
   appProps : Seq(Name \cup {None, Blank})] \* appNameSysProp of the JVMs, in their order

\* App names are those under the first key of appNameConfigKeys that is there.
ContentType ==
  [parses : BOOLEAN, app : Seq([common : BOOLEAN, names : Seq(Name)]),
   hsm : Switch, levels : Seq({"finest", "info", "odd"})]
DiskType == [Path -> [state : {"missing", "dir", "locked", "file"}, content : ContentType]]

\* What the values of the constants must be.
ConfigFilesAssumption ==
  /\ Extension \in [Path -> Extensions]
  /\ Kind \in [Path -> {"web", "exe", "monitor", "other"}]
  /\ Modules \subseteq Path /\ Fragile \subseteq Path /\ DefaultName \subseteq Name
  /\ IsFiniteSet(Path) /\ Host \subseteq HostType /\ Disk \subseteq DiskType
  /\ None \notin Path \cup Name /\ Blank \notin Name \cup {None}
  /\ AppNameSources \cap Path = {}

VARIABLES
  disk,   \* [state, content] of each path
  asked,  \* the answers to the prompts of Collect: the files refused
  named   \* the paths the summary of Collect says it could not collect

vars == <<host, disk, asked, named, results, process>>

Collect == "Base/Config/Collect"
Validate == "Base/Config/Validate"
AppName == "Base/Config/AppName"
ValidateHSM == "Base/Config/ValidateHSM"
LogLevel == "Base/Config/LogLevel"

Init ==
  /\ host \in Host
  /\ disk \in Disk
  /\ \A p \in host.standard \cup host.secure \cup host.inside : disk[p].state \in {"locked", "file"}
  /\ asked = {} /\ named = {}
  /\ NothingRun

-----------------------------------------------------------------------------
(* Base/Config/Collect *)

ValidatePath(p) == disk[p].state = "file"

AddUnasked(acc, p) == [acc EXCEPT !.found = Append(@, p)]

SkipUnusable(acc, p) ==
  IF ValidatePath(p) THEN [acc EXCEPT !.found = Append(@, p)] ELSE acc

\* The summary names the path as given; what is missing, locked or no file is
\* named, what is known already is not taken twice.
AppendToInvalidOrFoundConfigs(acc, p) ==
  CASE disk[p].state = "missing" -> [acc EXCEPT !.invalid = @ \cup {p}]
    [] disk[p].state = "dir" ->
         [acc EXCEPT !.found = @ \o SetToSeq(host.inside \ Range(@))]
    [] disk[p].state \in {"locked", "file"} /\ p \in Range(acc.found) -> acc
    [] disk[p].state = "locked" /\ p \notin Range(acc.found) ->
         [acc EXCEPT !.invalid = @ \cup {p}]
    [] OTHER -> [acc EXCEPT !.found = Append(@, p)]

\* The expression for web.config and app.config is anchored at both ends and is
\* given the whole path, which FindFiles makes from a directory: only the one
\* for .exe.config matches, the status monitors' files included.
IsFileWithNETAgentConfigPath(p) == Kind[p] \in {"exe", "monitor"}

\* "" stands for the path of an error: it is the empty string.
GetNETAgentConfigPathFromFile(p) ==
  CASE ~ValidatePath(p) \/ ~disk[p].content.parses -> "error"
    [] host.agentPath = None -> "no path"
    [] disk[host.agentPath].state \in {"missing", "dir"} -> "error"
    [] OTHER -> "path"

\* One file of the secure patterns: the path it names first, then itself,
\* unless the user refuses it.
AddSecureConfig(acc, p) ==
  LET net == IF IsFileWithNETAgentConfigPath(p)
             THEN GetNETAgentConfigPathFromFile(p) ELSE "no path"
      named0 == IF net = "path" THEN [acc EXCEPT !.found = Append(@, host.agentPath)]
                ELSE [acc EXCEPT !.errors = @ \/ net = "error"]
  IN  IF p \in asked' THEN named0 ELSE [named0 EXCEPT !.found = Append(@, p)]

FoundInPlaces == [found |-> SetToSeq(host.standard), invalid |-> {}, errors |-> FALSE]
Secure == SetToSeq(host.secure)
Given == host.sysProps \o host.envVars

FoundConfigs ==
  LET places[i \in 0..Len(Secure)] ==
        IF i = 0 THEN FoundInPlaces ELSE AddSecureConfig(places[i - 1], Secure[i])
      all[i \in 0..Len(Given)] ==
        IF i = 0 THEN places[Len(Secure)] ELSE AppendToInvalidOrFoundConfigs(all[i - 1], Given[i])
  IN  all[Len(Given)]

IsConfigFileInPathToIgnore(p) == p \in Modules

\* With -c only that file is looked at.
CollectOverride ==
  /\ host.override # None
  /\ asked' = asked
  /\ IF ValidatePath(host.override)
     THEN Return(Collect, With("Success", <<host.override>>)) /\ UNCHANGED named
     ELSE Return(Collect, Verdict("Warning")) /\ named' = {host.override}

CollectSearch ==
  /\ host.override = None
  /\ \E refused \in SUBSET {p \in host.secure : Kind[p] # "monitor"} : asked' = refused
  /\ LET all == FoundConfigs
         kept == Among(all.found, {p \in Path : ~IsConfigFileInPathToIgnore(p)})
     IN  /\ named' = all.invalid \cup asked'
         /\ Return(Collect,
              CASE all.found # <<>> -> With("Success", kept)
                [] all.found = <<>> /\ (all.invalid # {} \/ all.errors) -> Verdict("Warning")
                [] all.found = <<>> /\ all.invalid = {} /\ ~all.errors ->
                     Verdict(IF host.noConfigVar THEN "Warning" ELSE "Failure"))

BaseConfigCollect ==
  /\ Ready(Collect, {})
  /\ CollectOverride \/ CollectSearch
  /\ UNCHANGED <<host, disk>>

-----------------------------------------------------------------------------
(* Base/Config/Validate *)

NothingParsed == [parses |-> FALSE, app |-> <<>>, hsm |-> "absent", levels |-> <<>>]

\* The errors of the parsers of .js and .ini files are dropped.
ReportsErrors(p) == Extension[p] \in {"yml", "xml", "json"}

Element(p, s, c) == [config |-> p, status |-> s, parsed |-> c]
ParsedAsCollected(p) == Element(p, "Success", disk[p].content)

ProcessConfig(p) ==
  CASE ~ValidatePath(p) -> Element(p, "Failure", NothingParsed)
    [] ValidatePath(p) /\ ~disk[p].content.parses ->
         Element(p, IF ReportsErrors(p) THEN "Failure" ELSE "Success", NothingParsed)
    [] OTHER -> Element(p, "Success", disk[p].content)

\* Files of another extension are left out, unless they cannot be opened: the
\* extension is looked at afterwards.
Validated(configs) ==
  LET known == Among(configs, {p \in Path : ~ValidatePath(p) \/ Extension[p] # "none"})
  IN  [i \in 1..Len(known) |-> ProcessConfig(known[i])]

NoPayloadOnWarning(elements) ==
  IF \E i \in 1..Len(elements) : elements[i].status = "Failure"
  THEN Verdict("Warning") ELSE With("Success", elements)

\* Of unknown files alone, none succeeds and none fails: a warning.
ValidationResult(elements) ==
  LET Has(s) == \E i \in 1..Len(elements) : elements[i].status = s
  IN  CASE Has("Failure") /\ ~Has("Success") -> Verdict("Failure")
        [] Has("Success") /\ ~Has("Failure") -> With("Success", elements)
        [] OTHER -> With("Warning", elements)

BaseConfigValidate ==
  /\ Ready(Validate, {Collect})
  /\ LET collected == Upstream(Collect)
     IN  Return(Validate,
           CASE collected.status # "Success" -> Verdict("None")
             [] collected.status = "Success" /\ ~Holds(collected) -> Verdict("Error")
             [] OTHER -> IF collected.payload = <<>> THEN Verdict("None")
                         ELSE ValidationResult(Validated(collected.payload)))
  /\ UNCHANGED <<host, disk, asked, named>>

-----------------------------------------------------------------------------
(* Base/Config/AppName *)

\* The names below the first match, one with "common" in its path if there is.
FindPrimaryNameKeyInConfigFile(c) ==
  IF \E i \in 1..Len(c.app) : c.app[i].common
  THEN Among(c.app, {m \in Range(c.app) : m.common})[1]
  ELSE IF c.app = <<>> THEN [common |-> FALSE, names |-> <<>>] ELSE c.app[1]

GetAppNamesFromConfig(elements) ==
  FlattenSeq([i \in 1..Len(elements) |->
    LET names == FindPrimaryNameKeyInConfigFile(elements[i].parsed).names
    IN  [j \in 1..Len(names) |-> [name |-> names[j], file |-> elements[i].config]]])

\* The first process that has the property ends the search, with a blank value too.
GetAppNameFromSysProps ==
  LET having == {k \in 1..Len(host.appProps) : host.appProps[k] # None}
      first == CHOOSE k \in having : \A m \in having : k <= m
  IN  IF having = {} \/ host.appProps[first] = Blank THEN None ELSE host.appProps[first]

\* The environment wins over system properties, these over configuration files.
GivenAppName ==
  IF host.appEnv # None THEN [name |-> host.appEnv, file |-> "NEW_RELIC_APP_NAME"]
  ELSE [name |-> GetAppNameFromSysProps, file |-> "-Dnewrelic.config.app_name"]

AppNamesOfFiles(validated) ==
  LET infos == GetAppNamesFromConfig(validated.payload)
  IN  CASE ~HasPayload(validated) -> Verdict("None")
        [] HasPayload(validated) /\ ~Holds(validated) -> Verdict("Error")
        [] OTHER ->
             IF infos = <<>> \/ \E i \in 1..Len(infos) : infos[i].name \in DefaultName
             THEN Verdict("Warning") ELSE With("Success", infos)

BaseConfigAppName ==
  /\ Ready(AppName, {Validate})
  /\ Return(AppName, IF GivenAppName.name # None THEN With("Success", <<GivenAppName>>)
                     ELSE AppNamesOfFiles(Upstream(Validate)))
  /\ UNCHANGED <<host, disk, asked, named>>

-----------------------------------------------------------------------------
(* Base/Config/ValidateHSM *)

\* No key, or a value that is no Boolean, is an implicit false.
GetHSMConfiguration(element) == element.parsed.hsm = "true"

\* The variable of the environment counts when it parses as a Boolean.
GetHSMConfigurations(elements) ==
  {[source |-> None, on |-> v = "true"] : v \in {host.hsmEnv} \cap {"true", "false"}} \cup
  {[source |-> elements[i].config, on |-> GetHSMConfiguration(elements[i])] : i \in 1..Len(elements)}

BaseConfigValidateHSM ==
  /\ Ready(ValidateHSM, {Validate})
  /\ LET validated == Upstream(Validate)
         settings == GetHSMConfigurations(IF Holds(validated) THEN validated.payload ELSE <<>>)
     IN  Return(ValidateHSM, IF settings = {} THEN Verdict("None") ELSE With("Info", settings))
  /\ UNCHANGED <<host, disk, asked, named>>

-----------------------------------------------------------------------------
(* Base/Config/LogLevel *)

LevelAsStatus(level) == level

\* Each file, and each key of it, overwrites the verdict of those before.
LevelVerdict(level) ==
  CASE level = "finest" -> "Success" [] level = "info" -> "Warning" [] OTHER -> "Error"

BaseConfigLogLevel ==
  /\ Ready(LogLevel, {Validate})
  /\ LET validated == Upstream(Validate)
         last == Last(validated.payload).parsed.levels
     IN  Return(LogLevel, Verdict(
           CASE ~HasPayload(validated) -> "None"
             [] HasPayload(validated) /\ ~Holds(validated) -> "Error"
             [] OTHER -> IF validated.payload = <<>> THEN "None"
                         ELSE IF last = <<>> THEN "Failure" ELSE LevelVerdict(Last(last))))
  /\ UNCHANGED <<host, disk, asked, named>>

-----------------------------------------------------------------------------
\* The application or its owner removes or locks a file while tasks run.
FileChanges ==
  /\ process = "running"
  /\ \E p \in Fragile, s \in {"missing", "locked"} :
       /\ disk[p].state = "file"
       /\ disk' = [disk EXCEPT ![p].state = s]
  /\ Validate \notin DOMAIN results
  /\ UNCHANGED <<host, asked, named, results, process>>

Done ==
  /\ {Collect, Validate, AppName, ValidateHSM, LogLevel} \subseteq DOMAIN results
  /\ UNCHANGED vars

Next ==
  \/ BaseConfigCollect
  \/ BaseConfigValidate
  \/ BaseConfigAppName
  \/ BaseConfigValidateHSM
  \/ BaseConfigLogLevel
  \/ FileChanges
  \/ Done

Spec == Init /\ [][Next]_vars

-----------------------------------------------------------------------------
Taken == Range(Upstream(Collect).payload)
NamedByHost == Range(host.sysProps) \cup Range(host.envVars)
Searched == Collect \in DOMAIN results /\ host.override = None

TypeOK ==
  /\ host \in Host /\ asked \subseteq Path /\ named \subseteq Path
  /\ \A p \in Path : disk[p].state \in {"missing", "dir", "locked", "file"}
  /\ \A t \in DOMAIN results : results[t].status \in Status
  /\ process = "running"

\* A path given by a system property or an environment variable is collected,
\* skipped because it is below node_modules, or named in the summary; of a
\* directory this holds for each file that matches (collect.go:178-203 and
\* appendToInvalidOrFoundConfigs, over every way Execute returns).
EveryPathAccounted ==
  Searched =>
    \A p \in NamedByHost \cup UNION {host.inside : q \in {q \in NamedByHost : disk[q].state = "dir"}} :
      \/ disk[p].state = "dir" \/ p \in Modules \/ p \in named
      \/ Holds(results[Collect]) /\ p \in Taken

\* A file is collected twice only when it is the agent configuration that an
\* app.config names, or has a name of both kinds: every other source looks for it
\* among those found first (collect.go:182 does not, appendToInvalidOrFoundConfigs
\* does).
TakenOnce ==
  Collect \in DOMAIN results /\ Holds(results[Collect]) =>
    LET taken == results[Collect].payload
    IN  \A i, j \in 1..Len(taken) :
          taken[i] = taken[j] /\ i # j => taken[i] \in {host.agentPath} \cup (host.standard \cap host.secure)

\* What the user keeps out of the archive stays out, unless another source leads
\* to it that nobody is asked about: a system property or an environment variable,
\* an app.config, or a name that is also one of an agent's configuration
\* (PromptUser in collect.go:190).
RefusedOnlyByName ==
  Searched /\ Holds(results[Collect]) =>
    asked \cap Taken \subseteq NamedByHost \cup {host.agentPath} \cup host.standard \cup host.inside

\* Whatever Validate returns, its dependents can use: no type assertion of
\* theirs fails (the agreement on payloads in tasks.go:18 and HasPayload).
AssertionsHold ==
  \A t \in {Validate, AppName, ValidateHSM} \cap DOMAIN results : results[t].status # "Error"

\* "This env var will overwrite all config files setting for app name", a system
\* property "takes precedence over config files" (appname.go:77,86): an app name
\* that is not a variable's or a JVM's comes from a file that was read and parsed,
\* even if files go or become unreadable after they were collected, and then neither
\* the environment nor the first JVM with the property names another.
NamesByPrecedence ==
  AppName \in DOMAIN results /\ Holds(results[AppName]) =>
    \A i \in 1..Len(results[AppName].payload) :
      LET info == results[AppName].payload[i]
          FromFile(j) ==
            LET element == results[Validate].payload[j]
            IN  /\ element.config = info.file /\ element.status = "Success"
                /\ disk[info.file].state = "file" /\ disk[info.file].content.parses
      IN  CASE host.appEnv # None ->
                 info = [name |-> host.appEnv, file |-> "NEW_RELIC_APP_NAME"]
            [] host.appEnv = None /\ info.file \in AppNameSources ->
                 \E k \in 1..Len(host.appProps) :
                   /\ host.appProps[k] = info.name /\ info.name \in Name
                   /\ \A m \in 1..(k - 1) : host.appProps[m] = None
            [] OTHER ->
                 /\ \E j \in 1..Len(results[Validate].payload) : FromFile(j)
                 /\ \A k \in 1..Len(host.appProps) :
                      host.appProps[k] \in Name =>
                        \E m \in 1..(k - 1) : host.appProps[m] = Blank

=============================================================================
