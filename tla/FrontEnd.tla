------------------------------ MODULE FrontEnd ------------------------------
(***************************************************************************)
(* A run of nrdiag around the tasks: the command line and the environment, *)
(* the proxy, the overrides, a script of the catalog, the goroutine that   *)
(* selects the tasks, and what is asked and sent at the end. Diagnostics   *)
(* has what stands between: the tasks, the results and the archive.        *)
(*                                                                         *)
(* A flag that holds a list is a sequence of its parts.                    *)
(***************************************************************************)
EXTENDS Naturals, Sequences, SequencesExt, FiniteSets, TLC

CONSTANTS
  Suite,       \* identifiers of suites
  TasksOf,     \* the tasks the patterns of a suite select
  Task,        \* the identifiers that -t may name, each with its dependencies
  Key,         \* Base/Config/ValidateLicenseKey
  Invocation,  \* see InvocationType
  None

BrowserTask == "Browser/Agent/Detect"
AllTasks == Task \cup {BrowserTask} \cup UNION {TasksOf[s] : s \in Suite}
Regions == {"us", "eu", "jp"}
Proxies == {None, "good", "noProtocol", "malformed"}

\* form: "pair" for Task.key=value, "equals" when the value has an equals sign
\* too, "" for an empty part, "other" when there is no equals sign or no dot.
Overrides == [form : {"pair", "equals", "", "other"}, value : {"set", "url"}]

\* The arguments: the suite one names, and the names of suites, as -suites spells
\* them, that are a part of it. at: the place of the last name of the -suites that
\* counts, the last of several.
InvocationType ==
  [proxy : Proxies, http_proxy : Proxies, https_proxy : {None, "good"}, override : Seq(Overrides),
   browserURL : {None, "plain", "equals"},
   tasks : Seq([id : Task \cup {""}, spaced : BOOLEAN]), suites : Seq(Suite \cup {"", "unknown"}),
   args : Seq([suite : Suite \cup {None}, holds : SUBSET Suite]), at : Nat,
   region : Regions \cup {None}, env : Regions \cup {None}, endpoint : {None, "http", "https"},
   mode : {"diagnose", "help", "version", "versionQuiet", "listScripts"},
   script : BOOLEAN, run : BOOLEAN, yes : BOOLEAN, upload : {"no", "attach", "api-key"},
   usageOptOut : BOOLEAN, skipVersionCheck : BOOLEAN,
   before : SUBSET {"out", "file"}] \* what an earlier run of the script left

\* The names of an invocation's -suites, as places in its list: blank parts are
\* dropped.
NamesOf(i) == {n \in DOMAIN i.suites : i.suites[n] # ""}
LastOf(i) == i.suites[Max(NamesOf(i))]

\* What -suites holds is one of the arguments.
ValueInArgs(i) == i.at \in DOMAIN i.args /\ LastOf(i) \in i.args[i.at].holds

ASSUME FrontEndAssumption ==
  /\ TasksOf \in [Suite -> SUBSET AllTasks]
  /\ "" \notin Suite /\ "unknown" \notin Suite /\ None \notin Suite
  /\ Invocation \subseteq InvocationType
  /\ \A i \in Invocation :
       NamesOf(i) # {} /\ Range(i.suites) \subseteq Suite \cup {""} => ValueInArgs(i)

VARIABLES
  inv,        \* the command line and the environment
  pc,         \* where main is
  exit,       \* "running", an exit code, or "panic"
  registrar,  \* the goroutine of processTasksToRun: "off", "running", "done"
  queue,      \* the tasks selected
  orphans,    \* the suites it calls out of place
  httpProxy,  \* HTTP_PROXY as the process has it
  region,     \* where each kind of request goes
  applied,    \* the overrides handed to the tasks
  requests,   \* what was sent, and how
  disk,       \* files of the script, each "old" or "new"
  script,     \* what the script printed and the files it made; None before
  zip,        \* its files in the archive
  told        \* messages of consequence

vars == <<inv, pc, exit, registrar, queue, orphans, httpProxy, region, applied, requests, disk,
          script, zip, told>>
front == <<httpProxy, region, applied>>
files == <<disk, script, zip>>

Init ==
  /\ inv \in Invocation
  /\ pc = "flags" /\ exit = "running" /\ registrar = "off" /\ queue = {} /\ orphans = {}
  /\ httpProxy = inv.http_proxy /\ region = [k \in {} |-> "us"] /\ applied = <<>> /\ requests = {}
  /\ disk = [f \in inv.before |-> "old"] /\ script = None
  /\ zip = [f \in {} |-> "old"] /\ told = {}

At(place) == exit = "running" /\ pc = place
Goto(place) == pc' = place /\ UNCHANGED exit
Exit(code) == exit' = code /\ UNCHANGED pc

\* Of the addresses only those of the versions are plain http, and what
\* -attachment-endpoint may give.
Scheme(k) ==
  CASE k \in {"version", "download"} -> "http"
    [] k = "upload" /\ inv.endpoint # None -> inv.endpoint
    [] OTHER -> "https"

\* The transport looks the proxy up by the scheme: HTTP_PROXY or HTTPS_PROXY.
ProxyFromEnvironment(k) == IF Scheme(k) = "http" THEN httpProxy ELSE inv.https_proxy

Sent(kinds) ==
  requests' = requests \cup {[to |-> k,
                              via |-> IF ProxyFromEnvironment(k) = None THEN "direct" ELSE "proxied",
                              region |-> IF k \in DOMAIN region THEN region[k] ELSE None] : k \in kinds}

-----------------------------------------------------------------------------
(* config.ParseFlags *)

ParseRegionFlagAndEnv ==
  CASE inv.region # None -> inv.region
    [] inv.region = None /\ inv.env # None -> inv.env
    [] OTHER -> "us"

\* -attachment-endpoint takes the place of the endpoint of the region.
UsageOnly == [k \in {"usage", "upload"} |-> IF k = "usage" THEN ParseRegionFlagAndEnv ELSE "us"]
Endpoints ==
  [k \in {"usage", "upload"} |->
     IF k = "upload" /\ inv.endpoint # None THEN "given" ELSE ParseRegionFlagAndEnv]

OverrideFlag ==
  IF inv.browserURL = None THEN inv.override
  ELSE <<[form |-> IF inv.browserURL = "plain" THEN "pair" ELSE "equals", value |-> "url"]>>
         \o IF inv.override = <<>> THEN <<[form |-> "", value |-> "set"]>> ELSE inv.override
TasksFlag ==
  IF inv.browserURL = None THEN inv.tasks
  ELSE <<[id |-> BrowserTask, spaced |-> FALSE]>> \o inv.tasks

ParseFlags ==
  /\ At("flags") /\ Goto("proxy")
  /\ region' = Endpoints
  /\ UNCHANGED <<inv, registrar, queue, orphans, httpProxy, applied, requests, files, told>>

-----------------------------------------------------------------------------
(* The proxy and the overrides *)

ValidateHTTPProxy(p) ==
  CASE p = "noProtocol" -> "fatal" [] p = "malformed" -> "error" [] OTHER -> "good"

\* -proxy is written to HTTP_PROXY, which is then looked at.
Proxy == IF inv.proxy # None THEN inv.proxy ELSE inv.http_proxy

GoesOn ==
  /\ At("proxy") /\ Goto("overrides")
  /\ httpProxy' = Proxy
  /\ UNCHANGED <<inv, registrar, queue, orphans, region, applied, requests, files, told>>

FlagDropped ==
  /\ At("proxy")
  /\ CASE ValidateHTTPProxy(Proxy) = "fatal" -> Exit("1")
       [] ValidateHTTPProxy(Proxy) = "error" -> Exit("3")
       [] OTHER -> Goto("overrides")
  /\ UNCHANGED <<inv, registrar, queue, orphans, httpProxy, region, applied, requests, files, told>>

ProcessHTTPProxy ==
  /\ At("proxy")
  /\ CASE ValidateHTTPProxy(Proxy) = "fatal" -> Exit("1") /\ UNCHANGED httpProxy
       [] ValidateHTTPProxy(Proxy) = "error" -> Exit("3") /\ UNCHANGED httpProxy
       [] OTHER -> Goto("overrides") /\ httpProxy' = Proxy
  /\ UNCHANGED <<inv, registrar, queue, orphans, region, applied, requests, files, told>>

\* A list that starts with an empty part is no list.
WellFormed ==
  IF OverrideFlag # <<>> /\ OverrideFlag[1].form = "" THEN {}
  ELSE {i \in DOMAIN OverrideFlag : OverrideFlag[i].form \in {"pair", "equals"}}

\* The overrides by their places; a value ends at its next equals sign.
ParseOverrides ==
  [i \in WellFormed |-> [value |-> OverrideFlag[i].value, whole |-> OverrideFlag[i].form = "pair"]]

\* The debug message names the first override.
ProcessOverrides ==
  /\ At("overrides")
  /\ applied' = ParseOverrides
  /\ IF OverrideFlag # <<>> /\ WellFormed = {} THEN Exit("panic") ELSE Goto("client")
  /\ UNCHANGED <<inv, registrar, queue, orphans, httpProxy, region, requests, files, told>>

-----------------------------------------------------------------------------
(* The version, the catalog and its scripts *)

\* The base URL of the client is that of the region.
InitializeClient ==
  /\ At("client") /\ Goto("modes")
  /\ region' = [k \in DOMAIN region \cup {"haberdasher"} |->
                  IF k = "haberdasher" THEN ParseRegionFlagAndEnv ELSE region[k]]
  /\ UNCHANGED <<inv, registrar, queue, orphans, httpProxy, applied, requests, files, told>>

\* For newrelic-cli: 0 when the version is current or not known, 1 when it is old.
VersionForCLI ==
  /\ At("modes") /\ inv.mode = "versionQuiet"
  /\ Sent({"version"}) /\ \E code \in {"0", "1"} : Exit(code)
  /\ UNCHANGED <<inv, registrar, queue, orphans, front, files, told>>

PrintScriptList ==
  /\ At("modes") /\ inv.mode = "listScripts"
  /\ Sent({"catalog"}) /\ \E code \in {"0", "1"} : Exit(code)
  /\ UNCHANGED <<inv, registrar, queue, orphans, front, files, told>>

NoScript ==
  /\ At("modes") /\ inv.mode \notin {"versionQuiet", "listScripts"} /\ ~inv.script
  /\ Goto("start")
  /\ UNCHANGED <<inv, registrar, queue, orphans, front, requests, files, told>>

\* The catalog cannot be read or does not have the script, or its content
\* cannot be fetched; without -run the content is only shown.
ProcessScript ==
  /\ At("modes") /\ inv.mode \notin {"versionQuiet", "listScripts"} /\ inv.script
  /\ Sent({"catalog"})
  /\ Exit("1") \/ (IF inv.run THEN Goto("script") ELSE Exit("0"))
  /\ UNCHANGED <<inv, registrar, queue, orphans, front, files, told>>

\* The file of the script, under a name of its own, is removed only after a
\* run that worked.
Kept(d) == d
Written(d, new) == [f \in DOMAIN d \cup new |-> IF f \in new THEN "new" ELSE d[f]]
Removed(d) == [f \in DOMAIN d \ {"script"} |-> d[f]]

RunScript ==
  /\ At("script")
  /\ \E made \in SUBSET {"file"}, saved, worked, prints \in BOOLEAN :
       LET during == Written(disk, IF saved THEN {"script"} \cup made ELSE {})
       IN  IF saved /\ worked
           THEN /\ Goto("output") /\ disk' = Removed(during)
                /\ script' = [prints |-> prints, found |-> DOMAIN during \cap {"file"}]
           ELSE Exit("1") /\ disk' = during /\ UNCHANGED script
  /\ UNCHANGED <<inv, registrar, queue, orphans, front, requests, zip, told>>

\* A file of that name is overwritten after a yes only, and it may not be writable.
WriteScriptOutputFile ==
  /\ At("output") /\ Goto("start")
  /\ \/ script.prints /\ disk' = Written(disk, {"out"})
     \/ UNCHANGED disk
  /\ UNCHANGED <<inv, registrar, queue, orphans, front, requests, script, zip, told>>

-----------------------------------------------------------------------------
(* The goroutine that selects the tasks *)

StartRegistrar ==
  /\ At("start") /\ Goto("dispatch")
  /\ registrar' = "running"
  /\ UNCHANGED <<inv, queue, orphans, front, requests, files, told>>

\* Blank parts are dropped, a part with a space is no identifier of a task.
ProcessFlagsTasks == {i.id : i \in {j \in Range(TasksFlag) : j.id # "" /\ ~j.spaced}}

Known == {n \in DOMAIN inv.suites : inv.suites[n] \in Suite}
SuiteIdentifiers == NamesOf(inv)
MatchedSuites == {inv.suites[n] : n \in SuiteIdentifiers} \cap Suite
UnmatchedSuites == {inv.suites[n] : n \in SuiteIdentifiers} \ Suite

\* The arguments after one that has the last suite in it.
CaptureOutOfPlaceArgs ==
  LET after == {n \in DOMAIN inv.args :
                  \E m \in DOMAIN inv.args : m < n /\ LastOf(inv) \in inv.args[m].holds}
  IN  {inv.args[n].suite : n \in after} \ {None}

MatchedOnly == UnmatchedSuites = {}
Accepted == UnmatchedSuites = {} /\ CaptureOutOfPlaceArgs = {}

NotForScripts == registrar' = IF inv.run THEN "running" ELSE "done"
CompleteTaskRegistration == registrar' = "done"

\* The queue is closed in the end, which lets the tasks start.
ProcessTasksToRun ==
  /\ exit = "running" /\ registrar = "running"
  /\ CASE TasksFlag # <<>> ->
            queue' = ProcessFlagsTasks /\ CompleteTaskRegistration /\ UNCHANGED <<exit, orphans, told>>
       [] TasksFlag = <<>> /\ inv.suites # <<>> ->
            IF SuiteIdentifiers = {}
            THEN exit' = "panic" /\ UNCHANGED <<registrar, queue, orphans, told>>
            ELSE /\ orphans' = CaptureOutOfPlaceArgs
                 /\ IF Accepted
                    THEN /\ queue' = UNION {TasksOf[s] : s \in MatchedSuites}
                         /\ CompleteTaskRegistration /\ UNCHANGED <<exit, told>>
                    ELSE exit' = "1" /\ told' = told \cup {"suites"} /\ UNCHANGED <<registrar, queue>>
       [] OTHER ->
            /\ queue' = IF inv.run THEN {} ELSE AllTasks
            /\ CompleteTaskRegistration /\ UNCHANGED <<exit, orphans, told>>
  /\ UNCHANGED <<inv, pc, front, requests, files>>

-----------------------------------------------------------------------------
(* What main does meanwhile and after the tasks *)

\* Main does not wait for the goroutine here.
Help ==
  /\ At("dispatch") /\ inv.mode = "help" /\ Exit("0")
  /\ UNCHANGED <<inv, registrar, queue, orphans, front, requests, files, told>>

ProcessVersion ==
  /\ At("dispatch") /\ inv.mode = "version" /\ Exit("0")
  /\ \/ UNCHANGED requests
     \/ ~inv.skipVersionCheck /\ (Sent({"version"}) \/ Sent({"version", "download"}))
  /\ UNCHANGED <<inv, registrar, queue, orphans, front, files, told>>

\* The tasks read the queue until it is closed.
RunTasks ==
  /\ At("dispatch") /\ inv.mode = "diagnose" /\ registrar = "done"
  /\ Goto("archive")
  /\ IF Key \in queue THEN Sent({"haberdasher"}) \/ UNCHANGED requests ELSE UNCHANGED requests
  /\ UNCHANGED <<inv, registrar, queue, orphans, front, files, told>>

CopyAll ==
  /\ At("archive") /\ Goto("uploads")
  /\ zip' = IF script = None THEN zip ELSE [f \in {"out"} \cup script.found |-> "new"]
  /\ UNCHANGED <<inv, registrar, queue, orphans, front, requests, disk, script, told>>

PrintedOnly ==
  /\ At("archive") /\ Goto("uploads")
  /\ zip' = IF script = None \/ "out" \notin DOMAIN disk THEN zip ELSE [f \in {"out"} |-> disk[f]]
  /\ UNCHANGED <<inv, registrar, queue, orphans, front, requests, disk, script, told>>

\* The output file first; the first that is not there ends the copying, and the
\* user is told.
CopyScriptOutputsToZip ==
  /\ At("archive") /\ Goto("uploads")
  /\ CASE script = None -> UNCHANGED <<zip, told>>
       [] script # None /\ "out" \notin DOMAIN disk ->
            told' = told \cup {"scriptFiles"} /\ UNCHANGED zip
       [] OTHER -> zip' = [f \in {"out"} \cup script.found |-> disk[f]] /\ UNCHANGED told
  /\ UNCHANGED <<inv, registrar, queue, orphans, front, requests, disk, script>>

\* A key of the API, else the license keys that were found valid. The second
\* result of the task tells why not; the third is one with an overridden status and
\* a payload of another type, which is told to nobody.
CheckAttachmentFlags ==
  CASE inv.upload = "api-key" -> Sent({"upload"}) /\ UNCHANGED told
    [] inv.upload = "attach" /\ Key \in queue ->
         \/ Sent({"upload"}) /\ UNCHANGED told
         \/ told' = told \cup {"noKeys"} /\ UNCHANGED requests
         \/ DOMAIN applied # {} /\ UNCHANGED <<requests, told>>
    [] OTHER -> UNCHANGED <<requests, told>>

ProcessUploads ==
  /\ At("uploads") /\ Goto("usage")
  /\ \/ (inv.yes \/ inv.upload # "no") /\ CheckAttachmentFlags
     \/ ~inv.yes /\ inv.upload # "no" /\ told' = told \cup {"declined"} /\ UNCHANGED requests
     \/ ~inv.yes /\ inv.upload = "no" /\ UNCHANGED <<requests, told>>
  /\ UNCHANGED <<inv, registrar, queue, orphans, front, files>>

SendUsageData ==
  /\ At("usage") /\ Goto("check")
  /\ IF inv.usageOptOut THEN UNCHANGED requests ELSE Sent({"usage"})
  /\ UNCHANGED <<inv, registrar, queue, orphans, front, files, told>>

AutoVersionCheck ==
  /\ At("check") /\ Exit("0")
  /\ IF inv.skipVersionCheck THEN UNCHANGED requests ELSE Sent({"version"})
  /\ UNCHANGED <<inv, registrar, queue, orphans, front, files, told>>

Main ==
  \/ ParseFlags \/ ProcessHTTPProxy \/ ProcessOverrides \/ InitializeClient
  \/ VersionForCLI \/ PrintScriptList \/ NoScript \/ ProcessScript \/ RunScript
  \/ WriteScriptOutputFile \/ StartRegistrar \/ Help \/ ProcessVersion \/ RunTasks
  \/ CopyScriptOutputsToZip \/ ProcessUploads \/ SendUsageData \/ AutoVersionCheck

Exited == exit # "running" /\ UNCHANGED vars

Next == Main \/ ProcessTasksToRun \/ Exited

\* The scheduler runs both goroutines; requests have timeouts, a script ends and
\* the user answers or closes the input.
Spec == Init /\ [][Next]_vars /\ WF_vars(Main) /\ WF_vars(ProcessTasksToRun)

-----------------------------------------------------------------------------
(* Properties *)

Services == {"usage", "upload", "haberdasher"}

\* The state is well formed, and what is in the archive is on the disk.
TypeOK ==
  /\ inv \in Invocation /\ exit \in {"running", "panic", "0", "1", "3"}
  /\ registrar \in {"off", "running", "done"}
  /\ queue \subseteq AllTasks /\ orphans \subseteq Suite
  /\ httpProxy \in Proxies /\ Range(disk) \subseteq {"old", "new"}
  /\ \A f \in DOMAIN zip : f \in DOMAIN disk /\ zip[f] = disk[f]
  /\ \A r \in requests : r.to \in Services \cup {"version", "download", "catalog"}

\* A proxy given, by flag or environment, that is of no use ends the run with
\* nothing sent (core.go:25).
UnusableProxyStops == ValidateHTTPProxy(Proxy) # "good" => requests = {}

\* The proxy given takes what goes by plain http, whatever HTTPS_PROXY says.
PlainRequestsProxied ==
  Proxy # None => \A r \in requests : Scheme(r.to) = "http" => r.via = "proxied"

\* The data of an account stays in its region: the usage data, the files and the
\* questions about license keys go to the same one (config.go:280).
OneRegion ==
  \A r, s \in requests :
    {r.to, s.to} \subseteq Services /\ "given" \notin {r.region, s.region} => r.region = s.region

\* What is sent follows the proxy, as far as it is one for plain http, and goes to
\* one region.
RequestsAsAsked == TypeOK /\ UnusableProxyStops /\ PlainRequestsProxied /\ OneRegion

\* When -suites selects the tasks, they run only if each name in it was understood
\* and no argument after it names a suite, as behind a blank between two names.
MisplacedSuitesTold ==
  pc \in {"archive", "uploads", "usage", "check"} /\ TasksFlag = <<>> /\ inv.suites # <<>> =>
    /\ \A n \in NamesOf(inv) : inv.suites[n] \in Suite /\ TasksOf[inv.suites[n]] \subseteq queue
    /\ \A n \in DOMAIN inv.args : n > inv.at => inv.args[n].suite = None

\* The file of a script stays only when the script failed, and then the run ends
\* with nothing sent but the requests for the script (scriptrunner.go:80).
ScriptLeftByFailureOnly ==
  "script" \in DOMAIN disk => exit = "1" /\ \A r \in requests : r.to = "catalog"

\* Main panics only over overrides without a pair in front ("Check for an empty
\* override", coreHelper.go:30) and the goroutine over -suites of blank parts,
\* before the tasks run and with nothing sent but the requests for a script.
PanicHasCause ==
  exit = "panic" =>
    /\ \/ pc = "overrides" /\ (OverrideFlag[1].form = "" \/ \A i \in DOMAIN OverrideFlag : OverrideFlag[i].form \notin {"pair", "equals"})
       \/ pc = "dispatch" /\ TasksFlag = <<>> /\ Range(inv.suites) = {""}
    /\ \A r \in requests : r.to = "catalog"

\* The files that a script made are in the archive or the user is told that they
\* are not, as when it has printed nothing and the first file is not there.
ScriptFilesAccounted ==
  pc \in {"uploads", "usage", "check"} /\ script # None =>
    script.found \subseteq DOMAIN zip \/ "scriptFiles" \in told

\* No file of a script is left on the disk, or out of the archive, untold.
FilesAccounted == ScriptLeftByFailureOnly /\ ScriptFilesAccounted

\* The run ends, however the two goroutines interleave.
RunEnds == <>(exit # "running")

=============================================================================
