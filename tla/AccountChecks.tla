--------------------------- MODULE AccountChecks ---------------------------
(***************************************************************************)
(* The tasks that talk to New Relic about the account: license keys, their *)
(* validation and regions, the proxy, and the connections to the two       *)
(* collectors. They share the environment of the process, which            *)
(* ProxyDetect changes and the HTTP transport reads.                       *)
(***************************************************************************)
EXTENDS TaskFamily, Sequences, SequencesExt, FiniteSets

CONSTANTS
  Key,          \* values of license keys
  Format,       \* "valid", "quoted" (valid without its quotes) or "short"
  Region,       \* the region in a key, "us01" when it has none
  File,         \* configuration files
  FileType,     \* "yml", "infra" (newrelic-infra.yml), "ini" or "other"
  Host,         \* what the tasks may find, see HostType
  None          \* no value

HostType ==
  [elements : Seq(File) \cup {None}, \* the payload of Base/Config/Validate
   keys : [File -> Seq(Key)],        \* the license keys of a file
   proxies : [File -> {"none", "one", "many", "elsewhere"}], \* of many, one in production
   infraEnv : Key \cup {None}, apmEnv : Key \cup {None}, sysProp : Key \cup {None},
   proxyEnv : BOOLEAN, proxySys : BOOLEAN,
   https : {None, "user"}, http : {None, "user"},
   forced : BOOLEAN]

\* The variables keys are looked for in.
EnvVars == {"NRIA_LICENSE_KEY", "NEW_RELIC_LICENSE_KEY"}

\* What the values of the constants must be; a file is given by its path.
AccountChecksAssumption ==
  /\ Format \in [Key -> {"valid", "quoted", "short"}]
  /\ FileType \in [File -> {"yml", "infra", "ini", "other"}]
  /\ File \cap EnvVars = {}
  /\ Host \subseteq HostType

VARIABLES
  environ,   \* HTTP_PROXY and HTTPS_PROXY in the process
  cached,    \* what the transport read at the first request, None before
  requests,  \* the requests made: [by, proxy]
  sent       \* the keys sent to the account service

vars == <<host, environ, cached, requests, sent, results, process>>

LicenseKeys == "Base/Config/LicenseKey"
ValidateLicenseKey == "Base/Config/ValidateLicenseKey"
RegionDetect == "Base/Config/RegionDetect"
ProxyDetect == "Base/Config/ProxyDetect"
Connect == [us01 |-> "Base/Collector/ConnectUS", eu01 |-> "Base/Collector/ConnectEU"]

\* Base/Config/Validate and the two collectors of variables are part of host.
Dependencies(t) ==
  CASE t = ValidateLicenseKey -> {LicenseKeys}
    [] t = RegionDetect -> {ValidateLicenseKey}
    [] t \in Range(Connect) -> {ProxyDetect, RegionDetect}
    [] OTHER -> {}

Init ==
  /\ host \in Host
  /\ environ = [http |-> host.http, https |-> host.https]
  /\ cached = None /\ requests = {} /\ sent = {}
  /\ NothingRun

-----------------------------------------------------------------------------
\* The transport asks net/http's ProxyFromEnvironment, which reads the
\* environment once and takes HTTPS_PROXY for https.
Request(t) ==
  /\ cached' = IF cached = None THEN environ ELSE cached
  /\ requests' = requests \cup {[by |-> t, proxy |-> cached'.https]}

NoRequest == UNCHANGED <<cached, requests>>

-----------------------------------------------------------------------------
(* Base/Config/LicenseKey *)

Elements == IF host.elements = None THEN <<>> ELSE host.elements

\* One key per distinct value of a file.
GetLicenseKeysFromConfig ==
  {k \in [value : Key, source : Range(Elements)] : k.value \in Range(host.keys[k.source])}

GetLicenseKeysFromEnv ==
  {[value |-> host.infraEnv, source |-> "NRIA_LICENSE_KEY"],
   [value |-> host.apmEnv, source |-> "NEW_RELIC_LICENSE_KEY"]}

GetLicenseKeysFromSysProps ==
  {[value |-> host.sysProp, source |-> "-Dnewrelic.config.license_key"]}

BaseConfigLicenseKey ==
  /\ Ready(LicenseKeys, Dependencies(LicenseKeys))
  /\ LET found == GetLicenseKeysFromConfig \cup
                  {k \in GetLicenseKeysFromEnv \cup GetLicenseKeysFromSysProps : k.value # None}
         unique == {k.value : k \in found}
     IN  Return(LicenseKeys, With(IF Cardinality(unique) = 1 THEN "Success" ELSE "Warning", found))
  /\ NoRequest /\ UNCHANGED <<host, environ, sent>>

-----------------------------------------------------------------------------
(* Base/Config/ValidateLicenseKey *)

FindLKFromEnvVarSources(found) == {k \in found : k.source \in EnvVars}

CheckAnyFormat(k) == TRUE
CheckEnvVarFormat(k) == Format[k] = "valid"
CheckConfigFormat(k) == Format[k] \in {"valid", "quoted"}

\* Keys of variables hide those of files and system properties.
Candidates(found) ==
  IF FindLKFromEnvVarSources(found) # {} THEN FindLKFromEnvVarSources(found) ELSE found
WellFormed(found) ==
  {k \in Candidates(found) :
     IF k.source \in EnvVars THEN CheckEnvVarFormat(k.value) ELSE CheckConfigFormat(k.value)}

\* A request that cannot be made, a status of 300 or more and a body that is no
\* JSON are all an error.
Do(answers) == {[failed |-> TRUE, valid |-> {}, invalid |-> {}]} \cup answers

\* The service says of each key whether it is the account's; it may leave keys
\* out, as in an answer with success false, which is not looked at.
ValidateAgainstAccount(keys) ==
  Do({a \in [failed : {FALSE}, valid : SUBSET keys, invalid : SUBSET keys] :
        a.valid \cap a.invalid = {}})

DetermineResultStatus(malformed, answer) ==
  CASE malformed -> "Failure"
    [] ~malformed /\ (answer.failed \/ answer.invalid # {}) -> "Warning"
    [] OTHER -> "Success"

AllFoundKeys(keys, malformed, answer) ==
  With(DetermineResultStatus(malformed, answer), Upstream(LicenseKeys).payload)

\* When the service cannot be asked, the well-formed keys are passed on as they
\* are; otherwise those it confirms.
LicenseKeyResult(keys, malformed, answer) ==
  LET valid == IF answer.failed THEN {k.value : k \in keys} ELSE answer.valid
  IN  With(DetermineResultStatus(malformed, answer), {k \in keys : k.value \in valid})

BaseConfigValidateLicenseKey ==
  /\ Ready(ValidateLicenseKey, Dependencies(ValidateLicenseKey))
  /\ LET found == Upstream(LicenseKeys).payload
         keys == WellFormed(found)
         malformed == keys # Candidates(found)
     IN  \/ /\ found = {}
            /\ NoRequest /\ UNCHANGED sent
            /\ Return(ValidateLicenseKey, Verdict("None"))
         \/ /\ found # {} /\ keys = {}
            /\ NoRequest /\ UNCHANGED sent
            /\ Return(ValidateLicenseKey, With("Failure", {}))
         \/ /\ keys # {}
            /\ Request(ValidateLicenseKey)
            /\ sent' = {k.value : k \in keys}
            /\ \E answer \in ValidateAgainstAccount(sent') :
                 Return(ValidateLicenseKey, LicenseKeyResult(keys, malformed, answer))
  /\ UNCHANGED <<host, environ>>

-----------------------------------------------------------------------------
(* Base/Config/RegionDetect *)

DetectRegions(keys) == {Region[k.value] : k \in keys}

BaseConfigRegionDetect ==
  /\ Ready(RegionDetect, Dependencies(RegionDetect))
  /\ LET validated == Upstream(ValidateLicenseKey)
     IN  Return(RegionDetect,
           IF Holds(validated) /\ validated.payload # {}
           THEN With("Info", DetectRegions(validated.payload)) ELSE Verdict("None"))
  /\ NoRequest /\ UNCHANGED <<host, environ, sent>>

-----------------------------------------------------------------------------
(* Base/Config/ProxyDetect *)

CheckForHttpOrHttpsProxies == environ.http # None \/ environ.https # None

\* The one set of values, or those of the production environment; a yml file
\* ends the search even if it has none.
FindProxyValuesFromYmlFile(f) == IF host.proxies[f] \in {"one", "many"} THEN f ELSE None

\* Of the files, in the order Collect found them, the first that decides.
Decides(f) ==
  \/ FileType[f] # "ini" /\ host.proxyEnv
  \/ FileType[f] = "yml"
  \/ host.proxies[f] # "none"

GetProxyConfig ==
  LET deciding == SelectSeq(host.elements, Decides)
      env == IF host.proxyEnv THEN "environment" ELSE None
      f == deciding[1]
  IN  CASE deciding = <<>> -> env
        [] deciding # <<>> /\ FileType[f] # "ini" /\ host.proxyEnv -> env
        [] deciding # <<>> /\ FileType[f] = "yml" /\ ~host.proxyEnv ->
             IF host.proxySys THEN "system properties" ELSE FindProxyValuesFromYmlFile(f)
        [] OTHER -> IF host.proxies[f] = "one" THEN f ELSE "multiple"

\* The proxy found is set as HTTP_PROXY unless the user has set one.
BaseConfigProxyDetect ==
  /\ Ready(ProxyDetect, Dependencies(ProxyDetect))
  /\ LET proxy == IF host.elements = None THEN None ELSE GetProxyConfig
     IN  \/ /\ proxy = "multiple"
            /\ Return(ProxyDetect, With("Warning", None)) /\ UNCHANGED environ
         \/ /\ proxy \notin {None, "multiple"}
            /\ Return(ProxyDetect, With("Success", proxy))
            /\ environ' = IF CheckForHttpOrHttpsProxies THEN environ
                          ELSE [environ EXCEPT !.http = proxy]
         \/ /\ proxy = None
            /\ Return(ProxyDetect,
                 Verdict(IF CheckForHttpOrHttpsProxies THEN "Warning" ELSE "None"))
            /\ UNCHANGED environ
  /\ NoRequest /\ UNCHANGED <<host, sent>>

-----------------------------------------------------------------------------
(* Base/Collector/ConnectUS and ConnectEU *)

SkipWithoutRegions(r, regions) == r \notin regions

\* Without -t the check is skipped when other regions were found.
PrepareEarlyResult(r, regions) == ~host.forced /\ regions # {} /\ r \notin regions

AnswerAsStatus(answer) == answer

\* The answer expected is "{}" with status 404.
PrepareResult(answer) ==
  CASE answer = "expected" -> "Success"
    [] answer \in {"other", "unreadable"} -> "Warning"
    [] answer = "unreachable" -> "Failure"

BaseCollectorConnect(r) ==
  LET t == Connect[r]
      regions == Upstream(RegionDetect)
  IN  /\ Ready(t, Dependencies(t))
      /\ \/ /\ PrepareEarlyResult(r, IF Holds(regions) THEN regions.payload ELSE {})
            /\ NoRequest /\ Return(t, Verdict("None"))
         \/ /\ ~PrepareEarlyResult(r, IF Holds(regions) THEN regions.payload ELSE {})
            /\ Request(t)
            /\ \E answer \in {"expected", "other", "unreadable", "unreachable"} :
                 Return(t, Verdict(PrepareResult(answer)))
      /\ UNCHANGED <<host, environ, sent>>

BaseCollectorConnectUS == BaseCollectorConnect("us01")
BaseCollectorConnectEU == BaseCollectorConnect("eu01")

Done ==
  /\ Range(Connect) \subseteq DOMAIN results
  /\ UNCHANGED vars

Next ==
  \/ BaseConfigLicenseKey \/ BaseConfigValidateLicenseKey \/ BaseConfigRegionDetect
  \/ BaseConfigProxyDetect \/ BaseCollectorConnectUS \/ BaseCollectorConnectEU
  \/ Done

Spec == Init /\ [][Next]_vars

-----------------------------------------------------------------------------
Ran(t) == t \in DOMAIN results

TypeOK ==
  /\ host \in Host /\ sent \subseteq Key
  /\ \A t \in DOMAIN results : results[t].status \in Status
  /\ \A r \in requests : r.by \in {ValidateLicenseKey} \cup Range(Connect)
  /\ process = "running"

\* A key of a variable is sent only if it is well formed as it stands, one of a
\* file if it is without quotes (checkEnvVarFormat and checkConfigFormat), and
\* no key of a file is sent when a variable holds one.
SentKeysChecked ==
  \A k \in sent :
    /\ Format[k] # "short"
    /\ Format[k] = "quoted" => host.infraEnv = None /\ host.apmEnv = None
    /\ k \in {host.infraEnv, host.apmEnv} \/ {host.infraEnv, host.apmEnv} = {None}

\* Both collectors are skipped only when the keys are of regions without one
\* (prepareEarlyResult: "If no regions were detected, we run all"): never for
\* want of keys.
SomeCollectorChecked ==
  Range(Connect) \subseteq DOMAIN results /\ (\A r \in DOMAIN Connect : results[Connect[r]].status = "None") =>
    /\ results[RegionDetect].status = "Info"
    /\ results[RegionDetect].payload \cap DOMAIN Connect = {}

\* The regions are those of keys that the account has or that could not be
\* checked, each of them found on the host with its source.
RegionsOfFoundKeys ==
  Ran(RegionDetect) /\ Holds(results[RegionDetect]) =>
    \A r \in results[RegionDetect].payload : \E k \in results[LicenseKeys].payload :
      Region[k.value] = r /\ k.value \in sent

=============================================================================
