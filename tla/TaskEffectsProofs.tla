------------------------- MODULE TaskEffectsProofs --------------------------
(***************************************************************************)
(* The themes of TaskEffects hold whatever the hosts, keys, files and      *)
(* answers are.                                                            *)
(***************************************************************************)
EXTENDS TaskEffects, SequenceLemmas

-----------------------------------------------------------------------------
(* Keys, regions and collectors *)

\* What LicenseKey found: keys with their sources, those of the variables among
\* them when they are set.
KeysHaveSources ==
  AccountTasks!LicenseKeys \in DOMAIN results =>
    /\ \A k \in results[AccountTasks!LicenseKeys].payload :
         k.source \in AccountTasks!EnvVars => k.value \in {host.infraEnv, host.apmEnv}
    /\ \A v \in {host.infraEnv, host.apmEnv} : v # None =>
         \E k \in results[AccountTasks!LicenseKeys].payload :
           k.value = v /\ k.source \in AccountTasks!EnvVars
    /\ \A k \in results[AccountTasks!LicenseKeys].payload :
         k.value \in AccountKey \cup {host.infraEnv, host.apmEnv, host.sysProp}

\* The regions come with Info only, and the check of a collector has no result
\* only when there are regions without it.
SkippedForRegions ==
  /\ AccountTasks!RegionDetect \in DOMAIN results /\ Holds(results[AccountTasks!RegionDetect]) =>
       results[AccountTasks!RegionDetect].status = "Info"
  /\ \A r \in {"us01", "eu01"} :
       /\ AccountTasks!Connect[r] \in DOMAIN results
       /\ results[AccountTasks!Connect[r]].status = "None"
       => /\ AccountTasks!RegionDetect \in DOMAIN results
          /\ Holds(results[AccountTasks!RegionDetect])
          /\ r \notin results[AccountTasks!RegionDetect].payload

AccountInv ==
  /\ host \in AccountHost
  /\ KeysHaveSources
  /\ SkippedForRegions
  /\ AccountTasks!SentKeysChecked

\* A result is kept once it is there.
LEMMA AccountReturn ==
  ASSUME NEW t, NEW r, AccountTasks!Return(t, r), t \notin DOMAIN results
  PROVE  /\ DOMAIN results' = DOMAIN results \cup {t}
         /\ results'[t] = r
         /\ \A u \in DOMAIN results : results'[u] = results[u]
BY DEF AccountTasks!Return

\* The names of tasks that the proofs tell apart.
AccountNames ==
  /\ AccountTasks!LicenseKeys = "Base/Config/LicenseKey"
  /\ AccountTasks!ValidateLicenseKey = "Base/Config/ValidateLicenseKey"
  /\ AccountTasks!RegionDetect = "Base/Config/RegionDetect"
  /\ AccountTasks!ProxyDetect = "Base/Config/ProxyDetect"
  /\ AccountTasks!Connect["us01"] = "Base/Collector/ConnectUS"
  /\ AccountTasks!Connect["eu01"] = "Base/Collector/ConnectEU"
  /\ DOMAIN AccountTasks!Connect = {"us01", "eu01"}
  /\ AccountTasks!Range(AccountTasks!Connect) =
       {"Base/Collector/ConnectUS", "Base/Collector/ConnectEU"}

\* The names are those of the code.
LEMMA AccountNamesHold == AccountNames
BY DEF AccountNames, AccountTasks!Connect, AccountTasks!Range, AccountTasks!LicenseKeys,
       AccountTasks!ValidateLicenseKey, AccountTasks!RegionDetect, AccountTasks!ProxyDetect

\* A task that leaves the account's variables alone and is none of those the
\* invariant looks at keeps it.
LEMMA AccountOtherTask ==
  ASSUME AccountInv, NEW t, NEW r, AccountTasks!Return(t, r), t \notin DOMAIN results,
         t \notin {"Base/Config/LicenseKey", "Base/Config/RegionDetect",
                   "Base/Collector/ConnectUS", "Base/Collector/ConnectEU"},
         UNCHANGED <<host, requests, sent>>
  PROVE  AccountInv'
<1>0. AccountNames BY AccountNamesHold
<1>1. /\ DOMAIN results' = DOMAIN results \cup {t}
      /\ \A u \in DOMAIN results : results'[u] = results[u]
  BY AccountReturn
<1>2. KeysHaveSources'
  BY <1>0, <1>1 DEF AccountInv, KeysHaveSources, AccountNames
<1>3. SkippedForRegions'
  BY <1>0, <1>1 DEF AccountInv, SkippedForRegions, AccountNames, Holds
<1>4. AccountTasks!SentKeysChecked'
  BY DEF AccountInv, AccountTasks!SentKeysChecked
<1>. QED BY <1>2, <1>3, <1>4 DEF AccountInv

\* LicenseKey hands on what it found, each key with its source.
LEMMA LicenseKeyStep ==
  ASSUME AccountInv, AccountTasks!BaseConfigLicenseKey
  PROVE  AccountInv'
<1>. DEFINE t == AccountTasks!LicenseKeys
            found == AccountTasks!GetLicenseKeysFromConfig \cup
              {k \in AccountTasks!GetLicenseKeysFromEnv \cup AccountTasks!GetLicenseKeysFromSysProps :
                 k.value # None}
<1>0. AccountNames BY AccountNamesHold
<1>1. PICK s : AccountTasks!Return(t, AccountTasks!With(s, found))
  BY Zenon DEF AccountTasks!BaseConfigLicenseKey
<1>2. t \notin DOMAIN results /\ UNCHANGED <<host, requests, sent>>
  BY DEF AccountTasks!BaseConfigLicenseKey, AccountTasks!Ready, AccountTasks!NoRequest
<1>3. /\ DOMAIN results' = DOMAIN results \cup {t}
      /\ results'[t].payload = found
      /\ \A u \in DOMAIN results : results'[u] = results[u]
  <2>. HIDE DEF found
  <2>1. AccountTasks!With(s, found).payload = found
    BY DEF AccountTasks!With
  <2>. QED BY <1>1, <1>2, <2>1, AccountReturn
<1>4. host \in AccountTasks!HostType
  BY TaskEffectsValues DEF AccountInv, TaskEffectsAssumption, AccountTasks!AccountChecksAssumption
<1>5. \A k \in AccountTasks!GetLicenseKeysFromConfig :
        k.value \in AccountKey /\ k.source \notin AccountTasks!EnvVars
  <2>1. AccountTasks!Range(AccountTasks!Elements) \subseteq AccountFile
    BY <1>4 DEF AccountTasks!Range, AccountTasks!Elements, AccountTasks!HostType
  <2>. QED BY <2>1, TaskEffectsValues DEF AccountTasks!GetLicenseKeysFromConfig,
         TaskEffectsAssumption, AccountTasks!AccountChecksAssumption
<1>6. KeysHaveSources'
  <2>1. \A k \in found : k.source \in AccountTasks!EnvVars => k.value \in {host.infraEnv, host.apmEnv}
    BY <1>5 DEF AccountTasks!GetLicenseKeysFromEnv, AccountTasks!GetLicenseKeysFromSysProps,
         AccountTasks!EnvVars
  <2>2. \A v \in {host.infraEnv, host.apmEnv} : v # None =>
          \E k \in found : k.value = v /\ k.source \in AccountTasks!EnvVars
    <3>1. ASSUME host.infraEnv # None
          PROVE  [value |-> host.infraEnv, source |-> "NRIA_LICENSE_KEY"] \in found
      BY <3>1 DEF AccountTasks!GetLicenseKeysFromEnv
    <3>2. ASSUME host.apmEnv # None
          PROVE  [value |-> host.apmEnv, source |-> "NEW_RELIC_LICENSE_KEY"] \in found
      BY <3>2 DEF AccountTasks!GetLicenseKeysFromEnv
    <3>. HIDE DEF found
    <3>. QED BY <3>1, <3>2 DEF AccountTasks!EnvVars
  <2>3. \A k \in found : k.value \in AccountKey \cup {host.infraEnv, host.apmEnv, host.sysProp}
    BY <1>5 DEF AccountTasks!GetLicenseKeysFromEnv, AccountTasks!GetLicenseKeysFromSysProps
  <2>. QED BY <1>2, <1>3, <2>1, <2>2, <2>3 DEF KeysHaveSources
<1>7. SkippedForRegions'
  BY <1>0, <1>3 DEF AccountInv, SkippedForRegions, AccountNames, Holds
<1>8. AccountTasks!SentKeysChecked'
  BY <1>2 DEF AccountInv, AccountTasks!SentKeysChecked
<1>. QED BY <1>2, <1>6, <1>7, <1>8 DEF AccountInv

\* What ValidateLicenseKey sends is well formed for its source, and a key of a
\* file only where no variable holds one.
LEMMA ValidateLicenseKeyStep ==
  ASSUME AccountInv, AccountTasks!BaseConfigValidateLicenseKey
  PROVE  AccountInv'
<1>. DEFINE t == AccountTasks!ValidateLicenseKey
            found == AccountTasks!Upstream(AccountTasks!LicenseKeys).payload
            keys == AccountTasks!WellFormed(found)
<1>0. AccountNames BY AccountNamesHold
<1>1. /\ t \notin DOMAIN results /\ UNCHANGED <<host, environ>>
      /\ AccountTasks!LicenseKeys \in DOMAIN results
  <2>1. /\ AccountTasks!Ready(t, AccountTasks!Dependencies(t))
        /\ UNCHANGED <<host, environ>>
    BY Zenon DEF AccountTasks!BaseConfigValidateLicenseKey
  <2>2. AccountTasks!LicenseKeys \in AccountTasks!Dependencies(t)
    BY <1>0 DEF AccountNames, AccountTasks!Dependencies
  <2>. QED BY <2>1, <2>2 DEF AccountTasks!Ready
<1>2. PICK r : AccountTasks!Return(t, r)
  BY DEF AccountTasks!BaseConfigValidateLicenseKey
<1>3. /\ DOMAIN results' = DOMAIN results \cup {t}
      /\ \A u \in DOMAIN results : results'[u] = results[u]
  BY <1>1, <1>2, AccountReturn
<1>4. found = results[AccountTasks!LicenseKeys].payload
  BY <1>1 DEF AccountTasks!Upstream
<1>5. sent' = sent \/ sent' = {k.value : k \in keys}
  BY DEF AccountTasks!BaseConfigValidateLicenseKey
<1>6. KeysHaveSources'
  BY <1>0, <1>1, <1>3 DEF AccountInv, KeysHaveSources, AccountNames
<1>7. SkippedForRegions'
  BY <1>0, <1>3 DEF AccountInv, SkippedForRegions, AccountNames, Holds
<1>8. AccountTasks!SentKeysChecked'
  <2>1. CASE sent' = sent
    BY <2>1, <1>1 DEF AccountInv, AccountTasks!SentKeysChecked
  <2>2. CASE sent' = {k.value : k \in keys}
    <3>1. SUFFICES ASSUME NEW k \in keys
                   PROVE  /\ AccountFormat[k.value] # "short"
                          /\ AccountFormat[k.value] = "quoted" =>
                               host.infraEnv = None /\ host.apmEnv = None
                          /\ \/ k.value \in {host.infraEnv, host.apmEnv}
                             \/ {host.infraEnv, host.apmEnv} = {None}
      BY <1>1, <2>2 DEF AccountTasks!SentKeysChecked
    <3>2. k \in found /\ (k.source \in AccountTasks!EnvVars \/
                            AccountTasks!FindLKFromEnvVarSources(found) = {})
      BY DEF AccountTasks!WellFormed, AccountTasks!Candidates, AccountTasks!FindLKFromEnvVarSources
    <3>3. CASE k.source \in AccountTasks!EnvVars
      <4>1. AccountFormat[k.value] = "valid"
        BY <3>3 DEF AccountTasks!WellFormed, AccountTasks!CheckEnvVarFormat
      <4>2. k.value \in {host.infraEnv, host.apmEnv}
        BY <1>1, <1>4, <3>2, <3>3 DEF AccountInv, KeysHaveSources
      <4>. QED BY <4>1, <4>2
    <3>4. CASE k.source \notin AccountTasks!EnvVars
      <4>1. AccountFormat[k.value] \in {"valid", "quoted"}
        BY <3>4 DEF AccountTasks!WellFormed, AccountTasks!CheckConfigFormat
      <4>2. \A v \in {host.infraEnv, host.apmEnv} : v = None
        BY <1>1, <1>4, <3>2, <3>4
        DEF AccountInv, KeysHaveSources, AccountTasks!FindLKFromEnvVarSources
      <4>. QED BY <4>1, <4>2
    <3>. QED BY <3>3, <3>4
  <2>. QED BY <1>5, <2>1, <2>2
<1>. QED BY <1>1, <1>6, <1>7, <1>8 DEF AccountInv

\* RegionDetect hands on regions with Info only, and runs before the collectors.
LEMMA RegionDetectStep ==
  ASSUME AccountInv, AccountTasks!BaseConfigRegionDetect
  PROVE  AccountInv'
<1>. DEFINE t == AccountTasks!RegionDetect
            validated == AccountTasks!Upstream(AccountTasks!ValidateLicenseKey)
            r == IF AccountTasks!Holds(validated) /\ validated.payload # {}
                 THEN AccountTasks!With("Info", AccountTasks!DetectRegions(validated.payload))
                 ELSE AccountTasks!Verdict("None")
<1>0. AccountNames BY AccountNamesHold
<1>1. AccountTasks!Return(t, r)
  BY Zenon DEF AccountTasks!BaseConfigRegionDetect
<1>2. t \notin DOMAIN results /\ UNCHANGED <<host, requests, sent>>
  BY DEF AccountTasks!BaseConfigRegionDetect, AccountTasks!Ready, AccountTasks!NoRequest
<1>3. Holds(r) => r.status = "Info"
  BY DEF Holds, AccountTasks!With, AccountTasks!Verdict
<1>. HIDE DEF r
<1>4. /\ DOMAIN results' = DOMAIN results \cup {t}
      /\ results'[t] = r
      /\ \A u \in DOMAIN results : results'[u] = results[u]
  BY <1>1, <1>2, AccountReturn
<1>5. KeysHaveSources'
  BY <1>0, <1>2, <1>4 DEF AccountInv, KeysHaveSources, AccountNames
<1>6. SkippedForRegions'
  BY <1>0, <1>2, <1>3, <1>4 DEF AccountInv, SkippedForRegions, AccountNames, Holds
<1>7. AccountTasks!SentKeysChecked'
  BY <1>2 DEF AccountInv, AccountTasks!SentKeysChecked
<1>. QED BY <1>2, <1>5, <1>6, <1>7 DEF AccountInv

\* A collector is not asked only when there are regions without it.
LEMMA ConnectStep ==
  ASSUME AccountInv, NEW c \in {"us01", "eu01"}, AccountTasks!BaseCollectorConnect(c)
  PROVE  AccountInv'
<1>. DEFINE t == AccountTasks!Connect[c]
            regions == AccountTasks!Upstream(AccountTasks!RegionDetect)
            known == IF AccountTasks!Holds(regions) THEN regions.payload ELSE {}
<1>0. AccountNames BY AccountNamesHold
<1>1. /\ AccountTasks!Ready(t, AccountTasks!Dependencies(t))
      /\ UNCHANGED <<host, environ, sent>>
  BY Zenon DEF AccountTasks!BaseCollectorConnect
<1>2. AccountTasks!RegionDetect \in AccountTasks!Dependencies(t)
  BY <1>0 DEF AccountNames, AccountTasks!Dependencies
<1>3. t \notin DOMAIN results /\ AccountTasks!RegionDetect \in DOMAIN results
  BY <1>1, <1>2 DEF AccountTasks!Ready
<1>4. PICK r : /\ AccountTasks!Return(t, r)
               /\ r.status = "None" => AccountTasks!PrepareEarlyResult(c, known)
  <2>1. CASE AccountTasks!PrepareEarlyResult(c, known)
    BY <2>1 DEF AccountTasks!BaseCollectorConnect
  <2>2. CASE ~AccountTasks!PrepareEarlyResult(c, known)
    <3>1. PICK answer \in {"expected", "other", "unreadable", "unreachable"} :
            AccountTasks!Return(t, AccountTasks!Verdict(AccountTasks!PrepareResult(answer)))
      BY <2>2, Zenon DEF AccountTasks!BaseCollectorConnect
    <3>2. AccountTasks!Verdict(AccountTasks!PrepareResult(answer)).status # "None"
      BY DEF AccountTasks!Verdict, AccountTasks!PrepareResult
    <3>. QED BY <3>1, <3>2
  <2>. QED BY <2>1, <2>2
<1>5. /\ DOMAIN results' = DOMAIN results \cup {t}
      /\ results'[t] = r
      /\ \A u \in DOMAIN results : results'[u] = results[u]
  BY <1>3, <1>4, AccountReturn
<1>6. KeysHaveSources'
  BY <1>0, <1>1, <1>5 DEF AccountInv, KeysHaveSources, AccountNames
<1>7. SkippedForRegions'
  <2>1. r.status = "None" =>
          /\ Holds(results[AccountTasks!RegionDetect])
          /\ c \notin results[AccountTasks!RegionDetect].payload
    BY <1>3, <1>4
    DEF AccountTasks!PrepareEarlyResult, AccountTasks!Upstream, AccountTasks!Holds, Holds
  <2>2. /\ AccountTasks!RegionDetect \in DOMAIN results'
        /\ results'[AccountTasks!RegionDetect] = results[AccountTasks!RegionDetect]
    BY <1>3, <1>5
  <2>3. \A d \in {"us01", "eu01"} :
          AccountTasks!Connect[d] \in DOMAIN results' =>
            d = c \/ (/\ AccountTasks!Connect[d] \in DOMAIN results
                      /\ results'[AccountTasks!Connect[d]] = results[AccountTasks!Connect[d]])
    BY <1>0, <1>5 DEF AccountNames
  <2>4. SUFFICES ASSUME NEW d \in {"us01", "eu01"},
                        AccountTasks!Connect[d] \in DOMAIN results',
                        results'[AccountTasks!Connect[d]].status = "None"
                 PROVE  /\ Holds(results[AccountTasks!RegionDetect])
                        /\ d \notin results[AccountTasks!RegionDetect].payload
    BY <1>3, <2>2 DEF AccountInv, SkippedForRegions, Holds
  <2>5. CASE d = c
    BY <1>5, <2>1, <2>4, <2>5
  <2>6. CASE d # c
    BY <2>3, <2>4, <2>6 DEF AccountInv, SkippedForRegions
  <2>. QED BY <2>5, <2>6
<1>8. AccountTasks!SentKeysChecked'
  BY <1>1 DEF AccountInv, AccountTasks!SentKeysChecked
<1>. QED BY <1>1, <1>6, <1>7, <1>8 DEF AccountInv

\* The invariant of the keys and collectors is inductive.
LEMMA AccountStarts ==
  ASSUME AccountTasks!Init
  PROVE  AccountInv
BY DEF AccountTasks!Init, AccountTasks!NothingRun, AccountInv, KeysHaveSources, SkippedForRegions,
       AccountTasks!SentKeysChecked

\* It is kept by a step that leaves what it speaks of alone.
LEMMA AccountStutters ==
  ASSUME AccountInv, UNCHANGED <<host, results, requests, sent>>
  PROVE  AccountInv'
BY DEF AccountInv, KeysHaveSources, SkippedForRegions, Holds,
       AccountTasks!SentKeysChecked

\* It is kept by every task of the family.
LEMMA AccountKept ==
  ASSUME AccountInv, AccountTasks!Next
  PROVE  AccountInv'
<1>0. AccountNames BY AccountNamesHold
<1>1. CASE AccountTasks!BaseConfigProxyDetect
  <2>1. PICK r : AccountTasks!Return(AccountTasks!ProxyDetect, r)
    BY <1>1 DEF AccountTasks!BaseConfigProxyDetect
  <2>2. AccountTasks!ProxyDetect \notin DOMAIN results /\ UNCHANGED <<host, requests, sent>>
    BY <1>1 DEF AccountTasks!BaseConfigProxyDetect, AccountTasks!Ready, AccountTasks!NoRequest
  <2>. QED BY <1>0, <2>1, <2>2, AccountOtherTask DEF AccountNames
<1>2. CASE AccountTasks!BaseCollectorConnectUS \/ AccountTasks!BaseCollectorConnectEU
  BY <1>2, ConnectStep DEF AccountTasks!BaseCollectorConnectUS, AccountTasks!BaseCollectorConnectEU
<1>3. CASE AccountTasks!Done
  BY <1>3, AccountStutters DEF AccountTasks!Done, AccountTasks!vars
<1>. QED
  BY <1>1, <1>2, <1>3, LicenseKeyStep, ValidateLicenseKeyStep, RegionDetectStep
  DEF AccountTasks!Next

\* The statements about requests follow from it.
LEMMA AccountStatements ==
  ASSUME AccountInv
  PROVE  /\ AccountTasks!SentKeysChecked
         /\ AccountTasks!SomeCollectorChecked
<1>0. AccountNames BY AccountNamesHold
<1>1. AccountTasks!SomeCollectorChecked
  <2>1. SUFFICES
          ASSUME AccountTasks!Range(AccountTasks!Connect) \subseteq DOMAIN results,
                 \A r \in DOMAIN AccountTasks!Connect : results[AccountTasks!Connect[r]].status = "None"
          PROVE  /\ results[AccountTasks!RegionDetect].status = "Info"
                 /\ results[AccountTasks!RegionDetect].payload \cap DOMAIN AccountTasks!Connect = {}
    BY DEF AccountTasks!SomeCollectorChecked
  <2>2. \A r \in {"us01", "eu01"} :
          /\ AccountTasks!RegionDetect \in DOMAIN results
          /\ Holds(results[AccountTasks!RegionDetect])
          /\ r \notin results[AccountTasks!RegionDetect].payload
    BY <1>0, <2>1 DEF AccountInv, SkippedForRegions, AccountNames
  <2>. QED BY <1>0, <2>2 DEF AccountInv, SkippedForRegions, AccountNames
<1>. QED BY <1>1 DEF AccountInv

-----------------------------------------------------------------------------
(* The function app *)

\* The tasks that ask, in the order of their questions.
Asking == {"CollectProcessDetails", "CollectLiveMemoryDump", "ConfigureCrashDump"}

\* Results are there in the order of their dependencies.
AzureOrder ==
  /\ "CollectLiveMemoryDump" \in DOMAIN results => "CollectProcessDetails" \in DOMAIN results
  /\ "ConfigureCrashDump" \in DOMAIN results =>
       {"CollectLiveMemoryDump", "DetectRuntime"} \subseteq DOMAIN results

\* Who has asked has a result, and until the crash dumps are configured the app
\* is as it was.
AskedHaveResults ==
  /\ prompts \in Seq(Asking)
  /\ \A i \in DOMAIN prompts : prompts[i] \in DOMAIN results
RemoteAsFound == "ConfigureCrashDump" \notin DOMAIN results => remote = host.azure

AzureInv ==
  /\ AzureOrder
  /\ AskedHaveResults
  /\ RemoteAsFound
  /\ AzureTasks!PromptOrder
  /\ AzureTasks!AzOnlyForValidTargets
  /\ AzureTasks!RemoteChangedOnlyOnConsent

\* The names of tasks that the proofs tell apart.
AzureNames ==
  /\ AzureTasks!CollectProcessDetails = "CollectProcessDetails"
  /\ AzureTasks!CollectLiveMemoryDump = "CollectLiveMemoryDump"
  /\ AzureTasks!ConfigureCrashDump = "ConfigureCrashDump"
  /\ AzureTasks!DetectRuntime = "DetectRuntime"

\* The names are those of the code.
LEMMA AzureNamesHold == AzureNames
BY DEF AzureNames, AzureTasks!CollectProcessDetails, AzureTasks!CollectLiveMemoryDump,
       AzureTasks!ConfigureCrashDump, AzureTasks!DetectRuntime

\* The place of a question among the three.
PlaceOf(t) ==
  CHOOSE i \in 1..3 :
    <<"CollectProcessDetails", "CollectLiveMemoryDump", "ConfigureCrashDump">>[i] = t

\* The places are in the order of the tasks.
LEMMA Places ==
  /\ PlaceOf("CollectProcessDetails") = 1
  /\ PlaceOf("CollectLiveMemoryDump") = 2
  /\ PlaceOf("ConfigureCrashDump") = 3
<1>. DEFINE order == <<"CollectProcessDetails", "CollectLiveMemoryDump", "ConfigureCrashDump">>
<1>1. \A i \in 1..3 : /\ order[i] = "CollectProcessDetails" <=> i = 1
                      /\ order[i] = "CollectLiveMemoryDump" <=> i = 2
                      /\ order[i] = "ConfigureCrashDump" <=> i = 3
  OBVIOUS
<1>2. 1 \in 1..3 /\ 2 \in 1..3 /\ 3 \in 1..3
  OBVIOUS
<1>. QED BY <1>1, <1>2 DEF PlaceOf

\* The questions are in order when each place is before the next.
LEMMA PromptOrderMeans ==
  AzureTasks!PromptOrder <=>
    \A i, j \in DOMAIN prompts : i < j => PlaceOf(prompts[i]) < PlaceOf(prompts[j])
BY AzureNamesHold, Zenon DEF AzureTasks!PromptOrder, PlaceOf, AzureNames

\* What a task of the suite may do to the app, to az and to the user, in one step.
AzureEffect(t, r) ==
  /\ UNCHANGED host
  /\ az' = az \/ (host.valid /\ az' = az \cup {[by |-> t, valid |-> host.valid]})
  /\ prompts' = prompts \/ (t \in Asking /\ prompts' = Append(prompts, t))
  /\ consented \subseteq consented'
  /\ \/ remote' = remote /\ (t = "ConfigureCrashDump" => r.status # "Success")
     \/ /\ t = "ConfigureCrashDump" /\ t \in consented'
        /\ remote' = AzureTasks!ApplyAppSettings(remote, AzureTasks!Runtime)

\* A task that ran does no more than that keeps the invariant.
LEMMA AzureEffectKeeps ==
  ASSUME AzureInv, NEW t, NEW r, AzureTasks!Runs(t), AzureTasks!Return(t, r), AzureEffect(t, r)
  PROVE  AzureInv'
<1>0. AzureNames BY AzureNamesHold
<1>1. /\ t \notin DOMAIN results
      /\ AzureTasks!Dependencies(t) \subseteq DOMAIN results
  BY DEF AzureTasks!Runs, AzureTasks!Ready
<1>2. /\ DOMAIN results' = DOMAIN results \cup {t}
      /\ results'[t] = r
      /\ \A u \in DOMAIN results : results'[u] = results[u]
  BY <1>1 DEF AzureTasks!Return
<1>3. /\ t = "CollectLiveMemoryDump" => "CollectProcessDetails" \in AzureTasks!Dependencies(t)
      /\ t = "ConfigureCrashDump" =>
           {"CollectLiveMemoryDump", "DetectRuntime"} \subseteq AzureTasks!Dependencies(t)
  BY DEF AzureTasks!Dependencies, AzureTasks!AnyOrder, AzureTasks!CollectProcessDetails,
         AzureTasks!CollectLiveMemoryDump, AzureTasks!ConfigureCrashDump, AzureTasks!DetectRuntime,
         AzureTasks!FetchAppSettings, AzureTasks!DownloadSiteDump, AzureTasks!ValidateAgentConfig,
         AzureTasks!CheckCrashDumpConfig, AzureTasks!AgentInfo, AzureTasks!AnalyzeLogs,
         AzureTasks!CollectReport
<1>4. AzureOrder'
  BY <1>1, <1>2, <1>3 DEF AzureInv, AzureOrder
<1>5. AskedHaveResults'
  BY <1>2 DEF AzureInv, AskedHaveResults, AzureEffect
<1>6. RemoteAsFound'
  BY <1>2 DEF AzureInv, RemoteAsFound, AzureEffect
<1>7. AzureTasks!PromptOrder'
  <2>1. CASE prompts' = prompts
    BY <2>1 DEF AzureInv, AzureTasks!PromptOrder
  <2>2. CASE t \in Asking /\ prompts' = Append(prompts, t)
    <3>1. \A i \in DOMAIN prompts : PlaceOf(prompts[i]) < PlaceOf(t)
      <4>1. SUFFICES ASSUME NEW i \in DOMAIN prompts
                     PROVE  PlaceOf(prompts[i]) < PlaceOf(t)
        OBVIOUS
      <4>2. prompts[i] \in Asking /\ prompts[i] \in DOMAIN results
        BY DEF AzureInv, AskedHaveResults
      <4>. QED BY <1>1, <1>3, <2>2, <4>2, Places DEF Asking, AzureInv, AzureOrder
    <3>2. \A i, j \in DOMAIN prompts : i < j => PlaceOf(prompts[i]) < PlaceOf(prompts[j])
      BY PromptOrderMeans DEF AzureInv
    <3>3. prompts \in Seq(Asking)
      BY DEF AzureInv, AskedHaveResults
    <3>4. \A i, j \in DOMAIN prompts' : i < j => PlaceOf(prompts'[i]) < PlaceOf(prompts'[j])
      BY <2>2, <3>1, <3>2, <3>3
    <3>. QED BY <3>4, AzureNamesHold, Zenon DEF AzureTasks!PromptOrder, PlaceOf, AzureNames
  <2>. QED BY <2>1, <2>2 DEF AzureEffect
<1>8. AzureTasks!AzOnlyForValidTargets'
  BY DEF AzureInv, AzureTasks!AzOnlyForValidTargets, AzureEffect
<1>9. AzureTasks!RemoteChangedOnlyOnConsent'
  <2>. DEFINE dump == "ConfigureCrashDump"
              result == AzureTasks!Upstream(dump)
  <2>1. ASSUME dump \in DOMAIN results'
        PROVE  AzureTasks!Runtime' = AzureTasks!Runtime
    <3>1. "DetectRuntime" \in DOMAIN results
      BY <1>1, <1>2, <1>3, <2>1 DEF AzureInv, AzureOrder
    <3>2. AzureTasks!Upstream("DetectRuntime")' = AzureTasks!Upstream("DetectRuntime")
      BY <1>2, <3>1 DEF AzureTasks!Upstream
    <3>. QED BY <1>0, <3>2 DEF AzureTasks!Runtime, AzureTasks!Holds, AzureNames
  <2>2. /\ dump \notin DOMAIN results' => result'.status = "None"
        /\ t = dump => result' = r
        /\ t # dump => result' = result
    BY <1>2 DEF AzureTasks!Upstream, AzureTasks!Verdict
  <2>. HIDE DEF result
  <2>3. remote' # host.azure' => dump \in consented'
    BY <1>0 DEF AzureInv, AzureTasks!RemoteChangedOnlyOnConsent, AzureEffect, AzureNames
  <2>4. result'.status = "Success" =>
          remote' = AzureTasks!ApplyAppSettings(host.azure, AzureTasks!Runtime)'
    <3>1. CASE t = dump
      BY <1>1, <1>2, <2>1, <2>2, <3>1
      DEF AzureInv, RemoteAsFound, AzureEffect, AzureTasks!ApplyAppSettings
    <3>2. CASE t # dump
      <4>1. result.status = "Success" =>
              remote = AzureTasks!ApplyAppSettings(host.azure, AzureTasks!Runtime)
        BY <1>0 DEF AzureInv, AzureTasks!RemoteChangedOnlyOnConsent, AzureNames, result
      <4>. QED BY <2>1, <2>2, <3>2, <4>1 DEF AzureEffect, AzureTasks!ApplyAppSettings
    <3>. QED BY <3>1, <3>2
  <2>. QED BY <1>0, <2>3, <2>4 DEF AzureTasks!RemoteChangedOnlyOnConsent, AzureNames, result
<1>. QED BY <1>4, <1>5, <1>6, <1>7, <1>8, <1>9 DEF AzureInv

\* A task that only looks, or is skipped.
LEMMA AzureLook ==
  ASSUME NEW t, NEW r, UNCHANGED AzureTasks!azure, t = "ConfigureCrashDump" => r.status # "Success"
  PROVE  AzureEffect(t, r)
BY DEF AzureEffect, AzureTasks!azure

\* Who asks, asks for itself, and a yes is kept.
LEMMA PromptEffect ==
  ASSUME NEW t \in Asking, NEW answer \in BOOLEAN, AzureTasks!PromptUser(t, answer)
  PROVE  /\ prompts' = prompts \/ prompts' = Append(prompts, t)
         /\ consented \subseteq consented'
         /\ answer => t \in consented'
BY DEF AzureTasks!PromptUser

\* A target that is refused is none of the actions' effect.
LEMMA SkippedEffect ==
  ASSUME NEW t, AzureTasks!Skipped(t)
  PROVE  \E r : AzureTasks!Return(t, r) /\ AzureEffect(t, r)
<1>1. PICK s \in {"None", "Error"} : AzureTasks!Return(t, AzureTasks!Verdict(s))
  BY DEF AzureTasks!Skipped
<1>2. UNCHANGED AzureTasks!azure
  BY DEF AzureTasks!Skipped
<1>3. AzureTasks!Verdict(s).status # "Success"
  BY DEF AzureTasks!Verdict
<1>. QED BY <1>1, <1>2, <1>3, AzureLook

\* A task that the user declines asks, and leaves the app alone.
LEMMA DeclinedEffect ==
  ASSUME NEW t \in Asking, AzureTasks!Declined(t)
  PROVE  \E r : AzureTasks!Return(t, r) /\ AzureEffect(t, r)
<1>. DEFINE r == AzureTasks!Verdict("None")
<1>1. AzureTasks!Return(t, r)
  BY DEF AzureTasks!Declined
<1>2. /\ prompts' = prompts \/ prompts' = Append(prompts, t)
      /\ consented \subseteq consented'
  BY PromptEffect DEF AzureTasks!Declined
<1>3. UNCHANGED <<host, remote, az>> /\ r.status # "Success"
  BY DEF AzureTasks!Declined, AzureTasks!Verdict
<1>. QED BY <1>1, <1>2, <1>3 DEF AzureEffect

\* The app is written to by ConfigureCrashDump only, after a yes.
LEMMA ConfigureEffect ==
  ASSUME AzureTasks!AzureFunctionsConfigureCrashDump
  PROVE  \E r : /\ AzureTasks!Return("ConfigureCrashDump", r)
                /\ AzureEffect("ConfigureCrashDump", r)
<1>. DEFINE t == "ConfigureCrashDump"
<1>0. AzureTasks!ConfigureCrashDump = t
  BY DEF AzureTasks!ConfigureCrashDump
<1>1. CASE AzureTasks!Skipped(t)
  BY <1>1, SkippedEffect
<1>2. CASE AzureTasks!Return(t, AzureTasks!Verdict("None")) /\ UNCHANGED AzureTasks!azure
  <2>1. AzureTasks!Verdict("None").status # "Success"
    BY DEF AzureTasks!Verdict
  <2>. QED BY <1>2, <2>1, AzureLook
<1>3. CASE AzureTasks!Declined(t)
  BY <1>3, DeclinedEffect DEF Asking
<1>4. CASE /\ AzureTasks!GoesOn(t) /\ AzureTasks!PromptUser(t, TRUE) /\ AzureTasks!CallsAz(t)
           /\ \/ /\ remote' = AzureTasks!ApplyAppSettings(remote, AzureTasks!Runtime)
                 /\ \/ AzureTasks!Return(t, AzureTasks!With("Success", "applied"))
                    \/ AzureTasks!Return(t, AzureTasks!Verdict("Error"))
              \/ UNCHANGED remote /\ AzureTasks!Return(t, AzureTasks!Verdict("Error"))
           /\ UNCHANGED <<host, written, copied, report>>
  <2>1. /\ prompts' = prompts \/ prompts' = Append(prompts, t)
        /\ consented \subseteq consented' /\ t \in consented'
    BY <1>4, PromptEffect DEF Asking
  <2>2. /\ UNCHANGED host
        /\ host.valid /\ az' = az \cup {[by |-> t, valid |-> host.valid]}
    BY <1>4 DEF AzureTasks!GoesOn, AzureTasks!ValidateAzureTarget, AzureTasks!CallsAz
  <2>3. CASE remote' = AzureTasks!ApplyAppSettings(remote, AzureTasks!Runtime)
    BY <1>4, <2>1, <2>2, <2>3, Zenon DEF AzureEffect, Asking
  <2>4. CASE UNCHANGED remote /\ AzureTasks!Return(t, AzureTasks!Verdict("Error"))
    <3>1. AzureTasks!Verdict("Error").status # "Success"
      BY DEF AzureTasks!Verdict
    <3>. QED BY <2>1, <2>2, <2>4, <3>1 DEF AzureEffect, Asking
  <2>. QED BY <1>4, <2>3, <2>4
<1>. QED BY <1>0, <1>1, <1>2, <1>3, <1>4, Zenon DEF AzureTasks!AzureFunctionsConfigureCrashDump

\* A download, and whatever else calls az for a target, does so for a valid one.
LEMMA AzEffect ==
  ASSUME NEW t, NEW r, AzureTasks!GoesOn(t), AzureTasks!CallsAz(t), t # "ConfigureCrashDump",
         UNCHANGED <<host, remote>>, consented \subseteq consented',
         prompts' = prompts \/ (t \in Asking /\ prompts' = Append(prompts, t))
  PROVE  AzureEffect(t, r)
BY DEF AzureEffect, AzureTasks!GoesOn, AzureTasks!ValidateAzureTarget, AzureTasks!CallsAz

\* The two tasks with a target call az for a name that keeps its rules.
LEMMA TargetEffect ==
  ASSUME NEW t \in {"DownloadSiteDump", "FetchAppSettings"},
         \/ AzureTasks!AzureFunctionsDownloadSiteDump /\ t = "DownloadSiteDump"
         \/ AzureTasks!AzureFunctionsFetchAppSettings /\ t = "FetchAppSettings"
  PROVE  \E r : AzureTasks!Return(t, r) /\ AzureEffect(t, r)
<1>0. /\ AzureTasks!DownloadSiteDump = "DownloadSiteDump"
      /\ AzureTasks!FetchAppSettings = "FetchAppSettings"
  BY DEF AzureTasks!DownloadSiteDump, AzureTasks!FetchAppSettings
<1>1. CASE AzureTasks!Skipped(t)
  BY <1>1, SkippedEffect
<1>2. CASE /\ AzureTasks!GoesOn(t) /\ AzureTasks!CallsAz(t)
           /\ \E r : AzureTasks!Return(t, r)
           /\ UNCHANGED <<host, remote, prompts, consented>>
  BY <1>2, AzEffect
<1>. QED BY <1>0, <1>1, <1>2 DEF AzureTasks!AzureFunctionsDownloadSiteDump,
       AzureTasks!AzureFunctionsFetchAppSettings, AzureTasks!Download

\* The two tasks that look into a process ask first, and call az after a yes.
LEMMA DetailsEffect ==
  ASSUME NEW t \in {"CollectProcessDetails", "CollectLiveMemoryDump"},
         \/ AzureTasks!AzureFunctionsCollectProcessDetails /\ t = "CollectProcessDetails"
         \/ AzureTasks!AzureFunctionsCollectLiveMemoryDump /\ t = "CollectLiveMemoryDump"
  PROVE  \E r : AzureTasks!Return(t, r) /\ AzureEffect(t, r)
<1>0. AzureNames BY AzureNamesHold
<1>1. CASE AzureTasks!Skipped(t)
  BY <1>1, SkippedEffect
<1>2. CASE AzureTasks!Declined(t)
  BY <1>2, DeclinedEffect DEF Asking
<1>3. CASE /\ AzureTasks!GoesOn(t) /\ AzureTasks!PromptUser(t, TRUE) /\ AzureTasks!CallsAz(t)
           /\ \E r : AzureTasks!Return(t, r)
           /\ UNCHANGED <<host, remote>>
  <2>1. /\ prompts' = prompts \/ prompts' = Append(prompts, t)
        /\ consented \subseteq consented'
    BY <1>3, PromptEffect DEF Asking
  <2>. QED BY <1>3, <2>1, AzEffect DEF Asking
<1>. QED BY <1>0, <1>1, <1>2, <1>3 DEF AzureNames, AzureTasks!AzureFunctionsCollectProcessDetails,
       AzureTasks!AzureFunctionsCollectLiveMemoryDump, AzureTasks!Download, AzureTasks!NoProcessSelected

\* The invariant of the app is inductive.
LEMMA AzureStarts ==
  ASSUME AzureTasks!Init
  PROVE  AzureInv
<1>1. /\ results = [t \in {} |-> AzureTasks!Verdict("None")]
      /\ prompts = <<>> /\ az = {} /\ remote = host.azure
  BY DEF AzureTasks!Init, AzureTasks!NothingRun
<1>2. AzureOrder /\ AskedHaveResults /\ RemoteAsFound
  BY <1>1 DEF AzureOrder, AskedHaveResults, RemoteAsFound
<1>3. AzureTasks!PromptOrder /\ AzureTasks!AzOnlyForValidTargets
  BY <1>1, PromptOrderMeans DEF AzureTasks!AzOnlyForValidTargets
<1>4. AzureTasks!RemoteChangedOnlyOnConsent
  BY <1>1 DEF AzureTasks!RemoteChangedOnlyOnConsent, AzureTasks!Upstream, AzureTasks!Verdict
<1>. QED BY <1>2, <1>3, <1>4 DEF AzureInv

\* It is kept by a step that leaves what it speaks of alone.
LEMMA AzureStutters ==
  ASSUME AzureInv, UNCHANGED <<host, results, remote, az, prompts, consented>>
  PROVE  AzureInv'
<1>1. AzureOrder' /\ AskedHaveResults' /\ RemoteAsFound'
  BY DEF AzureInv, AzureOrder, AskedHaveResults, RemoteAsFound
<1>2. AzureTasks!PromptOrder' /\ AzureTasks!AzOnlyForValidTargets'
  BY DEF AzureInv, AzureTasks!PromptOrder, AzureTasks!AzOnlyForValidTargets
<1>3. AzureTasks!RemoteChangedOnlyOnConsent'
  BY DEF AzureInv, AzureTasks!RemoteChangedOnlyOnConsent, AzureTasks!Upstream, AzureTasks!Runtime,
         AzureTasks!Holds, AzureTasks!ApplyAppSettings
<1>. QED BY <1>1, <1>2, <1>3 DEF AzureInv

\* Every task does no more than its effect.
LEMMA AzureTaskEffect ==
  ASSUME AzureTasks!Next
  PROVE  \/ UNCHANGED AzureTasks!vars
         \/ \E t, r : AzureTasks!Runs(t) /\ AzureTasks!Return(t, r) /\ AzureEffect(t, r)
<1>0. AzureNames BY AzureNamesHold
<1>1. ASSUME NEW t, t # "ConfigureCrashDump", NEW r, AzureTasks!Return(t, r),
             UNCHANGED <<host, remote, az, prompts, consented>>
      PROVE  AzureEffect(t, r)
  BY <1>1 DEF AzureEffect
<1>2. CASE AzureTasks!AzureFunctionsDetectFunctionApp
  <2>1. PICK r : AzureTasks!Return(AzureTasks!DetectFunctionApp, r)
    BY <1>2, Zenon DEF AzureTasks!AzureFunctionsDetectFunctionApp
  <2>2. AzureTasks!Runs(AzureTasks!DetectFunctionApp) /\ UNCHANGED AzureTasks!azure
    BY <1>2, Zenon DEF AzureTasks!AzureFunctionsDetectFunctionApp
  <2>3. AzureTasks!DetectFunctionApp # "ConfigureCrashDump"
    BY DEF AzureTasks!DetectFunctionApp
  <2>. QED BY <1>1, <2>1, <2>2, <2>3 DEF AzureTasks!azure
<1>3. CASE AzureTasks!AzureFunctionsDetectRuntime
  <2>1. PICK r : AzureTasks!Return(AzureTasks!DetectRuntime, r)
    BY <1>3, Zenon DEF AzureTasks!AzureFunctionsDetectRuntime
  <2>2. AzureTasks!Runs(AzureTasks!DetectRuntime) /\ UNCHANGED AzureTasks!azure
    BY <1>3, Zenon DEF AzureTasks!AzureFunctionsDetectRuntime
  <2>3. AzureTasks!DetectRuntime # "ConfigureCrashDump"
    BY DEF AzureTasks!DetectRuntime
  <2>. QED BY <1>1, <2>1, <2>2, <2>3 DEF AzureTasks!azure
<1>4. CASE AzureTasks!AzureFunctionsValidateAgentConfig
  <2>1. PICK r : AzureTasks!Return(AzureTasks!ValidateAgentConfig, r)
    BY <1>4, Zenon DEF AzureTasks!AzureFunctionsValidateAgentConfig
  <2>2. AzureTasks!Runs(AzureTasks!ValidateAgentConfig) /\ UNCHANGED AzureTasks!azure
    BY <1>4, Zenon DEF AzureTasks!AzureFunctionsValidateAgentConfig
  <2>3. AzureTasks!ValidateAgentConfig # "ConfigureCrashDump"
    BY DEF AzureTasks!ValidateAgentConfig
  <2>. QED BY <1>1, <2>1, <2>2, <2>3 DEF AzureTasks!azure
<1>5. CASE AzureTasks!AzureFunctionsCheckCrashDumpConfig
  <2>1. PICK r : AzureTasks!Return(AzureTasks!CheckCrashDumpConfig, r)
    BY <1>5, Zenon DEF AzureTasks!AzureFunctionsCheckCrashDumpConfig
  <2>2. AzureTasks!Runs(AzureTasks!CheckCrashDumpConfig) /\ UNCHANGED AzureTasks!azure
    BY <1>5, Zenon DEF AzureTasks!AzureFunctionsCheckCrashDumpConfig
  <2>3. AzureTasks!CheckCrashDumpConfig # "ConfigureCrashDump"
    BY DEF AzureTasks!CheckCrashDumpConfig
  <2>. QED BY <1>1, <2>1, <2>2, <2>3 DEF AzureTasks!azure
<1>6. CASE AzureTasks!AzureFunctionsAgentInfo
  <2>1. PICK r : AzureTasks!Return(AzureTasks!AgentInfo, r)
    BY <1>6, Zenon DEF AzureTasks!AzureFunctionsAgentInfo
  <2>2. AzureTasks!Runs(AzureTasks!AgentInfo) /\ UNCHANGED AzureTasks!azure
    BY <1>6, Zenon DEF AzureTasks!AzureFunctionsAgentInfo
  <2>3. AzureTasks!AgentInfo # "ConfigureCrashDump"
    BY DEF AzureTasks!AgentInfo
  <2>. QED BY <1>1, <2>1, <2>2, <2>3 DEF AzureTasks!azure
<1>7. CASE AzureTasks!AzureFunctionsAnalyzeLogs
  <2>1. PICK r : AzureTasks!Return(AzureTasks!AnalyzeLogs, r)
    BY <1>7, Zenon DEF AzureTasks!AzureFunctionsAnalyzeLogs
  <2>2. AzureTasks!Runs(AzureTasks!AnalyzeLogs) /\ UNCHANGED AzureTasks!azure
    BY <1>7, Zenon DEF AzureTasks!AzureFunctionsAnalyzeLogs
  <2>3. AzureTasks!AnalyzeLogs # "ConfigureCrashDump"
    BY DEF AzureTasks!AnalyzeLogs
  <2>. QED BY <1>1, <2>1, <2>2, <2>3 DEF AzureTasks!azure
<1>8. CASE AzureTasks!AzureFunctionsCollectReport
  <2>1. PICK r : AzureTasks!Return(AzureTasks!CollectReport, r)
    BY <1>8, Zenon DEF AzureTasks!AzureFunctionsCollectReport
  <2>2. AzureTasks!Runs(AzureTasks!CollectReport)
    BY <1>8, Zenon DEF AzureTasks!AzureFunctionsCollectReport
  <2>3. UNCHANGED <<host, remote, az, prompts, consented>>
    BY <1>8 DEF AzureTasks!AzureFunctionsCollectReport, AzureTasks!azure
  <2>4. AzureTasks!CollectReport # "ConfigureCrashDump"
    BY DEF AzureTasks!CollectReport
  <2>. QED BY <1>1, <2>1, <2>2, <2>3, <2>4
<1>9. CASE AzureTasks!AzureFunctionsDownloadSiteDump \/ AzureTasks!AzureFunctionsFetchAppSettings
  <2>1. /\ AzureTasks!DownloadSiteDump = "DownloadSiteDump"
        /\ AzureTasks!FetchAppSettings = "FetchAppSettings"
    BY DEF AzureTasks!DownloadSiteDump, AzureTasks!FetchAppSettings
  <2>. QED BY <1>9, <2>1, TargetEffect DEF AzureTasks!AzureFunctionsDownloadSiteDump,
         AzureTasks!AzureFunctionsFetchAppSettings
<1>10. CASE \/ AzureTasks!AzureFunctionsCollectProcessDetails
           \/ AzureTasks!AzureFunctionsCollectLiveMemoryDump
  <2>1. PICK t \in {"CollectProcessDetails", "CollectLiveMemoryDump"} :
          /\ AzureTasks!Runs(t)
          /\ \/ AzureTasks!AzureFunctionsCollectProcessDetails /\ t = "CollectProcessDetails"
             \/ AzureTasks!AzureFunctionsCollectLiveMemoryDump /\ t = "CollectLiveMemoryDump"
    BY <1>0, <1>10, Zenon DEF AzureNames, AzureTasks!AzureFunctionsCollectProcessDetails,
         AzureTasks!AzureFunctionsCollectLiveMemoryDump
  <2>. QED BY <2>1, DetailsEffect
<1>11. CASE AzureTasks!AzureFunctionsConfigureCrashDump
  <2>1. AzureTasks!Runs("ConfigureCrashDump")
    BY <1>0, <1>11 DEF AzureNames, AzureTasks!AzureFunctionsConfigureCrashDump
  <2>. QED BY <1>11, <2>1, ConfigureEffect
<1>12. CASE AzureTasks!Done
  BY <1>12 DEF AzureTasks!Done
<1>. QED
  BY <1>2, <1>3, <1>4, <1>5, <1>6, <1>7, <1>8, <1>9, <1>10, <1>11, <1>12
  DEF AzureTasks!Next

\* It is kept by every task of the family.
LEMMA AzureKept ==
  ASSUME AzureInv, AzureTasks!Next
  PROVE  AzureInv'
<1>1. CASE UNCHANGED AzureTasks!vars
  BY <1>1, AzureStutters DEF AzureTasks!vars
<1>. QED BY <1>1, AzureTaskEffect, AzureEffectKeeps

-----------------------------------------------------------------------------
(* The infrastructure agent *)

\* The names of tasks that the proofs tell apart.
InfraNames ==
  /\ InfraTasks!Collect = "Infra/Log/Collect"
  /\ InfraTasks!Version = "Infra/Agent/Version"
  /\ InfraTasks!Debug = "Infra/Agent/Debug"
  /\ {"Infra/Log/Collect", "Infra/Agent/Version", "Infra/Agent/Debug"} \subseteq InfraTasks!Tasks

\* The names are those of the code.
LEMMA InfraNamesHold == InfraNames
BY DEF InfraNames, InfraTasks!Collect, InfraTasks!Version, InfraTasks!Debug, InfraTasks!Tasks

\* What Log/Collect hands on is on its way to the archive, and is not nothing.
LogsOnTheWay ==
  InfraTasks!Collect \in DOMAIN results /\ Holds(results[InfraTasks!Collect]) =>
    pending \cup DOMAIN archive # {}

\* A version is handed on with Info, and is that of the agent.
VersionTold ==
  /\ InfraTasks!Version \in DOMAIN results
  /\ Holds(results[InfraTasks!Version]) \/ results[InfraTasks!Version].status = "Info"
  => /\ Holds(results[InfraTasks!Version])
     /\ host.release.answer = "version"
     /\ results[InfraTasks!Version].payload = host.release.minor

\* The archive gets its logs when all tasks have run.
CopiedAtTheEnd == DOMAIN archive # {} => InfraTasks!Tasks \subseteq DOMAIN results

\* Debug is the one that switches and waits for lines, after Log/Collect.
SwitchedByDebug ==
  /\ level = "debug" => InfraTasks!Collect \in DOMAIN results
  /\ /\ InfraTasks!Debug \in DOMAIN results
     /\ results[InfraTasks!Debug].status = "Success"
     => lines = TRUE

InfraInv ==
  /\ host \in InfraHost
  /\ LogsOnTheWay
  /\ VersionTold
  /\ CopiedAtTheEnd
  /\ SwitchedByDebug
  /\ InfraTasks!SwitchedForALog
  /\ InfraTasks!DebugLogsCollected

\* A result is kept once it is there.
LEMMA InfraReturn ==
  ASSUME NEW t, NEW r, InfraTasks!Return(t, r), t \notin DOMAIN results
  PROVE  /\ DOMAIN results' = DOMAIN results \cup {t}
         /\ results'[t] = r
         /\ \A u \in DOMAIN results : results'[u] = results[u]
BY DEF InfraTasks!Return

\* A task that is none of the three and only looks keeps the invariant.
LEMMA InfraOtherTask ==
  ASSUME InfraInv, NEW t, NEW r, InfraTasks!Return(t, r), t \notin DOMAIN results,
         t \notin {"Infra/Log/Collect", "Infra/Agent/Version", "Infra/Agent/Debug"},
         UNCHANGED InfraTasks!unchanged
  PROVE  InfraInv'
<1>0. InfraNames BY InfraNamesHold
<1>1. /\ DOMAIN results' = DOMAIN results \cup {t}
      /\ \A u \in DOMAIN results : results'[u] = results[u]
  BY InfraReturn
<1>2. UNCHANGED <<host, level, lines, pending, archive>>
  BY DEF InfraTasks!unchanged
<1>3. LogsOnTheWay' /\ VersionTold'
  BY <1>0, <1>1, <1>2 DEF InfraInv, LogsOnTheWay, VersionTold, InfraNames, Holds
<1>4. CopiedAtTheEnd' /\ SwitchedByDebug'
  BY <1>0, <1>1, <1>2 DEF InfraInv, CopiedAtTheEnd, SwitchedByDebug, InfraNames
<1>5. InfraTasks!SwitchedForALog' /\ InfraTasks!DebugLogsCollected'
  BY <1>0, <1>1, <1>2
  DEF InfraInv, InfraTasks!SwitchedForALog, InfraTasks!DebugLogsCollected, InfraTasks!Ran,
      InfraNames
<1>. QED BY <1>2, <1>3, <1>4, <1>5 DEF InfraInv

\* Log/Collect hands on logs only when it sends some on their way.
LEMMA LogCollectStep ==
  ASSUME InfraInv, InfraTasks!InfraLogCollect
  PROVE  InfraInv'
<1>. DEFINE t == InfraTasks!Collect
            paths == InfraTasks!GetLogFilePaths
            valid == InfraTasks!ValidatePaths(paths)
<1>0. InfraNames BY InfraNamesHold
<1>1. t \notin DOMAIN results /\ UNCHANGED <<host, level, lines, archive>>
  BY DEF InfraTasks!InfraLogCollect, InfraTasks!Ready
<1>2. PICK r : /\ InfraTasks!Return(t, r)
               /\ Holds(r) => pending' # {}
  <2>1. CASE InfraTasks!Present
    <3>1. /\ InfraTasks!Return(t, InfraTasks!CollectResult(paths, valid))
          /\ pending' = valid
      BY <2>1, Zenon DEF InfraTasks!InfraLogCollect
    <3>. HIDE DEF paths, valid
    <3>2. Holds(InfraTasks!CollectResult(paths, valid)) => valid # {}
      BY DEF Holds, InfraTasks!CollectResult, InfraTasks!Verdict
    <3>. QED BY <3>1, <3>2
  <2>2. CASE ~InfraTasks!Present
    <3>1. InfraTasks!Return(t, InfraTasks!Verdict("None"))
      BY <2>2, Zenon DEF InfraTasks!InfraLogCollect
    <3>. QED BY <3>1 DEF Holds, InfraTasks!Verdict
  <2>. QED BY <2>1, <2>2
<1>3. /\ DOMAIN results' = DOMAIN results \cup {t}
      /\ results'[t] = r
      /\ \A u \in DOMAIN results : results'[u] = results[u]
  BY <1>1, <1>2, InfraReturn
<1>4. LogsOnTheWay' /\ VersionTold'
  BY <1>0, <1>1, <1>2, <1>3 DEF InfraInv, LogsOnTheWay, VersionTold, InfraNames, Holds
<1>5. CopiedAtTheEnd' /\ SwitchedByDebug'
  BY <1>0, <1>1, <1>3 DEF InfraInv, CopiedAtTheEnd, SwitchedByDebug, InfraNames
<1>6. level # "debug"
  BY <1>1 DEF InfraInv, SwitchedByDebug
<1>7. InfraTasks!SwitchedForALog' /\ InfraTasks!DebugLogsCollected'
  BY <1>0, <1>1, <1>3, <1>6
  DEF InfraInv, InfraTasks!SwitchedForALog, InfraTasks!DebugLogsCollected, InfraTasks!Ran,
      InfraNames
<1>. QED BY <1>1, <1>4, <1>5, <1>7 DEF InfraInv

\* Agent/Version hands on no version but the agent's.
LEMMA VersionStep ==
  ASSUME InfraInv, InfraTasks!InfraAgentVersion
  PROVE  InfraInv'
<1>. DEFINE t == InfraTasks!Version
<1>0. InfraNames BY InfraNamesHold
<1>1. t \notin DOMAIN results /\ UNCHANGED <<host, level, lines, pending, archive>>
  BY DEF InfraTasks!InfraAgentVersion, InfraTasks!Ready, InfraTasks!unchanged
<1>2. host.release.answer \in {"version", "fails", "garbage"}
  BY TaskEffectsValues DEF InfraInv, TaskEffectsAssumption, InfraTasks!InfraAgentAssumption,
       InfraTasks!HostType
<1>3. PICK r : /\ InfraTasks!Return(t, r)
               /\ Holds(r) \/ r.status = "Info" =>
                    Holds(r) /\ host.release.answer = "version" /\ r.payload = host.release.minor
  <2>1. \A s : ~Holds(InfraTasks!Verdict(s)) /\ InfraTasks!Verdict(s).status = s
    BY DEF Holds, InfraTasks!Verdict
  <2>2. CASE ~InfraTasks!Present \/ ~host.shell
    BY <2>1, <2>2 DEF InfraTasks!InfraAgentVersion
  <2>3. CASE InfraTasks!Present /\ host.shell /\ host.release.answer = "fails"
    BY <2>1, <2>3 DEF InfraTasks!InfraAgentVersion
  <2>4. CASE InfraTasks!Present /\ host.shell /\ host.release.answer = "garbage"
    BY <2>1, <2>4 DEF InfraTasks!InfraAgentVersion
  <2>5. CASE InfraTasks!Present /\ host.shell /\ host.release.answer = "version"
    <3>1. InfraTasks!Return(t, InfraTasks!ValidatePublishDate(host.release))
      BY <2>5 DEF InfraTasks!InfraAgentVersion
    <3>2. \/ InfraTasks!ValidatePublishDate(host.release) = InfraTasks!With("Info", host.release.minor)
          \/ \E s \in {"Failure", "Warning"} :
               InfraTasks!ValidatePublishDate(host.release) = InfraTasks!Verdict(s)
      BY DEF InfraTasks!ValidatePublishDate
    <3>3. /\ InfraTasks!With("Info", host.release.minor).payload = host.release.minor
          /\ Holds(InfraTasks!With("Info", host.release.minor))
      BY DEF InfraTasks!With, Holds
    <3>. QED BY <2>1, <2>5, <3>1, <3>2, <3>3
  <2>. QED BY <1>2, <2>2, <2>3, <2>4, <2>5
<1>4. /\ DOMAIN results' = DOMAIN results \cup {t}
      /\ results'[t] = r
      /\ \A u \in DOMAIN results : results'[u] = results[u]
  BY <1>1, <1>3, InfraReturn
<1>5. LogsOnTheWay' /\ VersionTold'
  <2>1. LogsOnTheWay'
    BY <1>0, <1>1, <1>4 DEF InfraInv, LogsOnTheWay, InfraNames, Holds
  <2>. HIDE DEF t
  <2>2. Holds(results[t])' <=> Holds(r)
    BY <1>4 DEF Holds
  <2>. QED BY <1>1, <1>3, <1>4, <2>1, <2>2 DEF VersionTold, t
<1>6. CopiedAtTheEnd' /\ SwitchedByDebug'
  BY <1>0, <1>1, <1>4 DEF InfraInv, CopiedAtTheEnd, SwitchedByDebug, InfraNames
<1>7. InfraTasks!SwitchedForALog' /\ InfraTasks!DebugLogsCollected'
  BY <1>0, <1>1, <1>4
  DEF InfraInv, InfraTasks!SwitchedForALog, InfraTasks!DebugLogsCollected, InfraTasks!Ran,
      InfraNames
<1>. QED BY <1>1, <1>5, <1>6, <1>7 DEF InfraInv

\* Debug is not refused only when logs are on their way and no version is known
\* that lacks newrelic-infra-ctl.
LEMMA NotRefused ==
  ASSUME NEW logs, NEW version, InfraTasks!Refusal(logs, version) = "None"
  PROVE  /\ Holds(logs)
         /\ Holds(version) \/ version.status = "Info"
         /\ Holds(version) => ~(version.payload < InfraTasks!CtlVersion)
<1>. USE DEF InfraTasks!Refusal
<1>1. /\ logs.status \notin {"Error", "Failure", "None"}
      /\ ~(InfraTasks!HasPayload(logs) /\ ~InfraTasks!Holds(logs))
  BY Zenon
<1>2. /\ version.status \in {"Info", "Warning"}
      /\ ~(version.status = "Warning" /\ ~InfraTasks!Holds(version))
  BY <1>1, Zenon
<1>3. ~(InfraTasks!Holds(version) /\ version.payload < InfraTasks!CtlVersion)
  BY <1>1, <1>2, Zenon
<1>4. InfraTasks!HasPayload(logs)
  BY <1>1 DEF InfraTasks!HasPayload
<1>. QED BY <1>1, <1>2, <1>3, <1>4 DEF InfraTasks!Holds, Holds

\* Debug switches an agent whose logs are collected, and a success has lines.
LEMMA DebugStep ==
  ASSUME InfraInv, InfraTasks!InfraAgentDebug
  PROVE  InfraInv'
<1>. DEFINE t == InfraTasks!Debug
            logs == InfraTasks!Upstream(InfraTasks!Collect)
            version == InfraTasks!Upstream(InfraTasks!Version)
            refusal == InfraTasks!Refusal(logs, version)
<1>0. InfraNames BY InfraNamesHold
<1>1. /\ t \notin DOMAIN results /\ UNCHANGED <<host, pending, archive>>
      /\ {InfraTasks!Collect, InfraTasks!Version} \subseteq DOMAIN results
  BY DEF InfraTasks!InfraAgentDebug, InfraTasks!Ready
<1>2. PICK r : /\ InfraTasks!Return(t, r)
               /\ \/ level' = level /\ lines' = lines /\ r.status # "Success"
                  \/ /\ refusal = "None" /\ level' = "debug"
                     /\ r.status = "Success" => lines' = TRUE
  <2>. HIDE DEF refusal
  <2>1. \A s : InfraTasks!Verdict(s).status = s
    BY DEF InfraTasks!Verdict
  <2>2. CASE refusal # "None"
    <3>1. InfraTasks!Return(t, InfraTasks!Verdict(refusal)) /\ UNCHANGED <<level, lines>>
      BY <2>2 DEF InfraTasks!InfraAgentDebug, refusal
    <3>2. refusal # "Success"
      BY DEF refusal, InfraTasks!Refusal
    <3>. QED BY <2>1, <3>1, <3>2
  <2>3. CASE refusal = "None"
    <3>1. \/ InfraTasks!Return(t, InfraTasks!Verdict("Error")) /\ UNCHANGED <<level, lines>>
          \/ InfraTasks!Return(t, InfraTasks!Verdict("Success")) /\ level' = "debug" /\ lines' = TRUE
          \/ InfraTasks!Return(t, InfraTasks!Verdict("Warning")) /\ level' = "debug"
      BY <2>3 DEF InfraTasks!InfraAgentDebug, refusal
    <3>. QED BY <2>1, <2>3, <3>1
  <2>. QED BY <2>2, <2>3
<1>3. /\ DOMAIN results' = DOMAIN results \cup {t}
      /\ results'[t] = r
      /\ \A u \in DOMAIN results : results'[u] = results[u]
  BY <1>1, <1>2, InfraReturn
<1>4. LogsOnTheWay' /\ VersionTold'
  BY <1>0, <1>1, <1>3 DEF InfraInv, LogsOnTheWay, VersionTold, InfraNames, Holds
<1>5. CopiedAtTheEnd'
  BY <1>0, <1>1, <1>3 DEF InfraInv, CopiedAtTheEnd, InfraNames
<1>6. SwitchedByDebug'
  BY <1>0, <1>1, <1>2, <1>3 DEF InfraInv, SwitchedByDebug, InfraNames
<1>7. InfraTasks!SwitchedForALog'
  <2>1. CASE level' = level
    BY <1>1, <2>1 DEF InfraInv, InfraTasks!SwitchedForALog
  <2>2. CASE refusal = "None"
    <3>1. /\ Holds(logs)
          /\ Holds(version) \/ version.status = "Info"
          /\ Holds(version) => ~(version.payload < InfraTasks!CtlVersion)
      BY <2>2, NotRefused
    <3>2. logs = results[InfraTasks!Collect] /\ version = results[InfraTasks!Version]
      BY <1>1 DEF InfraTasks!Upstream
    <3>3. pending \cup DOMAIN archive # {}
      BY <1>1, <3>1, <3>2 DEF InfraInv, LogsOnTheWay
    <3>4. Holds(version) /\ host.release.answer = "version" /\ version.payload = host.release.minor
      BY <1>1, <3>1, <3>2 DEF InfraInv, VersionTold
    <3>5. host.release.minor \in Nat
      BY TaskEffectsValues DEF InfraInv, TaskEffectsAssumption, InfraTasks!InfraAgentAssumption,
           InfraTasks!HostType
    <3>6. host.release.minor >= InfraTasks!CtlVersion
      BY <3>1, <3>4, <3>5 DEF InfraTasks!CtlVersion
    <3>. QED BY <1>1, <3>3, <3>4, <3>6 DEF InfraTasks!SwitchedForALog
  <2>. QED BY <1>2, <2>1, <2>2
<1>8. InfraTasks!DebugLogsCollected'
  <2>1. DOMAIN archive = {}
    BY <1>0, <1>1 DEF InfraInv, CopiedAtTheEnd, InfraNames
  <2>. QED BY <1>1, <2>1 DEF InfraTasks!DebugLogsCollected
<1>. QED BY <1>1, <1>4, <1>5, <1>6, <1>7, <1>8 DEF InfraInv

\* The archive takes the logs as they are after all tasks, with their lines.
LEMMA InfraCopyStep ==
  ASSUME InfraInv, InfraTasks!CopyFilesToZip
  PROVE  InfraInv'
<1>0. InfraNames BY InfraNamesHold
<1>1. /\ InfraTasks!Tasks \subseteq DOMAIN results
      /\ DOMAIN archive' = pending \cup DOMAIN archive
      /\ \A l \in DOMAIN archive' : archive'[l] = IF l \in pending THEN lines ELSE archive[l]
      /\ pending' = {}
      /\ UNCHANGED <<host, level, lines, results>>
  BY DEF InfraTasks!CopyFilesToZip, InfraTasks!ChannelClosed
<1>2. LogsOnTheWay' /\ VersionTold' /\ CopiedAtTheEnd' /\ SwitchedByDebug'
  BY <1>1 DEF InfraInv, LogsOnTheWay, VersionTold, CopiedAtTheEnd, SwitchedByDebug, Holds
<1>3. InfraTasks!SwitchedForALog'
  BY <1>1 DEF InfraInv, InfraTasks!SwitchedForALog
<1>4. InfraTasks!DebugLogsCollected'
  BY <1>0, <1>1
  DEF InfraInv, SwitchedByDebug, InfraTasks!DebugLogsCollected, InfraTasks!Ran, InfraNames
<1>. QED BY <1>1, <1>2, <1>3, <1>4 DEF InfraInv

\* The invariant of the agent is inductive.
LEMMA InfraStarts ==
  ASSUME InfraTasks!Init
  PROVE  InfraInv
BY DEF InfraTasks!Init, InfraTasks!NothingRun, InfraInv, LogsOnTheWay, VersionTold, CopiedAtTheEnd,
       SwitchedByDebug, InfraTasks!SwitchedForALog, InfraTasks!DebugLogsCollected, InfraTasks!Ran

\* It is kept by a step that leaves what it speaks of alone.
LEMMA InfraStutters ==
  ASSUME InfraInv, UNCHANGED <<host, results, level, lines, pending, archive>>
  PROVE  InfraInv'
<1>1. LogsOnTheWay' /\ VersionTold' /\ CopiedAtTheEnd' /\ SwitchedByDebug'
  BY DEF InfraInv, LogsOnTheWay, VersionTold, CopiedAtTheEnd, SwitchedByDebug, Holds
<1>2. InfraTasks!SwitchedForALog' /\ InfraTasks!DebugLogsCollected'
  BY DEF InfraInv, InfraTasks!SwitchedForALog, InfraTasks!DebugLogsCollected, InfraTasks!Ran
<1>. QED BY <1>1, <1>2 DEF InfraInv

\* It is kept by every task of the family.
LEMMA InfraKept ==
  ASSUME InfraInv, InfraTasks!Next
  PROVE  InfraInv'
<1>1. CASE \/ InfraTasks!InfraConfigAgent \/ InfraTasks!InfraConfigDataDirectoryCollect
           \/ InfraTasks!InfraLogLevelCheck \/ InfraTasks!InfraAgentConnect
           \/ InfraTasks!InfraEnvClockSkew
  <2>1. PICK t \in {InfraTasks!ConfigAgent, InfraTasks!DataDirectory, InfraTasks!LevelCheck,
                    InfraTasks!Connect, InfraTasks!ClockSkew} :
          /\ t \notin DOMAIN results /\ UNCHANGED InfraTasks!unchanged
          /\ \E r : InfraTasks!Return(t, r)
    <3>1. CASE InfraTasks!InfraConfigAgent
      BY <3>1, Zenon DEF InfraTasks!InfraConfigAgent, InfraTasks!Ready
    <3>2. CASE InfraTasks!InfraConfigDataDirectoryCollect
      BY <3>2, Zenon DEF InfraTasks!InfraConfigDataDirectoryCollect, InfraTasks!Ready
    <3>3. CASE InfraTasks!InfraLogLevelCheck
      BY <3>3, Zenon DEF InfraTasks!InfraLogLevelCheck, InfraTasks!Ready
    <3>4. CASE InfraTasks!InfraAgentConnect
      BY <3>4, Zenon DEF InfraTasks!InfraAgentConnect, InfraTasks!Ready
    <3>5. CASE InfraTasks!InfraEnvClockSkew
      BY <3>5, Zenon DEF InfraTasks!InfraEnvClockSkew, InfraTasks!Ready
    <3>. QED BY <1>1, <3>1, <3>2, <3>3, <3>4, <3>5
  <2>2. t \notin {"Infra/Log/Collect", "Infra/Agent/Version", "Infra/Agent/Debug"}
    BY DEF InfraTasks!ConfigAgent, InfraTasks!DataDirectory, InfraTasks!LevelCheck,
           InfraTasks!Connect, InfraTasks!ClockSkew
  <2>. QED BY <2>1, <2>2, InfraOtherTask
<1>2. CASE InfraTasks!Done
  BY <1>2, InfraStutters DEF InfraTasks!Done, InfraTasks!vars
<1>. QED
  BY <1>1, <1>2, LogCollectStep, VersionStep, DebugStep, InfraCopyStep DEF InfraTasks!Next

-----------------------------------------------------------------------------
(* The integrations of the infrastructure agent *)

\* The names of tasks that the proofs tell apart.
IntegrationsNames ==
  /\ IntegrationsTasks!Collect = "Infra/Config/IntegrationsCollect"
  /\ IntegrationsTasks!Jmx = "Infra/Config/ValidateJMX"

\* The names are those of the code.
LEMMA IntegrationsNamesHold == IntegrationsNames
BY DEF IntegrationsNames, IntegrationsTasks!Collect, IntegrationsTasks!Jmx

\* A connection that can be used was answered when it was tested.
ConnectionAnswered ==
  /\ IntegrationsTasks!Jmx \in DOMAIN results
  /\ results[IntegrationsTasks!Jmx].status \notin {"None", "Failure", "Error"}
  => tested # {} /\ tested \subseteq host.server

\* Queries are asked when there is such a connection, which is tested once.
AskedWhenConnected ==
  asked # {} =>
    /\ IntegrationsTasks!Jmx \in DOMAIN results
    /\ results[IntegrationsTasks!Jmx].status \notin {"None", "Failure", "Error"}

IntegrationsInv ==
  /\ ConnectionAnswered
  /\ AskedWhenConnected
  /\ IntegrationsTasks!DeclinedNotCopied

\* A result is kept once it is there.
LEMMA IntegrationsReturn ==
  ASSUME NEW t, NEW r, IntegrationsTasks!Return(t, r), t \notin DOMAIN results
  PROVE  /\ DOMAIN results' = DOMAIN results \cup {t}
         /\ results'[t] = r
         /\ \A u \in DOMAIN results : results'[u] = results[u]
BY DEF IntegrationsTasks!Return

\* What Collect tells is not changed by the results of other tasks.
LEMMA CollectUnchanged ==
  ASSUME IntegrationsTasks!DeclinedNotCopied,
         \/ results' = results
         \/ \E t, r : /\ t # "Infra/Config/IntegrationsCollect" /\ t \notin DOMAIN results
                      /\ IntegrationsTasks!Return(t, r),
         UNCHANGED <<host, declined, kept>>
  PROVE  IntegrationsTasks!DeclinedNotCopied'
<1>0. IntegrationsNames BY IntegrationsNamesHold
<1>. DEFINE c == IntegrationsTasks!Collect
<1>1. IntegrationsTasks!Upstream(c)' = IntegrationsTasks!Upstream(c)
  <2>1. CASE results' = results
    BY <2>1 DEF IntegrationsTasks!Upstream
  <2>2. CASE \E t, r : /\ t # "Infra/Config/IntegrationsCollect" /\ t \notin DOMAIN results
                       /\ IntegrationsTasks!Return(t, r)
    <3>0. PICK t, r : /\ t # "Infra/Config/IntegrationsCollect" /\ t \notin DOMAIN results
                      /\ IntegrationsTasks!Return(t, r)
      BY <2>2
    <3>1. /\ c \in DOMAIN results' <=> c \in DOMAIN results
          /\ c \in DOMAIN results => results'[c] = results[c]
      <4>1. /\ DOMAIN results' = DOMAIN results \cup {t}
            /\ \A u \in DOMAIN results : results'[u] = results[u]
        BY <3>0, IntegrationsReturn
      <4>. QED BY <1>0, <3>0, <4>1 DEF IntegrationsNames
    <3>. QED BY <3>1 DEF IntegrationsTasks!Upstream
  <2>. QED BY <2>1, <2>2
<1>2. IntegrationsTasks!Files' = IntegrationsTasks!Files
  BY DEF IntegrationsTasks!Files
<1>. QED
  BY <1>1, <1>2 DEF IntegrationsTasks!DeclinedNotCopied, IntegrationsTasks!Succeeded

\* What ValidateJMX tells is not changed by the results of other tasks.
LEMMA JmxUnchanged ==
  ASSUME ConnectionAnswered, AskedWhenConnected,
         \/ results' = results
         \/ \E t, r : /\ t # "Infra/Config/ValidateJMX" /\ t \notin DOMAIN results
                      /\ IntegrationsTasks!Return(t, r),
         UNCHANGED <<host, tested>>,
         \/ asked' = asked
         \/ /\ IntegrationsTasks!Jmx \in DOMAIN results
            /\ results[IntegrationsTasks!Jmx].status \notin {"None", "Failure", "Error"}
  PROVE  ConnectionAnswered' /\ AskedWhenConnected'
<1>0. IntegrationsNames BY IntegrationsNamesHold
<1>. DEFINE j == IntegrationsTasks!Jmx
<1>1. /\ j \in DOMAIN results' <=> j \in DOMAIN results
      /\ j \in DOMAIN results => results'[j] = results[j]
  <2>1. CASE results' = results
    BY <2>1
  <2>2. CASE \E t, r : /\ t # "Infra/Config/ValidateJMX" /\ t \notin DOMAIN results
                       /\ IntegrationsTasks!Return(t, r)
    <3>1. PICK t, r : /\ t # "Infra/Config/ValidateJMX" /\ t \notin DOMAIN results
                      /\ IntegrationsTasks!Return(t, r)
      BY <2>2
    <3>2. /\ DOMAIN results' = DOMAIN results \cup {t}
          /\ \A u \in DOMAIN results : results'[u] = results[u]
      BY <3>1, IntegrationsReturn
    <3>. QED BY <1>0, <3>1, <3>2 DEF IntegrationsNames
  <2>. QED BY <2>1, <2>2
<1>. QED BY <1>1 DEF ConnectionAnswered, AskedWhenConnected

\* Collect copies what was not kept back.
LEMMA IntegrationsCollectStep ==
  ASSUME IntegrationsInv, IntegrationsTasks!IntegrationsCollect
  PROVE  IntegrationsInv'
<1>0. IntegrationsNames BY IntegrationsNamesHold
<1>. DEFINE c == IntegrationsTasks!Collect
<1>1. c \notin DOMAIN results /\ UNCHANGED <<host, tested, asked>>
  BY DEF IntegrationsTasks!IntegrationsCollect, IntegrationsTasks!Ready, IntegrationsTasks!contacts
<1>2. PICK r : /\ IntegrationsTasks!Return(c, r)
               /\ r.status = "Success" =>
                    declined' \cap kept' = {} /\ declined' \cup kept' = IntegrationsTasks!Files
  <2>1. CASE host.agent /\ host.files # <<>>
    <3>1. PICK s \in SUBSET IntegrationsTasks!ToSet(host.files) :
            /\ declined' = s /\ kept' = IntegrationsTasks!FilesToCopy(s)
            /\ IntegrationsTasks!Return(c, IntegrationsTasks!With("Success", host.files))
      BY <2>1, Zenon DEF IntegrationsTasks!IntegrationsCollect
    <3>. QED BY <3>1 DEF IntegrationsTasks!FilesToCopy, IntegrationsTasks!Files
  <2>2. CASE ~(host.agent /\ host.files # <<>>)
    <3>1. IntegrationsTasks!Return(c, IntegrationsTasks!Verdict("None"))
      BY <2>2, Zenon DEF IntegrationsTasks!IntegrationsCollect
    <3>. QED BY <3>1 DEF IntegrationsTasks!Verdict
  <2>. QED BY <2>1, <2>2
<1>3. c \in DOMAIN results' /\ results'[c] = r
  BY <1>1, <1>2, IntegrationsReturn
<1>4. IntegrationsTasks!DeclinedNotCopied'
  <2>1. IntegrationsTasks!Upstream(c)' = r
    BY <1>3 DEF IntegrationsTasks!Upstream
  <2>2. IntegrationsTasks!Files' = IntegrationsTasks!Files
    BY <1>1 DEF IntegrationsTasks!Files
  <2>. QED BY <1>2, <2>1, <2>2 DEF IntegrationsTasks!DeclinedNotCopied, IntegrationsTasks!Succeeded
<1>5. ConnectionAnswered' /\ AskedWhenConnected'
  BY <1>0, <1>1, <1>2, JmxUnchanged DEF IntegrationsInv, IntegrationsNames
<1>. QED BY <1>4, <1>5 DEF IntegrationsInv

\* ValidateJMX passes a connection only when the server answered it.
LEMMA ValidateJMXStep ==
  ASSUME IntegrationsInv, IntegrationsTasks!ValidateJMX
  PROVE  IntegrationsInv'
<1>0. IntegrationsNames BY IntegrationsNamesHold
<1>. DEFINE j == IntegrationsTasks!Jmx
<1>1. j \notin DOMAIN results /\ UNCHANGED <<host, declined, kept, asked>>
  BY DEF IntegrationsTasks!ValidateJMX, IntegrationsTasks!Ready
<1>2. PICK r : /\ IntegrationsTasks!Return(j, r)
               /\ r.status \notin {"None", "Failure", "Error"} =>
                    tested' # {} /\ tested' \subseteq host.server
  <2>1. \A s : IntegrationsTasks!Verdict(s).status = s
    BY DEF IntegrationsTasks!Verdict
  <2>2. CASE IntegrationsTasks!Unmatched(j, "jmx")
    BY <2>1, <2>2 DEF IntegrationsTasks!Unmatched
  <2>3. CASE ~IntegrationsTasks!Unmatched(j, "jmx")
    <3>. DEFINE file == IntegrationsTasks!Pairs["jmx"].config
                args == IntegrationsTasks!BuildNrjmxArgs(file.jmx.address)
    <3>1. \/ IntegrationsTasks!Return(j, IntegrationsTasks!Verdict("Failure"))
          \/ /\ IntegrationsTasks!Return(j, IntegrationsTasks!ConnectionResult(file))
             /\ tested' = {args}
      BY <2>3, Zenon DEF IntegrationsTasks!ValidateJMX
    <3>. HIDE DEF file
    <3>2. args \notin host.server => IntegrationsTasks!ConnectionResult(file).status = "Failure"
      BY DEF IntegrationsTasks!ConnectionResult, IntegrationsTasks!With
    <3>. QED BY <2>1, <3>1, <3>2
  <2>. QED BY <2>2, <2>3
<1>3. j \in DOMAIN results' /\ results'[j] = r
  BY <1>1, <1>2, IntegrationsReturn
<1>4. ConnectionAnswered'
  BY <1>1, <1>2, <1>3 DEF ConnectionAnswered
<1>5. AskedWhenConnected'
  BY <1>1 DEF IntegrationsInv, AskedWhenConnected
<1>6. IntegrationsTasks!DeclinedNotCopied'
  BY <1>0, <1>1, <1>2, CollectUnchanged DEF IntegrationsInv, IntegrationsNames
<1>. QED BY <1>4, <1>5, <1>6 DEF IntegrationsInv


\* NrjmxMbeans asks only over a connection that ValidateJMX passed.
LEMMA NrjmxMbeansStep ==
  ASSUME IntegrationsInv, IntegrationsTasks!NrjmxMbeans
  PROVE  IntegrationsInv'
<1>0. IntegrationsNames BY IntegrationsNamesHold
<1>. DEFINE m == IntegrationsTasks!Mbeans
            upstream == IntegrationsTasks!Upstream(IntegrationsTasks!Jmx)
<1>1. /\ m \notin DOMAIN results /\ IntegrationsTasks!Jmx \in DOMAIN results
      /\ UNCHANGED <<host, declined, kept, tested>>
  BY DEF IntegrationsTasks!NrjmxMbeans, IntegrationsTasks!Ready
<1>2. m # "Infra/Config/ValidateJMX" /\ m # "Infra/Config/IntegrationsCollect"
  BY DEF IntegrationsTasks!Mbeans
<1>3. upstream = results[IntegrationsTasks!Jmx]
  BY <1>1 DEF IntegrationsTasks!Upstream
<1>4. \E r : IntegrationsTasks!Return(m, r)
  BY Zenon DEF IntegrationsTasks!NrjmxMbeans
<1>5. asked' = asked \/ upstream.status \notin {"None", "Failure", "Error"}
  <2>1. CASE upstream.status \in {"None", "Failure"}
    BY <2>1, Zenon DEF IntegrationsTasks!NrjmxMbeans
  <2>2. CASE upstream.status \notin {"None", "Failure"} /\ upstream.status = "Error"
    BY <2>2, Zenon DEF IntegrationsTasks!NrjmxMbeans
  <2>. QED BY <2>1, <2>2
<1>6. ConnectionAnswered' /\ AskedWhenConnected'
  BY <1>1, <1>2, <1>3, <1>4, <1>5, JmxUnchanged DEF IntegrationsInv
<1>7. IntegrationsTasks!DeclinedNotCopied'
  BY <1>1, <1>2, <1>4, CollectUnchanged DEF IntegrationsInv
<1>. QED BY <1>6, <1>7 DEF IntegrationsInv

\* The other tasks of the family have no part in it.
LEMMA IntegrationsOtherStep ==
  ASSUME IntegrationsInv, UNCHANGED <<host, declined, kept, tested, asked>>,
         \/ results' = results
         \/ \E t, r : /\ t \notin {"Infra/Config/IntegrationsCollect", "Infra/Config/ValidateJMX"}
                      /\ t \notin DOMAIN results /\ IntegrationsTasks!Return(t, r)
  PROVE  IntegrationsInv'
<1>1. ConnectionAnswered' /\ AskedWhenConnected'
  BY JmxUnchanged DEF IntegrationsInv
<1>2. IntegrationsTasks!DeclinedNotCopied'
  BY CollectUnchanged DEF IntegrationsInv
<1>. QED BY <1>1, <1>2 DEF IntegrationsInv

\* The invariant of the integrations is inductive.
LEMMA IntegrationsStarts ==
  ASSUME IntegrationsTasks!Init
  PROVE  IntegrationsInv
BY DEF IntegrationsTasks!Init, IntegrationsTasks!NothingRun, IntegrationsTasks!Verdict,
       IntegrationsInv, ConnectionAnswered, AskedWhenConnected,
       IntegrationsTasks!DeclinedNotCopied, IntegrationsTasks!Succeeded, IntegrationsTasks!Upstream

\* It is kept by every task of the family.
LEMMA IntegrationsKept ==
  ASSUME IntegrationsInv, IntegrationsTasks!Next
  PROVE  IntegrationsInv'
<1>1. CASE \/ IntegrationsTasks!IntegrationsValidate \/ IntegrationsTasks!IntegrationsValidateJson
           \/ IntegrationsTasks!IntegrationsMatch
  <2>1. PICK t \in {IntegrationsTasks!Validate, IntegrationsTasks!Json, IntegrationsTasks!Match} :
          /\ t \notin DOMAIN results /\ UNCHANGED IntegrationsTasks!unchanged
          /\ \E r : IntegrationsTasks!Return(t, r)
    <3>1. CASE IntegrationsTasks!IntegrationsValidate
      BY <3>1, Zenon DEF IntegrationsTasks!IntegrationsValidate, IntegrationsTasks!Ready
    <3>2. CASE IntegrationsTasks!IntegrationsValidateJson
      BY <3>2, Zenon DEF IntegrationsTasks!IntegrationsValidateJson, IntegrationsTasks!Ready
    <3>3. CASE IntegrationsTasks!IntegrationsMatch
      BY <3>3, Zenon DEF IntegrationsTasks!IntegrationsMatch, IntegrationsTasks!Ready
    <3>. QED BY <1>1, <3>1, <3>2, <3>3
  <2>2. t \notin {"Infra/Config/IntegrationsCollect", "Infra/Config/ValidateJMX"}
    BY DEF IntegrationsTasks!Validate, IntegrationsTasks!Json, IntegrationsTasks!Match
  <2>. QED
    BY <2>1, <2>2, IntegrationsOtherStep DEF IntegrationsTasks!unchanged, IntegrationsTasks!contacts
<1>2. CASE IntegrationsTasks!ValidateZookeeperPath
  <2>. DEFINE z == IntegrationsTasks!Zookeeper
  <2>1. z \notin DOMAIN results /\ UNCHANGED <<host, declined, kept, tested, asked>>
    BY <1>2 DEF IntegrationsTasks!ValidateZookeeperPath, IntegrationsTasks!Ready
  <2>2. results' = results \/ \E r : IntegrationsTasks!Return(z, r)
    BY <1>2, Zenon
    DEF IntegrationsTasks!ValidateZookeeperPath, IntegrationsTasks!Unmatched,
        IntegrationsTasks!Panic
  <2>3. z \notin {"Infra/Config/IntegrationsCollect", "Infra/Config/ValidateJMX"}
    BY DEF IntegrationsTasks!Zookeeper
  <2>. QED BY <2>1, <2>2, <2>3, IntegrationsOtherStep
<1>3. CASE IntegrationsTasks!Done
  BY <1>3, IntegrationsOtherStep
  DEF IntegrationsTasks!Done, IntegrationsTasks!vars
<1>. QED
  BY <1>1, <1>2, <1>3, IntegrationsCollectStep, ValidateJMXStep, NrjmxMbeansStep
  DEF IntegrationsTasks!Next

-----------------------------------------------------------------------------
(* The agents *)

\* What the statement about suites says of tasks that have run.
VersionsOfChosenAgents ==
  \A a \in AgentsTasks!Agents :
    AgentsTasks!Ran(AgentsTasks!Version(a)) => a \in AgentsTasks!Selected

\* Every task of an agent is one of an agent that was chosen, or does not look
\* for a version.
LEMMA AgentsTaskEffect ==
  ASSUME AgentsTasks!Next
  PROVE  \/ UNCHANGED <<host, results>>
         \/ \E t, r : /\ AgentsTasks!Return(t, r) /\ UNCHANGED host
                      /\ \A a : t = AgentsTasks!Version(a) => a \in AgentsTasks!Selected
<1>1. ASSUME NEW a, AgentsTasks!LanguageConfigAgent(a)
      PROVE  \E t, r : /\ AgentsTasks!Return(t, r) /\ UNCHANGED host
                       /\ \A b : t = AgentsTasks!Version(b) => b \in AgentsTasks!Selected
  <2>1. PICK r : AgentsTasks!Return(AgentsTasks!ConfigAgent(a), r) /\ UNCHANGED host
    BY <1>1, Zenon DEF AgentsTasks!LanguageConfigAgent
  <2>2. \A b : AgentsTasks!ConfigAgent(a) # AgentsTasks!Version(b)
    BY DEF AgentsTasks!ConfigAgent, AgentsTasks!Version
  <2>. QED BY <2>1, <2>2
<1>2. CASE \/ AgentsTasks!JavaConfigAgent \/ AgentsTasks!InfraConfigAgent
           \/ AgentsTasks!NodeConfigAgent \/ AgentsTasks!PythonConfigAgent
           \/ AgentsTasks!PHPConfigAgent \/ AgentsTasks!RubyConfigAgent
  BY <1>1, <1>2 DEF AgentsTasks!JavaConfigAgent, AgentsTasks!InfraConfigAgent,
       AgentsTasks!NodeConfigAgent, AgentsTasks!PythonConfigAgent,
       AgentsTasks!PHPConfigAgent, AgentsTasks!RubyConfigAgent
<1>3. CASE \/ AgentsTasks!DotNetAgentInstalled \/ AgentsTasks!DotNetCoreAgentInstalled
           \/ AgentsTasks!DotNetConfigAgent \/ AgentsTasks!DotNetCoreConfigAgent
           \/ AgentsTasks!NodeEnvDependencies \/ AgentsTasks!BaseAgentEOL
  <2>. DEFINE Others == {AgentsTasks!Installed("DotNet"), AgentsTasks!Installed("DotNetCore"),
                         AgentsTasks!ConfigAgent("DotNet"), AgentsTasks!ConfigAgent("DotNetCore"),
                         AgentsTasks!NodeDependencies, AgentsTasks!EOL}
  <2>1. PICK t \in Others : \E r : AgentsTasks!Return(t, r) /\ UNCHANGED host
    <3>1. CASE AgentsTasks!DotNetAgentInstalled
      BY <3>1, Zenon DEF AgentsTasks!DotNetAgentInstalled
    <3>2. CASE AgentsTasks!DotNetCoreAgentInstalled
      BY <3>2, Zenon DEF AgentsTasks!DotNetCoreAgentInstalled
    <3>3. CASE AgentsTasks!DotNetConfigAgent
      BY <3>3, Zenon DEF AgentsTasks!DotNetConfigAgent
    <3>4. CASE AgentsTasks!DotNetCoreConfigAgent
      BY <3>4, Zenon DEF AgentsTasks!DotNetCoreConfigAgent
    <3>5. CASE AgentsTasks!NodeEnvDependencies
      BY <3>5, Zenon DEF AgentsTasks!NodeEnvDependencies
    <3>6. CASE AgentsTasks!BaseAgentEOL
      BY <3>6, Zenon DEF AgentsTasks!BaseAgentEOL
    <3>. QED BY <1>3, <3>1, <3>2, <3>3, <3>4, <3>5, <3>6
  <2>2. \A a : t # AgentsTasks!Version(a)
    BY DEF AgentsTasks!Installed, AgentsTasks!ConfigAgent, AgentsTasks!NodeDependencies,
           AgentsTasks!EOL, AgentsTasks!Version
  <2>. QED BY <2>1, <2>2
<1>4. CASE \/ AgentsTasks!DotNetAgentVersion \/ AgentsTasks!JavaAgentVersion
           \/ AgentsTasks!NodeAgentVersion \/ AgentsTasks!PythonAgentVersion
           \/ AgentsTasks!RubyAgentVersion \/ AgentsTasks!PHPAgentVersion
  <2>1. PICK a \in AgentsTasks!Selected :
          \E r : AgentsTasks!Return(AgentsTasks!Version(a), r) /\ UNCHANGED host
    <3>1. CASE AgentsTasks!DotNetAgentVersion
      BY <3>1, Zenon DEF AgentsTasks!DotNetAgentVersion
    <3>2. CASE AgentsTasks!JavaAgentVersion
      BY <3>2, Zenon DEF AgentsTasks!JavaAgentVersion
    <3>3. CASE AgentsTasks!NodeAgentVersion
      BY <3>3, Zenon DEF AgentsTasks!NodeAgentVersion
    <3>4. CASE AgentsTasks!PythonAgentVersion
      BY <3>4, Zenon DEF AgentsTasks!PythonAgentVersion
    <3>5. CASE AgentsTasks!RubyAgentVersion
      BY <3>5, Zenon DEF AgentsTasks!RubyAgentVersion
    <3>6. CASE AgentsTasks!PHPAgentVersion
      BY <3>6, Zenon DEF AgentsTasks!PHPAgentVersion
    <3>. QED BY <1>4, <3>1, <3>2, <3>3, <3>4, <3>5, <3>6
  <2>2. \A b : AgentsTasks!Version(a) = AgentsTasks!Version(b) => a = b
    BY DEF AgentsTasks!Version
  <2>. QED BY <2>1, <2>2
<1>5. CASE AgentsTasks!Done
  BY <1>5 DEF AgentsTasks!Done, AgentsTasks!vars
<1>. QED BY <1>2, <1>3, <1>4, <1>5 DEF AgentsTasks!Next

\* A step that leaves the tasks alone keeps the statement.
LEMMA VersionsStutter ==
  ASSUME VersionsOfChosenAgents, UNCHANGED <<host, results>>
  PROVE  VersionsOfChosenAgents'
BY DEF VersionsOfChosenAgents, AgentsTasks!Ran, AgentsTasks!Selected, AgentsTasks!Agents,
       AgentsTasks!Version

\* Every task of the family keeps the statement.
LEMMA VersionsKept ==
  ASSUME VersionsOfChosenAgents, AgentsTasks!Next
  PROVE  VersionsOfChosenAgents'
<1>1. CASE UNCHANGED <<host, results>>
  BY <1>1, VersionsStutter
<1>2. CASE \E t, r : /\ AgentsTasks!Return(t, r) /\ UNCHANGED host
                     /\ \A a : t = AgentsTasks!Version(a) => a \in AgentsTasks!Selected
  <2>1. PICK t, r : /\ AgentsTasks!Return(t, r) /\ UNCHANGED host
                    /\ \A a : t = AgentsTasks!Version(a) => a \in AgentsTasks!Selected
    BY <1>2
  <2>2. DOMAIN results' = DOMAIN results \cup {t}
    BY <2>1 DEF AgentsTasks!Return
  <2>3. AgentsTasks!Selected' = AgentsTasks!Selected
    BY <2>1 DEF AgentsTasks!Selected, AgentsTasks!Agents
  <2>. QED
    BY <2>1, <2>2, <2>3
    DEF VersionsOfChosenAgents, AgentsTasks!Ran, AgentsTasks!Agents, AgentsTasks!Version
<1>. QED BY <1>1, <1>2, AgentsTaskEffect

\* The versions that EOL waits for are those of agents that were chosen.
LEMMA VersionsAreRespected ==
  ASSUME VersionsOfChosenAgents
  PROVE  AgentsTasks!SuitesRespected
<1>1. DOMAIN AgentsKeys =
        {"Java", "Infra", "Node", "Python", "PHP", "Ruby", "DotNet", "DotNetCore"}
  BY TaskEffectsValues DEF TaskEffectsAssumption, AgentsTasks!AgentDetectionAssumption
<1>2. AgentsTasks!AgentsOfSuites(host.suites) \subseteq AgentsTasks!Selected
  BY <1>1 DEF AgentsTasks!AgentsOfSuites, AgentsTasks!DefaultDependencies, AgentsTasks!Selected,
       AgentsTasks!Agents
<1>3. \A t \in AgentsTasks!EOLDependencies : t[1] \in AgentsTasks!Selected
  BY <1>2 DEF AgentsTasks!EOLDependencies, AgentsTasks!Version
<1>. QED BY <1>3 DEF VersionsOfChosenAgents, AgentsTasks!SuitesRespected

-----------------------------------------------------------------------------
(* All families *)

\* Whichever family is run, its invariant holds.
EffectsInv ==
  /\ Of("account") => AccountInv
  /\ Of("azure") => AzureInv
  /\ Of("infra") => InfraInv
  /\ Of("integrations") => IntegrationsInv
  /\ Of("agents") => VersionsOfChosenAgents

\* It holds at first: no task has run.
LEMMA EffectsStart ==
  ASSUME EffectsInit
  PROVE  EffectsInv
<1>1. CASE Of("account") /\ AccountTasks!Init
  BY <1>1, AccountStarts DEF EffectsInv, Of
<1>2. CASE Of("azure") /\ AzureTasks!Init
  BY <1>2, AzureStarts DEF EffectsInv, Of
<1>3. CASE Of("infra") /\ InfraTasks!Init
  BY <1>3, InfraStarts DEF EffectsInv, Of
<1>4. CASE Of("integrations") /\ IntegrationsTasks!Init
  BY <1>4, IntegrationsStarts DEF EffectsInv, Of
<1>5. CASE Of("agents") /\ AgentsTasks!Init
  <2>1. VersionsOfChosenAgents
    BY <1>5 DEF AgentsTasks!Init, AgentsTasks!NothingRun, VersionsOfChosenAgents, AgentsTasks!Ran
  <2>. QED BY <1>5, <2>1 DEF EffectsInv, Of
<1>. QED BY <1>1, <1>2, <1>3, <1>4, <1>5 DEF EffectsInit

\* Every step keeps it: the family stays, and the step is one of its tasks.
LEMMA EffectsKept ==
  ASSUME EffectsInv, [EffectsNext]_effectsVars
  PROVE  EffectsInv'
<1>1. CASE UNCHANGED effectsVars
  <2>1. /\ UNCHANGED <<family, host, results, environ, cached, requests, sent>>
        /\ UNCHANGED <<remote, az, prompts, consented, level, lines, pending, archive>>
        /\ UNCHANGED <<declined, kept, tested, asked>>
    BY <1>1 DEF effectsVars, OwnVars, AccountVars, AzureVars, InfraVars, IntegrationsVars
  <2>2. (Of("account") => AccountInv') /\ (Of("azure") => AzureInv') /\ (Of("infra") => InfraInv')
    BY <2>1, AccountStutters, AzureStutters, InfraStutters DEF EffectsInv
  <2>3. (Of("integrations") => IntegrationsInv') /\ (Of("agents") => VersionsOfChosenAgents')
    BY <2>1, IntegrationsOtherStep, VersionsStutter DEF EffectsInv
  <2>. QED BY <2>1, <2>2, <2>3 DEF EffectsInv, Of
<1>2. CASE EffectsNext
  <2>1. family' = family
    BY <1>2 DEF EffectsNext
  <2>2. CASE Of("account") /\ AccountTasks!Next
    BY <2>1, <2>2, AccountKept DEF EffectsInv, Of
  <2>3. CASE Of("azure") /\ AzureTasks!Next
    BY <2>1, <2>3, AzureKept DEF EffectsInv, Of
  <2>4. CASE Of("infra") /\ InfraTasks!Next
    BY <2>1, <2>4, InfraKept DEF EffectsInv, Of
  <2>5. CASE Of("integrations") /\ IntegrationsTasks!Next
    BY <2>1, <2>5, IntegrationsKept DEF EffectsInv, Of
  <2>6. CASE Of("agents") /\ AgentsTasks!Next
    BY <2>1, <2>6, VersionsKept DEF EffectsInv, Of
  <2>. QED BY <1>2, <2>2, <2>3, <2>4, <2>5, <2>6 DEF EffectsNext
<1>. QED BY <1>1, <1>2

\* The invariant holds in every state.
THEOREM EffectsInvariant == EffectsSpec => []EffectsInv
BY EffectsStart, EffectsKept, PTL DEF EffectsSpec

\* Settings of an app change only by consent and az is called only for names that
\* keep its rules; what the user keeps back is not copied; an agent is switched to
\* debug only for logs that are collected; and versions are looked for only of
\* agents that were chosen.
THEOREM EffectsOnlyOnConsent == EffectsSpec => []OnlyOnConsent
<1>1. EffectsInv => OnlyOnConsent
  BY VersionsAreRespected
  DEF EffectsInv, OnlyOnConsent, AzureInv, InfraInv, IntegrationsInv
<1>. QED BY <1>1, EffectsInvariant, PTL

\* Questions about an app come in their order, queries follow a connection that was
\* answered, and the logs of a switched agent are those written after the switch.
THEOREM EffectsInOrder == EffectsSpec => []InOrder
<1>1. EffectsInv => InOrder
  BY DEF EffectsInv, InOrder, AzureInv, InfraInv, IntegrationsInv, ConnectionAnswered,
         AskedWhenConnected, IntegrationsTasks!QueriesAfterConnection
<1>. QED BY <1>1, EffectsInvariant, PTL

\* Keys are sent after the check of their form, and a host whose keys have a region
\* is checked against a collector.
THEOREM EffectsRequestsAsFound == EffectsSpec => []RequestsAsFound
<1>1. EffectsInv => RequestsAsFound
  BY AccountStatements DEF EffectsInv, RequestsAsFound
<1>. QED BY <1>1, EffectsInvariant, PTL

-----------------------------------------------------------------------------
(* What tasks return, of each family in turn *)

\* Statuses are those of the tasks.
LEMMA StatusValues ==
  \A s : s \in Status <=> s \in {"None", "Success", "Warning", "Failure", "Error", "Info"}
BY DEF Status

-----------------------------------------------------------------------------
(* What is said of the keys *)

\* What the results of the account's tasks are: the keys found are keys, those passed
\* on are among them and were sent, and regions are those of keys passed on.
AccountFacts ==
  /\ AccountTasks!TypeOK
  /\ AccountTasks!LicenseKeys \in DOMAIN results =>
       \A k \in results[AccountTasks!LicenseKeys].payload : k.value \in AccountKey
  /\ AccountTasks!ValidateLicenseKey \in DOMAIN results =>
       /\ AccountTasks!LicenseKeys \in DOMAIN results
       /\ Holds(results[AccountTasks!ValidateLicenseKey]) =>
            \A k \in results[AccountTasks!ValidateLicenseKey].payload :
              k \in results[AccountTasks!LicenseKeys].payload /\ k.value \in sent
  /\ AccountTasks!RegionDetect \in DOMAIN results =>
       AccountTasks!ValidateLicenseKey \in DOMAIN results
  /\ AccountTasks!RegionsOfFoundKeys

\* What a task of the account returns.
AccountReturns(t, r) ==
  /\ r.status \in Status
  /\ t = AccountTasks!LicenseKeys => \A k \in r.payload : k.value \in AccountKey
  /\ t = AccountTasks!ValidateLicenseKey =>
       /\ AccountTasks!LicenseKeys \in DOMAIN results
       /\ Holds(r) => \A k \in r.payload :
            k \in results[AccountTasks!LicenseKeys].payload /\ k.value \in sent'
  /\ t = AccountTasks!RegionDetect =>
       /\ AccountTasks!ValidateLicenseKey \in DOMAIN results
       /\ Holds(r) =>
            /\ Holds(results[AccountTasks!ValidateLicenseKey])
            /\ \A g \in r.payload : \E k \in results[AccountTasks!ValidateLicenseKey].payload :
                 AccountRegion[k.value] = g

\* The effects of a task of the account.
AccountEffect(t, r) ==
  /\ AccountTasks!Return(t, r) /\ t \notin DOMAIN results /\ UNCHANGED host
  /\ sent' \subseteq AccountKey /\ (t # AccountTasks!ValidateLicenseKey => sent' = sent)
  /\ \A q \in requests' : q \in requests \/
       q.by \in {AccountTasks!ValidateLicenseKey} \cup AccountTasks!Range(AccountTasks!Connect)
  /\ AccountReturns(t, r)

\* Results, with and without a payload.
LEMMA AccountResults ==
  /\ \A s : AccountTasks!Verdict(s).status = s /\ ~Holds(AccountTasks!Verdict(s))
  /\ \A s, p : /\ AccountTasks!With(s, p).status = s /\ AccountTasks!With(s, p).payload = p
               /\ Holds(AccountTasks!With(s, p))
BY DEF AccountTasks!Verdict, AccountTasks!With, Holds


\* LicenseKey finds keys.
LEMMA LicenseKeyEffect ==
  ASSUME AccountFacts, AccountTasks!BaseConfigLicenseKey
  PROVE  \E r : AccountEffect(AccountTasks!LicenseKeys, r)
<1>. DEFINE t == AccountTasks!LicenseKeys
            found == AccountTasks!GetLicenseKeysFromConfig \cup
              {k \in AccountTasks!GetLicenseKeysFromEnv \cup AccountTasks!GetLicenseKeysFromSysProps :
                 k.value # None}
            n == AccountTasks!Cardinality({k.value : k \in found})
            s == IF n = 1 THEN "Success" ELSE "Warning"
<1>0. AccountNames BY AccountNamesHold
<1>1. AccountTasks!Return(t, AccountTasks!With(s, found))
  BY Zenon DEF AccountTasks!BaseConfigLicenseKey
<1>2. t \notin DOMAIN results /\ UNCHANGED <<host, requests, sent>>
  BY DEF AccountTasks!BaseConfigLicenseKey, AccountTasks!Ready, AccountTasks!NoRequest
<1>3. host \in AccountTasks!HostType
  BY TaskEffectsValues
  DEF AccountFacts, AccountTasks!TypeOK, TaskEffectsAssumption, AccountTasks!AccountChecksAssumption
<1>4. \A k \in found : k.value \in AccountKey
  <2>1. \A k \in AccountTasks!GetLicenseKeysFromConfig : k.value \in AccountKey
    BY DEF AccountTasks!GetLicenseKeysFromConfig
  <2>2. {host.infraEnv, host.apmEnv, host.sysProp} \subseteq AccountKey \cup {None}
    BY <1>3 DEF AccountTasks!HostType
  <2>. QED BY <2>1, <2>2 DEF AccountTasks!GetLicenseKeysFromEnv, AccountTasks!GetLicenseKeysFromSysProps
<1>. HIDE DEF n, found
<1>5. s \in {"Success", "Warning"} OBVIOUS
<1>. HIDE DEF s
<1>6. t # AccountTasks!ValidateLicenseKey /\ t # AccountTasks!RegionDetect
  BY <1>0 DEF AccountNames
<1>7. AccountReturns(t, AccountTasks!With(s, found))
  BY <1>4, <1>5, <1>6, AccountResults, StatusValues DEF AccountReturns
<1>. QED BY <1>1, <1>2, <1>6, <1>7 DEF AccountEffect, AccountFacts, AccountTasks!TypeOK

\* ValidateLicenseKey sends keys that were found and passes on what was sent.
LEMMA ValidateLicenseKeyEffect ==
  ASSUME AccountFacts, AccountTasks!BaseConfigValidateLicenseKey
  PROVE  \E r : AccountEffect(AccountTasks!ValidateLicenseKey, r)
<1>. DEFINE t == AccountTasks!ValidateLicenseKey
            found == AccountTasks!Upstream(AccountTasks!LicenseKeys).payload
            keys == AccountTasks!WellFormed(found)
            malformed == keys # AccountTasks!Candidates(found)
<1>0. AccountNames BY AccountNamesHold
<1>1. /\ t \notin DOMAIN results /\ UNCHANGED host
      /\ AccountTasks!LicenseKeys \in DOMAIN results
  <2>1. AccountTasks!Ready(t, AccountTasks!Dependencies(t)) /\ UNCHANGED host
    BY Zenon DEF AccountTasks!BaseConfigValidateLicenseKey
  <2>2. AccountTasks!LicenseKeys \in AccountTasks!Dependencies(t)
    BY <1>0 DEF AccountNames, AccountTasks!Dependencies
  <2>. QED BY <2>1, <2>2 DEF AccountTasks!Ready
<1>2. found = results[AccountTasks!LicenseKeys].payload
  BY <1>1 DEF AccountTasks!Upstream
<1>3. keys \subseteq found /\ \A k \in keys : k.value \in AccountKey
  <2>1. keys \subseteq found
    BY DEF AccountTasks!WellFormed, AccountTasks!Candidates, AccountTasks!FindLKFromEnvVarSources
  <2>. QED BY <1>1, <1>2, <2>1 DEF AccountFacts
<1>4. t # AccountTasks!LicenseKeys /\ t # AccountTasks!RegionDetect
  BY <1>0 DEF AccountNames
<1>5. sent \subseteq AccountKey BY DEF AccountFacts, AccountTasks!TypeOK
<1>6. CASE keys # {} /\ AccountTasks!Request(t) /\ sent' = {k.value : k \in keys} /\
           \E answer \in AccountTasks!ValidateAgainstAccount(sent') :
             AccountTasks!Return(t, AccountTasks!LicenseKeyResult(keys, malformed, answer))
  <2>. HIDE DEF keys, malformed, found
  <2>1. PICK answer \in AccountTasks!ValidateAgainstAccount(sent') :
          AccountTasks!Return(t, AccountTasks!LicenseKeyResult(keys, malformed, answer))
    BY <1>6
  <2>. DEFINE r == AccountTasks!LicenseKeyResult(keys, malformed, answer)
              d == AccountTasks!DetermineResultStatus(malformed, answer)
              valid == IF answer.failed THEN {k.value : k \in keys} ELSE answer.valid
  <2>2. r = AccountTasks!With(d, {k \in keys : k.value \in valid})
    BY DEF AccountTasks!LicenseKeyResult
  <2>3. /\ r.status = d /\ r.payload = {k \in keys : k.value \in valid}
    <3>. HIDE DEF d, valid, r
    <3>. QED BY <2>2, AccountResults
  <2>4. d \in {"Failure", "Warning", "Success"}
    BY DEF AccountTasks!DetermineResultStatus
  <2>5. r.payload \subseteq keys /\ \A k \in keys : k.value \in sent' BY <1>6, <2>3
  <2>6. AccountReturns(t, r)
    <3>. HIDE DEF r, d
    <3>1. Holds(r) => \A k \in r.payload :
            k \in results[AccountTasks!LicenseKeys].payload /\ k.value \in sent'
      BY <1>2, <1>3, <2>5
    <3>. QED BY <1>1, <1>4, <2>3, <2>4, <3>1, StatusValues DEF AccountReturns
  <2>7. sent' \subseteq AccountKey BY <1>3, <1>6
  <2>8. \A q \in requests' : q \in requests \/ q.by = t
    BY <1>6 DEF AccountTasks!Request
  <2>. HIDE DEF r
  <2>. QED BY <1>1, <2>1, <2>6, <2>7, <2>8 DEF AccountEffect, r
<1>7. CASE found = {} /\ AccountTasks!NoRequest /\ UNCHANGED sent /\ AccountTasks!Return(t, AccountTasks!Verdict("None"))
  <2>. HIDE DEF found
  <2>1. AccountReturns(t, AccountTasks!Verdict("None"))
    BY <1>1, <1>4, AccountResults, StatusValues DEF AccountReturns
  <2>. QED BY <1>1, <1>5, <1>7, <2>1 DEF AccountEffect, AccountTasks!NoRequest
<1>8. CASE AccountTasks!NoRequest /\ UNCHANGED sent /\ AccountTasks!Return(t, AccountTasks!With("Failure", {}))
  <2>. HIDE DEF found
  <2>1. AccountReturns(t, AccountTasks!With("Failure", {}))
    BY <1>1, <1>4, AccountResults, StatusValues DEF AccountReturns
  <2>. QED BY <1>1, <1>5, <1>8, <2>1 DEF AccountEffect, AccountTasks!NoRequest
<1>. QED BY <1>6, <1>7, <1>8, Zenon DEF AccountTasks!BaseConfigValidateLicenseKey

\* RegionDetect hands on the regions of keys that were passed on.
LEMMA RegionDetectEffect ==
  ASSUME AccountFacts, AccountTasks!BaseConfigRegionDetect
  PROVE  \E r : AccountEffect(AccountTasks!RegionDetect, r)
<1>. DEFINE t == AccountTasks!RegionDetect
            validated == AccountTasks!Upstream(AccountTasks!ValidateLicenseKey)
            regions == AccountTasks!DetectRegions(validated.payload)
            r == IF AccountTasks!Holds(validated) /\ validated.payload # {}
                 THEN AccountTasks!With("Info", regions)
                 ELSE AccountTasks!Verdict("None")
<1>0. AccountNames BY AccountNamesHold
<1>1. AccountTasks!Return(t, r)
  BY Zenon DEF AccountTasks!BaseConfigRegionDetect
<1>2. /\ t \notin DOMAIN results /\ UNCHANGED <<host, requests, sent>>
      /\ AccountTasks!ValidateLicenseKey \in DOMAIN results
  <2>1. AccountTasks!Ready(t, AccountTasks!Dependencies(t)) /\ UNCHANGED <<host, requests, sent>>
    BY DEF AccountTasks!BaseConfigRegionDetect, AccountTasks!NoRequest
  <2>2. AccountTasks!ValidateLicenseKey \in AccountTasks!Dependencies(t)
    BY <1>0 DEF AccountNames, AccountTasks!Dependencies
  <2>. QED BY <2>1, <2>2 DEF AccountTasks!Ready
<1>3. validated = results[AccountTasks!ValidateLicenseKey]
  BY <1>2 DEF AccountTasks!Upstream
<1>4. \A g \in regions : \E k \in validated.payload : AccountRegion[k.value] = g
  BY DEF AccountTasks!DetectRegions
<1>5. t # AccountTasks!LicenseKeys /\ t # AccountTasks!ValidateLicenseKey
  BY <1>0 DEF AccountNames
<1>6. /\ r.status \in {"Info", "None"}
      /\ Holds(r) => Holds(validated) /\ r.payload = regions
  <2>. HIDE DEF regions, validated
  <2>1. CASE Holds(validated) /\ validated.payload # {}
    BY <2>1, AccountResults DEF AccountTasks!Holds, Holds
  <2>2. CASE ~(Holds(validated) /\ validated.payload # {})
    <3>1. r = AccountTasks!Verdict("None") BY <2>2 DEF AccountTasks!Holds, Holds
    <3>. HIDE DEF r
    <3>. QED BY <3>1, AccountResults
  <2>. QED BY <2>1, <2>2
<1>. HIDE DEF r, regions, validated
<1>7. AccountReturns(t, r)
  BY <1>2, <1>3, <1>4, <1>5, <1>6, StatusValues DEF AccountReturns
<1>. QED BY <1>1, <1>2, <1>5, <1>7 DEF AccountEffect, AccountFacts, AccountTasks!TypeOK

\* The other tasks hand nothing on.
LEMMA AccountOtherEffects ==
  ASSUME AccountFacts
  PROVE  /\ AccountTasks!BaseConfigProxyDetect => \E r : AccountEffect(AccountTasks!ProxyDetect, r)
         /\ \A c \in {"us01", "eu01"} :
              AccountTasks!BaseCollectorConnect(c) => \E r : AccountEffect(AccountTasks!Connect[c], r)
<1>0. AccountNames BY AccountNamesHold
<1>01. sent \subseteq AccountKey BY DEF AccountFacts, AccountTasks!TypeOK
<1>02. ASSUME NEW t, t \notin {AccountTasks!LicenseKeys, AccountTasks!ValidateLicenseKey, AccountTasks!RegionDetect},
              NEW r, r.status \in Status
       PROVE  AccountReturns(t, r)
  BY <1>02 DEF AccountReturns
<1>1. ASSUME AccountTasks!BaseConfigProxyDetect PROVE \E r : AccountEffect(AccountTasks!ProxyDetect, r)
  <2>. DEFINE t == AccountTasks!ProxyDetect
              proxy == IF host.elements = None THEN None ELSE AccountTasks!GetProxyConfig
              w == IF AccountTasks!CheckForHttpOrHttpsProxies THEN "Warning" ELSE "None"
  <2>1. /\ t \notin DOMAIN results /\ UNCHANGED <<host, requests, sent>>
        /\ \/ AccountTasks!Return(t, AccountTasks!With("Warning", None))
           \/ AccountTasks!Return(t, AccountTasks!With("Success", proxy))
           \/ AccountTasks!Return(t, AccountTasks!Verdict(w))
    <3>1. t \notin DOMAIN results /\ UNCHANGED <<host, requests, sent>>
      BY <1>1, Zenon DEF AccountTasks!BaseConfigProxyDetect, AccountTasks!Ready, AccountTasks!NoRequest
    <3>. QED BY <1>1, <3>1, Zenon DEF AccountTasks!BaseConfigProxyDetect
  <2>. HIDE DEF proxy
  <2>2. \E r : AccountTasks!Return(t, r) /\ r.status \in Status
    BY <2>1, AccountResults, StatusValues
  <2>3. t \notin {AccountTasks!LicenseKeys, AccountTasks!ValidateLicenseKey, AccountTasks!RegionDetect}
    BY <1>0 DEF AccountNames
  <2>. QED BY <1>01, <1>02, <2>1, <2>2, <2>3 DEF AccountEffect
<1>2. ASSUME NEW c \in {"us01", "eu01"}, AccountTasks!BaseCollectorConnect(c)
      PROVE  \E r : AccountEffect(AccountTasks!Connect[c], r)
  <2>. DEFINE t == AccountTasks!Connect[c]
  <2>1. t \notin DOMAIN results /\ UNCHANGED <<host, environ, sent>>
    BY <1>2, Zenon DEF AccountTasks!BaseCollectorConnect, AccountTasks!Ready
  <2>2. PICK r : AccountTasks!Return(t, r) /\ r.status \in Status
    <3>1. \/ AccountTasks!Return(t, AccountTasks!Verdict("None"))
          \/ \E answer \in {"expected", "other", "unreadable", "unreachable"} :
               AccountTasks!Return(t, AccountTasks!Verdict(AccountTasks!PrepareResult(answer)))
      BY <1>2, Zenon DEF AccountTasks!BaseCollectorConnect
    <3>2. \A answer \in {"expected", "other", "unreadable", "unreachable"} :
            AccountTasks!PrepareResult(answer) \in Status
      BY StatusValues DEF AccountTasks!PrepareResult
    <3>. QED BY <3>1, <3>2, AccountResults, StatusValues
  <2>3. t \notin {AccountTasks!LicenseKeys, AccountTasks!ValidateLicenseKey, AccountTasks!RegionDetect}
        /\ t \in AccountTasks!Range(AccountTasks!Connect)
    BY <1>0 DEF AccountNames
  <2>4. \A q \in requests' : q \in requests \/ q.by = t
    <3>1. AccountTasks!NoRequest \/ AccountTasks!Request(t)
      BY <1>2, Zenon DEF AccountTasks!BaseCollectorConnect
    <3>. QED BY <3>1 DEF AccountTasks!NoRequest, AccountTasks!Request
  <2>. HIDE DEF t
  <2>. QED BY <1>01, <1>02, <2>1, <2>2, <2>3, <2>4 DEF AccountEffect, t
<1>. QED BY <1>1, <1>2

\* They are kept by a step that leaves what they speak of alone.
LEMMA AccountFactsStutter ==
  ASSUME AccountFacts, UNCHANGED <<host, results, process, requests, sent>>
  PROVE  AccountFacts'
BY DEF AccountFacts, AccountTasks!TypeOK, AccountTasks!RegionsOfFoundKeys,
       AccountTasks!Ran, AccountTasks!Holds

\* What was told stays so: no task runs twice.
LEMMA AccountFactsKept ==
  ASSUME AccountFacts, AccountTasks!Next
  PROVE  AccountFacts'
<1>0. AccountNames BY AccountNamesHold
<1>1. ASSUME NEW t, NEW r, AccountEffect(t, r) PROVE AccountFacts'
  <2>. DEFINE k == AccountTasks!LicenseKeys
              v == AccountTasks!ValidateLicenseKey
              g == AccountTasks!RegionDetect
  <2>0. k # v /\ v # g /\ k # g BY <1>0 DEF AccountNames
  <2>1. /\ DOMAIN results' = DOMAIN results \cup {t} /\ results'[t] = r /\ t \notin DOMAIN results
        /\ \A u \in DOMAIN results : results'[u] = results[u]
        /\ UNCHANGED process
    BY <1>1, AccountReturn DEF AccountEffect, AccountTasks!Return
  <2>2. AccountTasks!TypeOK'
    BY <1>1, <2>1, StatusValues
    DEF AccountFacts, AccountTasks!TypeOK, AccountEffect, AccountReturns, AccountTasks!Status
  <2>3. (k \in DOMAIN results => \A x \in results[k].payload : x.value \in AccountKey)'
    BY <1>1, <2>1 DEF AccountFacts, AccountEffect, AccountReturns
  <2>4. (v \in DOMAIN results => k \in DOMAIN results /\
           (Holds(results[v]) => \A x \in results[v].payload : x \in results[k].payload /\ x.value \in sent))'
    <3>1. CASE t = v BY <1>1, <2>0, <2>1, <3>1 DEF AccountEffect, AccountReturns, Holds
    <3>2. CASE t # v
      <4>1. sent' = sent BY <1>1, <3>2 DEF AccountEffect
      <4>. QED BY <2>1, <3>2, <4>1 DEF AccountFacts, Holds
    <3>. QED BY <3>1, <3>2
  <2>5. (g \in DOMAIN results => v \in DOMAIN results)'
    BY <1>1, <2>1 DEF AccountFacts, AccountEffect, AccountReturns
  <2>6. AccountTasks!RegionsOfFoundKeys'
    <3>1. CASE t = g
      <4>1. v \in DOMAIN results /\ k \in DOMAIN results /\ sent' = sent
        BY <1>1, <2>0, <3>1 DEF AccountFacts, AccountEffect, AccountReturns
      <4>2. ASSUME Holds(r), NEW x \in r.payload
            PROVE  \E y \in results[k].payload : AccountRegion[y.value] = x /\ y.value \in sent
        <5>1. PICK y \in results[v].payload : AccountRegion[y.value] = x
          BY <1>1, <3>1, <4>2 DEF AccountEffect, AccountReturns
        <5>2. Holds(results[v]) BY <1>1, <3>1, <4>2 DEF AccountEffect, AccountReturns
        <5>3. y \in results[k].payload /\ y.value \in sent BY <4>1, <5>1, <5>2 DEF AccountFacts
        <5>. QED BY <5>1, <5>3
      <4>. QED BY <2>1, <3>1, <4>1, <4>2 DEF AccountTasks!RegionsOfFoundKeys, AccountTasks!Holds, Holds
    <3>2. CASE t = v
      <4>1. g \notin DOMAIN results BY <2>1, <3>2 DEF AccountFacts
      <4>. QED BY <2>0, <2>1, <3>2, <4>1 DEF AccountTasks!RegionsOfFoundKeys, AccountTasks!Ran
    <3>3. CASE t # g /\ t # v
      <4>1. sent' = sent BY <1>1, <3>3 DEF AccountEffect
      <4>2. g \in DOMAIN results' => g \in DOMAIN results /\ k \in DOMAIN results
        BY <2>1, <3>3 DEF AccountFacts
      <4>. QED BY <2>1, <3>3, <4>1, <4>2
        DEF AccountFacts, AccountTasks!RegionsOfFoundKeys, AccountTasks!Ran, AccountTasks!Holds
    <3>. QED BY <3>1, <3>2, <3>3
  <2>. QED BY <2>2, <2>3, <2>4, <2>5, <2>6 DEF AccountFacts
<1>2. CASE AccountTasks!Done
  BY <1>2, AccountFactsStutter DEF AccountTasks!Done, AccountTasks!vars
<1>. QED
  BY <1>1, <1>2, LicenseKeyEffect, ValidateLicenseKeyEffect, RegionDetectEffect, AccountOtherEffects
  DEF AccountTasks!Next, AccountTasks!BaseCollectorConnectUS, AccountTasks!BaseCollectorConnectEU

\* At first nothing was told.
LEMMA AccountFactsStart ==
  ASSUME AccountTasks!Init
  PROVE  AccountFacts
BY DEF AccountTasks!Init, AccountTasks!NothingRun, AccountFacts, AccountTasks!TypeOK,
       AccountTasks!RegionsOfFoundKeys, AccountTasks!Ran

-----------------------------------------------------------------------------
(* What is said of function apps *)

\* The names of the suite's tasks, as the proofs tell them apart.
AzureTaskNames ==
  /\ AzureTasks!DetectFunctionApp = "DetectFunctionApp"
  /\ AzureTasks!FetchAppSettings = "FetchAppSettings"
  /\ AzureTasks!DetectRuntime = "DetectRuntime"
  /\ AzureTasks!ValidateAgentConfig = "ValidateAgentConfig"
  /\ AzureTasks!CheckCrashDumpConfig = "CheckCrashDumpConfig"
  /\ AzureTasks!AgentInfo = "AgentInfo"
  /\ AzureTasks!AnalyzeLogs = "AnalyzeLogs"
  /\ AzureTasks!DownloadSiteDump = "DownloadSiteDump"
  /\ AzureTasks!CollectProcessDetails = "CollectProcessDetails"
  /\ AzureTasks!CollectLiveMemoryDump = "CollectLiveMemoryDump"
  /\ AzureTasks!ConfigureCrashDump = "ConfigureCrashDump"
  /\ AzureTasks!CollectReport = "CollectReport"

\* The names are those of the code.
LEMMA AzureTaskNamesHold == AzureTaskNames
BY DEF AzureTaskNames, AzureTasks!DetectFunctionApp, AzureTasks!FetchAppSettings,
       AzureTasks!DetectRuntime, AzureTasks!ValidateAgentConfig, AzureTasks!CheckCrashDumpConfig,
       AzureTasks!AgentInfo, AzureTasks!AnalyzeLogs, AzureTasks!DownloadSiteDump,
       AzureTasks!CollectProcessDetails, AzureTasks!CollectLiveMemoryDump,
       AzureTasks!ConfigureCrashDump, AzureTasks!CollectReport

\* A source has told its settings.
Told(t) == t \in DOMAIN results /\ results[t].status = "Info"
\* The tasks that judge settings.
Judging == {"ValidateAgentConfig", "CheckCrashDumpConfig", "AgentInfo"}

\* What the results of the suite are: those who read have their sources, a container
\* hands on its own variables, and what is judged comes from the source of the runtime.
AzureFacts ==
  /\ AzureTasks!TypeOK
  /\ "DetectRuntime" \in DOMAIN results => {"FetchAppSettings", "DetectFunctionApp"} \subseteq DOMAIN results
  /\ "CollectReport" \in DOMAIN results => AzureTasks!ReportDependencies \subseteq DOMAIN results
  /\ Told("DetectFunctionApp") => results["DetectFunctionApp"].payload = host.local
  /\ AzureTasks!ReportSaysAll
  /\ AzureTasks!LocalOnlyInAzure
  /\ AzureTasks!OneSource

\* What a task of the suite returns.
AzureReturns(t, r) ==
  /\ r.status \in Status
  /\ t = "DetectFunctionApp" /\ r.status = "Info" => r.payload = host.local
  /\ t = "DetectRuntime" /\ r.status = "Info" => Holds(r) /\ r.payload = AzureTasks!EnvVars.runtime
  /\ t \in Judging /\ r.status # "None" => Told("FetchAppSettings") \/ Told("DetectFunctionApp")
  /\ IF t = "CollectReport"
     THEN Holds(r) => report' = [u \in AzureTasks!ReportDependencies |-> results[u].status]
     ELSE report' = report

\* The effects of a task of the suite on what its results tell.
AzureDoes(t, r) ==
  /\ AzureTasks!Runs(t) /\ AzureTasks!Return(t, r) /\ UNCHANGED host
  /\ t \in AzureTasks!ReportDependencies \cup {"CollectReport"}
  /\ remote' \in AzureTasks!Settings /\ copied' \subseteq written'
  /\ AzureReturns(t, r)

\* Results, with and without a payload.
LEMMA AzureResults ==
  /\ \A s : AzureTasks!Verdict(s).status = s /\ ~Holds(AzureTasks!Verdict(s))
  /\ \A s, p : /\ AzureTasks!With(s, p).status = s /\ AzureTasks!With(s, p).payload = p
               /\ Holds(AzureTasks!With(s, p))
BY DEF AzureTasks!Verdict, AzureTasks!With, Holds


\* The sources of a task have run before it.
LEMMA AzureSources ==
  ASSUME NEW t, AzureTasks!Runs(t)
  PROVE  /\ t \notin DOMAIN results
         /\ t \in Judging \cup {"DetectRuntime"} => {"FetchAppSettings", "DetectFunctionApp"} \subseteq DOMAIN results
         /\ t = "CollectReport" => AzureTasks!ReportDependencies \subseteq DOMAIN results
<1>0. AzureTaskNames BY AzureTaskNamesHold
<1>1. t \notin DOMAIN results /\ AzureTasks!AnyOrder(t) \subseteq DOMAIN results
  BY DEF AzureTasks!Runs, AzureTasks!Ready, AzureTasks!Dependencies
<1>2. t = "CollectReport" => AzureTasks!AnyOrder(t) = AzureTasks!ReportDependencies
  <2>. SUFFICES ASSUME t = "CollectReport" PROVE AzureTasks!AnyOrder(t) = AzureTasks!ReportDependencies OBVIOUS
  <2>. QED BY <1>0 DEF AzureTaskNames, AzureTasks!AnyOrder
<1>3. t \in Judging \cup {"DetectRuntime"} => {"FetchAppSettings", "DetectFunctionApp"} \subseteq AzureTasks!AnyOrder(t)
  BY <1>0 DEF AzureTaskNames, AzureTasks!AnyOrder, Judging
<1>. QED BY <1>1, <1>2, <1>3

\* The settings that are judged are those of a source that told them.
LEMMA EnvVarsTold ==
  /\ AzureTasks!EnvVars # None => results["FetchAppSettings"].status = "Info" \/ results["DetectFunctionApp"].status = "Info"
  /\ results["FetchAppSettings"].status = "Info" => AzureTasks!EnvVars = results["FetchAppSettings"].payload
  /\ results["FetchAppSettings"].status # "Info" /\ results["DetectFunctionApp"].status = "Info" =>
       AzureTasks!EnvVars = host.local
BY AzureTaskNamesHold DEF AzureTaskNames, AzureTasks!EnvVars, AzureTasks!ResolveEnvVars

\* The tasks with no part in what is stated.
LEMMA AzurePlain ==
  ASSUME NEW t \in {"FetchAppSettings", "AnalyzeLogs", "DownloadSiteDump", "CollectProcessDetails",
                    "CollectLiveMemoryDump", "ConfigureCrashDump"},
         NEW r, AzureTasks!Runs(t), AzureTasks!Return(t, r), r.status \in Status,
         UNCHANGED <<host, report>>, remote' \in AzureTasks!Settings, copied' \subseteq written'
  PROVE  AzureDoes(t, r)
<1>1. t \in AzureTasks!ReportDependencies
  BY AzureTaskNamesHold DEF AzureTaskNames, AzureTasks!ReportDependencies
<1>. QED BY <1>1 DEF AzureDoes, AzureReturns, Judging

\* The tasks that only look tell what they found.
LEMMA DetectFunctionAppDoes ==
  ASSUME AzureFacts, AzureTasks!AzureFunctionsDetectFunctionApp
  PROVE  \E r : AzureDoes("DetectFunctionApp", r)
<1>0. AzureTaskNames BY AzureTaskNamesHold
<1>1. /\ AzureTasks!Runs("DetectFunctionApp") /\ UNCHANGED AzureTasks!azure
      /\ \/ AzureTasks!Return("DetectFunctionApp", AzureTasks!Verdict("None"))
         \/ AzureTasks!Return("DetectFunctionApp", AzureTasks!With("Info", host.local))
  BY <1>0 DEF AzureTaskNames, AzureTasks!AzureFunctionsDetectFunctionApp
<1>2. "DetectFunctionApp" \in AzureTasks!ReportDependencies
  BY <1>0 DEF AzureTaskNames, AzureTasks!ReportDependencies
<1>. QED
  BY <1>1, <1>2, AzureResults, StatusValues
  DEF AzureDoes, AzureReturns, Judging, AzureTasks!azure, AzureFacts, AzureTasks!TypeOK

\* The runtime told is that of the settings that are judged.
LEMMA DetectRuntimeDoes ==
  ASSUME AzureFacts, AzureTasks!AzureFunctionsDetectRuntime
  PROVE  \E r : AzureDoes("DetectRuntime", r)
<1>. DEFINE fetched == results["FetchAppSettings"]
            detected == results["DetectFunctionApp"]
            r == AzureTasks!RuntimeResult(fetched, detected)
<1>0. AzureTaskNames BY AzureTaskNamesHold
<1>1. /\ AzureTasks!Runs("DetectRuntime") /\ UNCHANGED AzureTasks!azure
      /\ AzureTasks!Return("DetectRuntime", r)
  BY <1>0, Zenon DEF AzureTaskNames, AzureTasks!AzureFunctionsDetectRuntime
<1>2. {"FetchAppSettings", "DetectFunctionApp"} \subseteq DOMAIN results BY <1>1, AzureSources
<1>3. ASSUME NEW s
      PROVE  LET v == AzureTasks!RuntimeOf(s)
             IN  v.status \in Status /\ (v.status = "Info" => Holds(v) /\ v.payload = s.runtime)
  <2>. DEFINE v == AzureTasks!RuntimeOf(s)
  <2>1. \/ v = AzureTasks!Verdict("Warning") \/ v = AzureTasks!With("Warning", "odd")
        \/ v = AzureTasks!With("Info", s.runtime)
    BY DEF AzureTasks!RuntimeOf
  <2>. HIDE DEF v
  <2>2. v.status \in Status /\ (v.status = "Info" => Holds(v) /\ v.payload = s.runtime)
    BY <2>1, AzureResults, StatusValues
  <2>. QED BY <2>2 DEF v
<1>4. detected.status = "Info" => detected.payload = host.local
  BY <1>2 DEF AzureFacts, Told
<1>5. r.status \in Status /\ (r.status = "Info" => Holds(r) /\ r.payload = AzureTasks!EnvVars.runtime)
  <2>1. CASE fetched.status = "Info"
    <3>1. r = AzureTasks!RuntimeOf(fetched.payload) BY <2>1 DEF AzureTasks!RuntimeResult
    <3>2. AzureTasks!EnvVars = fetched.payload BY <2>1, EnvVarsTold
    <3>. QED BY <1>3, <3>1, <3>2
  <2>2. CASE fetched.status # "Info" /\ detected.status = "Info"
    <3>1. r = AzureTasks!RuntimeOf(detected.payload) BY <2>2 DEF AzureTasks!RuntimeResult
    <3>2. AzureTasks!EnvVars = detected.payload BY <1>4, <2>2, EnvVarsTold
    <3>. QED BY <1>3, <3>1, <3>2
  <2>3. CASE fetched.status # "Info" /\ detected.status # "Info"
    <3>1. r = AzureTasks!Verdict("None") BY <2>3 DEF AzureTasks!RuntimeResult
    <3>. QED BY <3>1, AzureResults, StatusValues
  <2>. QED BY <2>1, <2>2, <2>3
<1>6. "DetectRuntime" \in AzureTasks!ReportDependencies
  BY <1>0 DEF AzureTaskNames, AzureTasks!ReportDependencies
<1>. HIDE DEF r
<1>. QED
  BY <1>1, <1>5, <1>6
  DEF AzureDoes, AzureReturns, Judging, AzureTasks!azure, AzureFacts, AzureTasks!TypeOK

\* A task that judges has a verdict only when there are settings.
LEMMA JudgingDoes ==
  ASSUME AzureFacts, NEW t \in Judging, NEW r, AzureTasks!Runs(t), AzureTasks!Return(t, r),
         UNCHANGED AzureTasks!azure, r.status \in Status, AzureTasks!EnvVars = None => r.status = "None"
  PROVE  AzureDoes(t, r)
<1>1. {"FetchAppSettings", "DetectFunctionApp"} \subseteq DOMAIN results BY AzureSources
<1>2. t \in AzureTasks!ReportDependencies /\ t \notin {"DetectFunctionApp", "DetectRuntime", "CollectReport"}
  BY AzureTaskNamesHold DEF AzureTaskNames, AzureTasks!ReportDependencies, Judging
<1>3. r.status # "None" => Told("FetchAppSettings") \/ Told("DetectFunctionApp")
  BY <1>1, EnvVarsTold DEF Told
<1>. QED
  BY <1>2, <1>3 DEF AzureDoes, AzureReturns, AzureTasks!azure, AzureFacts, AzureTasks!TypeOK

\* Three tasks judge the settings.
LEMMA JudgesDo ==
  ASSUME AzureFacts,
         \/ AzureTasks!AzureFunctionsValidateAgentConfig
         \/ AzureTasks!AzureFunctionsCheckCrashDumpConfig
         \/ AzureTasks!AzureFunctionsAgentInfo
  PROVE  \E t, r : AzureDoes(t, r)
<1>0. AzureTaskNames BY AzureTaskNamesHold
<1>. DEFINE e == AzureTasks!EnvVars
            rt == AzureTasks!Runtime
<1>1. CASE AzureTasks!AzureFunctionsValidateAgentConfig
  <2>. DEFINE s == IF e = None THEN "None" ELSE AzureTasks!CollectValidationResults(e, rt)
  <2>1. /\ AzureTasks!Runs("ValidateAgentConfig") /\ UNCHANGED AzureTasks!azure
        /\ AzureTasks!Return("ValidateAgentConfig", AzureTasks!Verdict(s))
    BY <1>0, <1>1, Zenon DEF AzureTaskNames, AzureTasks!AzureFunctionsValidateAgentConfig
  <2>2. AzureTasks!CollectValidationResults(e, rt) \in {"Failure", "Warning", "Success"}
    <3>. HIDE DEF e, rt
    <3>. QED BY DEF AzureTasks!CollectValidationResults
  <2>. HIDE DEF e, rt
  <2>3. s \in Status /\ (e = None => s = "None") BY <2>2, StatusValues
  <2>. HIDE DEF s
  <2>. QED BY <2>1, <2>3, AzureResults, JudgingDoes DEF Judging, e
<1>2. CASE AzureTasks!AzureFunctionsCheckCrashDumpConfig
  <2>. DEFINE enabled == IF rt = "dotnet" THEN AzureTasks!ParseCrashDumpConfig(e)
                         ELSE AzureTasks!ParseJavaHeapDumpConfig(e)
              r == IF e = None \/ rt \notin {"dotnet", "java"} THEN AzureTasks!Verdict("None")
                   ELSE AzureTasks!With(IF enabled THEN "Info" ELSE "Warning", AzureTasks!ScanDumpDir)
  <2>1. /\ AzureTasks!Runs("CheckCrashDumpConfig") /\ UNCHANGED AzureTasks!azure
        /\ AzureTasks!Return("CheckCrashDumpConfig", r)
    BY <1>0, <1>2, Zenon DEF AzureTaskNames, AzureTasks!AzureFunctionsCheckCrashDumpConfig
  <2>. HIDE DEF enabled, e, rt
  <2>2. r.status \in Status /\ (e = None => r.status = "None")
    <3>1. r = AzureTasks!Verdict("None") \/
            (e # None /\ \E s \in {"Info", "Warning"} : r = AzureTasks!With(s, AzureTasks!ScanDumpDir))
      BY Zenon
    <3>. HIDE DEF r
    <3>. QED BY <3>1, AzureResults, StatusValues
  <2>. HIDE DEF r
  <2>. QED BY <2>1, <2>2, JudgingDoes DEF Judging, e
<1>3. CASE AzureTasks!AzureFunctionsAgentInfo
  <2>. DEFINE collected == \/ e.license # "unset"
                           \/ e.app
                           \/ e.vars /\ (e.runtime = "node" \/ rt = "dotnet")
              r == CASE e = None -> AzureTasks!Verdict("None")
                     [] e # None /\ collected -> AzureTasks!With("Info", "collected")
                     [] OTHER -> AzureTasks!Verdict("Warning")
  <2>1. /\ AzureTasks!Runs("AgentInfo") /\ UNCHANGED AzureTasks!azure
        /\ AzureTasks!Return("AgentInfo", r)
    BY <1>0, <1>3, Zenon DEF AzureTaskNames, AzureTasks!AzureFunctionsAgentInfo
  <2>. HIDE DEF collected, e, rt
  <2>2. \/ e = None /\ r = AzureTasks!Verdict("None")
        \/ e # None /\ r = AzureTasks!With("Info", "collected")
        \/ e # None /\ r = AzureTasks!Verdict("Warning")
    OBVIOUS
  <2>. HIDE DEF r
  <2>3. r.status \in Status /\ (e = None => r.status = "None")
    BY <2>2, AzureResults, StatusValues
  <2>. QED BY <2>1, <2>3, JudgingDoes DEF Judging, e
<1>. QED BY <1>1, <1>2, <1>3

\* Logs are analyzed where the app runs.
LEMMA AnalyzeLogsDoes ==
  ASSUME AzureFacts, AzureTasks!AzureFunctionsAnalyzeLogs
  PROVE  \E r : AzureDoes("AnalyzeLogs", r)
<1>0. AzureTaskNames BY AzureTaskNamesHold
<1>. DEFINE found == UNION {l.found : l \in AzureTasks!Range(host.logs)}
            n == AzureTasks!Cardinality({i \in DOMAIN host.logs : host.logs[i].whole})
            s == CASE "error" \in found -> "Failure"
                   [] "error" \notin found /\ "warning" \in found -> "Warning"
                   [] OTHER -> "Success"
            c == AzureTasks!Upstream(AzureTasks!DetectFunctionApp).status # "Info" \/ host.logs = <<>>
            r == IF c THEN AzureTasks!Verdict("None") ELSE AzureTasks!With(s, n)
<1>1. /\ AzureTasks!Runs("AnalyzeLogs") /\ UNCHANGED AzureTasks!azure
      /\ AzureTasks!Return("AnalyzeLogs", r)
  BY <1>0, Zenon DEF AzureTaskNames, AzureTasks!AzureFunctionsAnalyzeLogs
<1>. HIDE DEF found, n, c
<1>2. s \in {"Failure", "Warning", "Success"} OBVIOUS
<1>. HIDE DEF s
<1>3. r = AzureTasks!Verdict("None") \/ r = AzureTasks!With(s, n) OBVIOUS
<1>. HIDE DEF r
<1>4. r.status \in Status BY <1>2, <1>3, AzureResults, StatusValues
<1>. QED BY <1>1, <1>4, AzurePlain DEF AzureTasks!azure, AzureFacts, AzureTasks!TypeOK

\* A task that is refused, or that the user declines, leaves the files and the app alone.
LEMMA RefusedDoes ==
  ASSUME AzureFacts, NEW t \in {"FetchAppSettings", "DownloadSiteDump", "CollectProcessDetails",
                               "CollectLiveMemoryDump", "ConfigureCrashDump"},
         AzureTasks!Runs(t), AzureTasks!Skipped(t) \/ AzureTasks!Declined(t)
  PROVE  \E r : AzureDoes(t, r)
<1>1. \E s \in {"None", "Error"} : AzureTasks!Return(t, AzureTasks!Verdict(s))
  BY DEF AzureTasks!Skipped, AzureTasks!Declined
<1>2. UNCHANGED <<host, remote, written, copied, report>>
  BY DEF AzureTasks!Skipped, AzureTasks!Declined, AzureTasks!azure
<1>. QED BY <1>1, <1>2, AzurePlain, AzureResults, StatusValues DEF AzureFacts, AzureTasks!TypeOK

\* A file that is downloaded is written before it is copied.
LEMMA DownloadDoes ==
  ASSUME AzureFacts, NEW t \in {"DownloadSiteDump", "CollectLiveMemoryDump"}, NEW file,
         AzureTasks!Runs(t), AzureTasks!Download(t, file), UNCHANGED <<host, remote, report>>
  PROVE  \E r : AzureDoes(t, r)
<1>1. CASE \E s \in {"Error", "Failure"} : AzureTasks!Return(t, AzureTasks!Verdict(s)) /\ UNCHANGED <<written, copied>>
  BY <1>1, AzurePlain, AzureResults, StatusValues DEF AzureFacts, AzureTasks!TypeOK
<1>2. CASE /\ AzureTasks!Return(t, AzureTasks!With("Info", "target"))
           /\ written' = written \cup {file} /\ copied' = copied \cup {file}
  <2>1. remote' \in AzureTasks!Settings /\ copied' \subseteq written'
    BY <1>2 DEF AzureFacts, AzureTasks!TypeOK
  <2>. QED BY <1>2, <2>1, AzurePlain, AzureResults, StatusValues
<1>. QED BY <1>1, <1>2 DEF AzureTasks!Download

\* Without a process nothing is collected.
LEMMA NoProcessDoes ==
  ASSUME AzureFacts, NEW t \in {"CollectProcessDetails", "CollectLiveMemoryDump"},
         AzureTasks!Runs(t), AzureTasks!NoProcessSelected(t), UNCHANGED <<host, remote, report>>
  PROVE  \E r : AzureDoes(t, r)
<1>1. AzureTasks!Return(t, AzureTasks!Verdict("None")) /\ UNCHANGED <<written, copied>>
  BY DEF AzureTasks!NoProcessSelected
<1>. QED BY <1>1, AzurePlain, AzureResults, StatusValues DEF AzureFacts, AzureTasks!TypeOK

\* The tasks with a target.
LEMMA TargetsDo ==
  ASSUME AzureFacts,
         \/ AzureTasks!AzureFunctionsDownloadSiteDump \/ AzureTasks!AzureFunctionsFetchAppSettings
         \/ AzureTasks!AzureFunctionsCollectProcessDetails \/ AzureTasks!AzureFunctionsCollectLiveMemoryDump
         \/ AzureTasks!AzureFunctionsConfigureCrashDump
  PROVE  \E t, r : AzureDoes(t, r)
<1>0. AzureTaskNames BY AzureTaskNamesHold
<1>01. remote \in AzureTasks!Settings /\ copied \subseteq written BY DEF AzureFacts, AzureTasks!TypeOK
<1>1. CASE AzureTasks!AzureFunctionsDownloadSiteDump
  <2>1. AzureTasks!Runs("DownloadSiteDump")
    BY <1>0, <1>1, Zenon DEF AzureTaskNames, AzureTasks!AzureFunctionsDownloadSiteDump
  <2>2. \/ AzureTasks!Skipped("DownloadSiteDump")
        \/ AzureTasks!Download("DownloadSiteDump", "site-dump.zip") /\ UNCHANGED <<host, remote, report>>
    BY <1>0, <1>1 DEF AzureTaskNames, AzureTasks!AzureFunctionsDownloadSiteDump
  <2>. QED BY <2>1, <2>2, RefusedDoes, DownloadDoes
<1>2. CASE AzureTasks!AzureFunctionsFetchAppSettings
  <2>. DEFINE t == "FetchAppSettings"
  <2>1. AzureTasks!Runs(t)
    BY <1>0, <1>2, Zenon DEF AzureTaskNames, AzureTasks!AzureFunctionsFetchAppSettings
  <2>2. CASE AzureTasks!Skipped(t) BY <2>1, <2>2, RefusedDoes
  <2>3. CASE /\ \/ AzureTasks!Return(t, AzureTasks!With("Info", remote))
                \/ AzureTasks!Return(t, AzureTasks!Verdict("Error"))
             /\ UNCHANGED <<host, remote, written, copied, report>>
    BY <1>01, <2>1, <2>3, AzurePlain, AzureResults, StatusValues
  <2>. QED BY <1>0, <1>2, <2>2, <2>3 DEF AzureTaskNames, AzureTasks!AzureFunctionsFetchAppSettings
<1>3. CASE AzureTasks!AzureFunctionsCollectProcessDetails
  <2>. DEFINE t == "CollectProcessDetails"
  <2>1. AzureTasks!Runs(t)
    BY <1>0, <1>3, Zenon DEF AzureTaskNames, AzureTasks!AzureFunctionsCollectProcessDetails
  <2>2. CASE AzureTasks!Skipped(t) \/ AzureTasks!Declined(t) BY <2>1, <2>2, RefusedDoes
  <2>3. CASE /\ \/ AzureTasks!Return(t, AzureTasks!Verdict("Error")) /\ UNCHANGED <<written, copied>>
                \/ AzureTasks!NoProcessSelected(t)
             /\ UNCHANGED <<host, remote, report>>
    BY <1>01, <2>1, <2>3, AzurePlain, AzureResults, StatusValues, NoProcessDoes
  <2>4. CASE /\ \E saved : /\ written' = written \cup saved /\ copied' = copied \cup AzureTasks!FilesOf(saved)
                          /\ AzureTasks!Return(t, IF saved = AzureTasks!Sections
                                                 THEN AzureTasks!With("Info", saved)
                                                 ELSE AzureTasks!Verdict("Error"))
             /\ UNCHANGED <<host, remote, report>>
    <3>1. PICK saved : /\ written' = written \cup saved /\ copied' = copied \cup AzureTasks!FilesOf(saved)
                       /\ AzureTasks!Return(t, IF saved = AzureTasks!Sections
                                              THEN AzureTasks!With("Info", saved)
                                              ELSE AzureTasks!Verdict("Error"))
      BY <2>4
    <3>2. AzureTasks!FilesOf(saved) \subseteq saved BY DEF AzureTasks!FilesOf
    <3>3. copied' \subseteq written' /\ remote' \in AzureTasks!Settings BY <1>01, <2>4, <3>1, <3>2
    <3>4. \E r : AzureTasks!Return(t, r) /\ r.status \in Status
      BY <3>1, AzureResults, StatusValues
    <3>. QED BY <2>1, <2>4, <3>3, <3>4, AzurePlain
  <2>. QED BY <1>0, <1>3, <2>2, <2>3, <2>4
       DEF AzureTaskNames, AzureTasks!AzureFunctionsCollectProcessDetails
<1>4. CASE AzureTasks!AzureFunctionsCollectLiveMemoryDump
  <2>1. AzureTasks!Runs("CollectLiveMemoryDump")
    BY <1>0, <1>4, Zenon DEF AzureTaskNames, AzureTasks!AzureFunctionsCollectLiveMemoryDump
  <2>2. \/ AzureTasks!Skipped("CollectLiveMemoryDump") \/ AzureTasks!Declined("CollectLiveMemoryDump")
        \/ AzureTasks!Download("CollectLiveMemoryDump", "memdump.dmp") /\ UNCHANGED <<host, remote, report>>
        \/ AzureTasks!NoProcessSelected("CollectLiveMemoryDump") /\ UNCHANGED <<host, remote, report>>
    BY <1>0, <1>4 DEF AzureTaskNames, AzureTasks!AzureFunctionsCollectLiveMemoryDump
  <2>. QED BY <2>1, <2>2, RefusedDoes, DownloadDoes, NoProcessDoes
<1>5. CASE AzureTasks!AzureFunctionsConfigureCrashDump
  <2>. DEFINE t == "ConfigureCrashDump"
  <2>1. AzureTasks!Runs(t)
    BY <1>0, <1>5, Zenon DEF AzureTaskNames, AzureTasks!AzureFunctionsConfigureCrashDump
  <2>2. CASE AzureTasks!Skipped(t) \/ AzureTasks!Declined(t) BY <2>1, <2>2, RefusedDoes
  <2>3. CASE AzureTasks!Return(t, AzureTasks!Verdict("None")) /\ UNCHANGED AzureTasks!azure
    BY <1>01, <2>1, <2>3, AzurePlain, AzureResults, StatusValues DEF AzureTasks!azure
  <2>4. CASE /\ \/ remote' = AzureTasks!ApplyAppSettings(remote, AzureTasks!Runtime)
                \/ UNCHANGED remote
             /\ \/ AzureTasks!Return(t, AzureTasks!With("Success", "applied"))
                \/ AzureTasks!Return(t, AzureTasks!Verdict("Error"))
             /\ UNCHANGED <<host, written, copied, report>>
    <3>1. AzureTasks!ApplyAppSettings(remote, AzureTasks!Runtime) \in AzureTasks!Settings
      BY <1>01 DEF AzureTasks!ApplyAppSettings, AzureTasks!Settings
    <3>2. remote' \in AzureTasks!Settings /\ copied' \subseteq written' BY <1>01, <2>4, <3>1
    <3>. QED BY <2>1, <2>4, <3>2, AzurePlain, AzureResults, StatusValues
  <2>. QED BY <1>0, <1>5, <2>2, <2>3, <2>4 DEF AzureTaskNames, AzureTasks!AzureFunctionsConfigureCrashDump
<1>. QED BY <1>1, <1>2, <1>3, <1>4, <1>5

\* The report says what every task ended with: all of them have run.
LEMMA CollectReportDoes ==
  ASSUME AzureFacts, AzureTasks!AzureFunctionsCollectReport
  PROVE  \E r : AzureDoes("CollectReport", r)
<1>. DEFINE t == "CollectReport"
<1>0. AzureTaskNames BY AzureTaskNamesHold
<1>01. remote \in AzureTasks!Settings /\ copied \subseteq written BY DEF AzureFacts, AzureTasks!TypeOK
<1>1. AzureTasks!Runs(t)
  BY <1>0, Zenon DEF AzureTaskNames, AzureTasks!AzureFunctionsCollectReport
<1>2. CASE /\ \E s \in {"None", "Error"} : AzureTasks!Return(t, AzureTasks!Verdict(s))
           /\ UNCHANGED <<host, remote, report, written, copied>>
  BY <1>01, <1>1, <1>2, AzureResults, StatusValues DEF AzureDoes, AzureReturns, Judging
<1>3. CASE /\ report' = AzureTasks!BuildReport(results)
           /\ written' = written \cup {"report"} /\ copied' = copied \cup {"report"}
           /\ AzureTasks!Return(t, AzureTasks!With("Info", "report")) /\ UNCHANGED <<host, remote>>
  <2>1. AzureTasks!ReportDependencies \cap DOMAIN results = AzureTasks!ReportDependencies
    BY <1>1, AzureSources
  <2>2. report' = [u \in AzureTasks!ReportDependencies |-> results[u].status]
    BY <1>3, <2>1, Zenon DEF AzureTasks!BuildReport
  <2>3. copied' \subseteq written' /\ remote' \in AzureTasks!Settings BY <1>01, <1>3
  <2>. QED BY <1>1, <1>3, <2>2, <2>3, AzureResults, StatusValues DEF AzureDoes, AzureReturns, Judging
<1>. QED BY <1>0, <1>2, <1>3 DEF AzureTaskNames, AzureTasks!AzureFunctionsCollectReport, AzureTasks!azure

\* They are kept by a step that leaves what they speak of alone.
LEMMA AzureFactsStutter ==
  ASSUME AzureFacts, UNCHANGED <<host, results, remote, written, copied, report>>
  PROVE  AzureFacts'
BY DEF AzureFacts, AzureTasks!TypeOK, Told, AzureTasks!ReportSaysAll, AzureTasks!LocalOnlyInAzure,
       AzureTasks!OneSource, AzureTasks!Upstream, AzureTasks!Holds, AzureTasks!Runtime, AzureTasks!EnvVars,
       AzureTasks!ResolveEnvVars

\* What was told stays so: no task runs twice, and those who read run after their sources.
LEMMA AzureFactsKept ==
  ASSUME AzureFacts, AzureTasks!Next
  PROVE  AzureFacts'
<1>0. AzureTaskNames BY AzureTaskNamesHold
<1>1. ASSUME NEW t, NEW r, AzureDoes(t, r) PROVE AzureFacts'
  <2>1. /\ DOMAIN results' = DOMAIN results \cup {t} /\ results'[t] = r /\ t \notin DOMAIN results
        /\ \A u \in DOMAIN results : results'[u] = results[u]
        /\ UNCHANGED host
    BY <1>1 DEF AzureDoes, AzureTasks!Return, AzureTasks!Runs, AzureTasks!Ready
  <2>2. AzureTasks!TypeOK'
    BY <1>0, <1>1, <2>1, StatusValues
    DEF AzureFacts, AzureTasks!TypeOK, AzureDoes, AzureReturns, AzureTasks!Status, AzureTaskNames
  <2>3. /\ t \in Judging \cup {"DetectRuntime"} => {"FetchAppSettings", "DetectFunctionApp"} \subseteq DOMAIN results
        /\ t = "CollectReport" => AzureTasks!ReportDependencies \subseteq DOMAIN results
    BY <1>1, AzureSources DEF AzureDoes
  <2>4. /\ "DetectRuntime" \in DOMAIN results' => {"FetchAppSettings", "DetectFunctionApp"} \subseteq DOMAIN results
        /\ "CollectReport" \in DOMAIN results' => AzureTasks!ReportDependencies \subseteq DOMAIN results
    BY <2>1, <2>3 DEF AzureFacts
  <2>5. (Told("DetectFunctionApp") => results["DetectFunctionApp"].payload = host.local)'
    BY <1>1, <2>1 DEF AzureFacts, AzureDoes, AzureReturns, Told
  <2>6. /\ AzureTasks!Upstream(t)' = r
        /\ \A u \in DOMAIN results : AzureTasks!Upstream(u)' = AzureTasks!Upstream(u)
        /\ \A u : u # t => AzureTasks!Upstream(u)' = AzureTasks!Upstream(u)
    BY <2>1 DEF AzureTasks!Upstream
  <2>7. AzureTasks!ReportSaysAll'
    <3>1. ASSUME AzureTasks!Holds(AzureTasks!Upstream(AzureTasks!CollectReport))'
          PROVE  report' = [u \in AzureTasks!ReportDependencies |-> results[u].status]
      <4>1. CASE t = "CollectReport"
        BY <1>0, <1>1, <2>6, <3>1, <4>1
        DEF AzureTaskNames, AzureDoes, AzureReturns, AzureTasks!Holds, Holds
      <4>2. CASE t # "CollectReport"
        <5>1. AzureTasks!Holds(AzureTasks!Upstream(AzureTasks!CollectReport))
          BY <1>0, <2>6, <3>1, <4>2 DEF AzureTaskNames, AzureTasks!Holds
        <5>2. report' = report BY <1>1, <4>2 DEF AzureDoes, AzureReturns
        <5>. QED BY <5>1, <5>2 DEF AzureFacts, AzureTasks!ReportSaysAll
      <4>. QED BY <4>1, <4>2
    <3>2. ASSUME AzureTasks!Holds(AzureTasks!Upstream(AzureTasks!CollectReport))'
          PROVE  \A u \in AzureTasks!ReportDependencies : results'[u] = results[u]
      <4>1. "CollectReport" \in DOMAIN results'
        BY <1>0, <3>2, AzureResults DEF AzureTaskNames, AzureTasks!Upstream, AzureTasks!Holds, Holds
      <4>. QED BY <2>1, <2>4, <4>1
    <3>. QED BY <3>1, <3>2 DEF AzureTasks!ReportSaysAll
  <2>8. AzureTasks!LocalOnlyInAzure'
    <3>1. ASSUME NEW u \in Judging, AzureTasks!Upstream(u)'.status # "None"
          PROVE  Told("FetchAppSettings") \/ Told("DetectFunctionApp")
      <4>1. CASE u = t BY <1>1, <2>6, <3>1, <4>1 DEF AzureDoes, AzureReturns
      <4>2. CASE u # t
        <5>1. AzureTasks!Upstream(u).status # "None" BY <2>6, <3>1, <4>2
        <5>2. \E x \in {"FetchAppSettings", "DetectFunctionApp"} : AzureTasks!Upstream(x).status = "Info"
          BY <1>0, <5>1, Zenon DEF AzureFacts, AzureTasks!LocalOnlyInAzure, AzureTaskNames, Judging
        <5>. QED BY <5>2, AzureResults DEF Told, AzureTasks!Upstream
      <4>. QED BY <4>1, <4>2
    <3>2. \A x \in {"FetchAppSettings", "DetectFunctionApp"} : Told(x) => AzureTasks!Upstream(x)'.status = "Info"
      BY <2>1 DEF Told, AzureTasks!Upstream
    <3>. QED BY <1>0, <3>1, <3>2 DEF AzureTasks!LocalOnlyInAzure, AzureTaskNames, Judging
  <2>9. AzureTasks!OneSource'
    <3>. SUFFICES ASSUME AzureTasks!Upstream("DetectRuntime")'.status = "Info"
                  PROVE  AzureTasks!Runtime' = AzureTasks!EnvVars.runtime'
      BY <1>0 DEF AzureTasks!OneSource, AzureTaskNames
    <3>1. "DetectRuntime" \in DOMAIN results' BY AzureResults DEF AzureTasks!Upstream
    <3>2. AzureTasks!EnvVars' = AzureTasks!EnvVars
      BY <1>0, <2>1, <2>4, <3>1 DEF AzureTasks!EnvVars, AzureTasks!ResolveEnvVars, AzureTaskNames
    <3>3. AzureTasks!Runtime' = AzureTasks!EnvVars.runtime
      <4>1. CASE t = "DetectRuntime"
        BY <1>0, <1>1, <2>6, <4>1
        DEF AzureDoes, AzureReturns, AzureTasks!Runtime, AzureTasks!Holds, Holds, AzureTaskNames
      <4>2. CASE t # "DetectRuntime"
        BY <1>0, <2>6, <4>2 DEF AzureFacts, AzureTasks!OneSource, AzureTasks!Runtime, AzureTasks!Holds, AzureTaskNames
      <4>. QED BY <4>1, <4>2
    <3>. QED BY <3>2, <3>3
  <2>. QED BY <2>1, <2>2, <2>4, <2>5, <2>7, <2>8, <2>9 DEF AzureFacts
<1>2. CASE AzureTasks!Done
  BY <1>2, AzureFactsStutter DEF AzureTasks!Done, AzureTasks!vars
<1>. QED
  BY <1>1, <1>2, DetectFunctionAppDoes, DetectRuntimeDoes, JudgesDo, AnalyzeLogsDoes, TargetsDo, CollectReportDoes
  DEF AzureTasks!Next

\* At first nothing was told.
LEMMA AzureFactsStart ==
  ASSUME AzureTasks!Init
  PROVE  AzureFacts
<1>1. /\ DOMAIN results = {} /\ host \in AzureHost /\ remote = host.azure /\ written = {} /\ copied = {}
  BY DEF AzureTasks!Init, AzureTasks!NothingRun
<1>2. remote \in AzureTasks!Settings
  <2>1. host \in AzureTasks!HostType
    BY <1>1, TaskEffectsValues DEF TaskEffectsAssumption, AzureTasks!AzureFunctionsAssumption
  <2>. QED BY <1>1, <2>1 DEF AzureTasks!HostType
<1>3. \A u : AzureTasks!Upstream(u) = AzureTasks!Verdict("None") BY <1>1 DEF AzureTasks!Upstream
<1>4. AzureTasks!ReportSaysAll /\ AzureTasks!LocalOnlyInAzure /\ AzureTasks!OneSource
  BY <1>3, AzureResults
  DEF AzureTasks!ReportSaysAll, AzureTasks!LocalOnlyInAzure, AzureTasks!OneSource, AzureTasks!Holds, Holds
<1>. QED BY <1>1, <1>2, <1>4 DEF AzureFacts, AzureTasks!TypeOK, Told

-----------------------------------------------------------------------------
(* What is said of the agent's endpoints and logs *)

\* What the results of the agent's tasks, and its logs, are: they are well formed, a
\* connection check succeeds when every endpoint answers, and the logs handed on are
\* on their way.
InfraFacts ==
  /\ InfraTasks!TypeOK
  /\ InfraTasks!ConnectMeansAll
  /\ InfraTasks!PayloadCollected

\* What a task of the agent returns.
InfraReturns(t, r) ==
  /\ t \in InfraTasks!Tasks /\ r.status \in InfraTasks!Status
  /\ t = InfraTasks!Connect /\ r.status = "Success" =>
       \A g \in InfraTasks!Region, e \in InfraEndpoint :
         (host.regions = {} \/ g \in host.regions) => <<g, e>> \notin host.unreachable
  /\ t = InfraTasks!Collect /\ Holds(r) => r.payload \subseteq pending'

\* The effects of a task of the agent.
InfraEffect(t, r) ==
  /\ InfraTasks!Return(t, r) /\ t \notin DOMAIN results /\ UNCHANGED <<host, archive>>
  /\ level' \in {level, "debug"} /\ lines' \in {lines} \cup BOOLEAN
  /\ pending' = pending \/ (t = InfraTasks!Collect /\ pending' \subseteq host.readable)
  /\ InfraReturns(t, r)

\* Results without a payload.
LEMMA InfraVerdicts ==
  ASSUME NEW s
  PROVE  InfraTasks!Verdict(s).status = s /\ ~Holds(InfraTasks!Verdict(s))
BY DEF InfraTasks!Verdict, Holds

\* The effect of a task that only looks, and is not one of those that are looked at.
LEMMA InfraLooks ==
  ASSUME NEW t \in InfraTasks!Tasks, NEW r, InfraTasks!Return(t, r), t \notin DOMAIN results,
         UNCHANGED InfraTasks!unchanged, r.status \in InfraTasks!Status,
         t # InfraTasks!Collect, t # InfraTasks!Connect
  PROVE  InfraEffect(t, r)
BY DEF InfraEffect, InfraReturns, InfraTasks!unchanged

\* Connect succeeds when none of its URLs is unreachable.
LEMMA ConnectEffect ==
  ASSUME InfraTasks!InfraAgentConnect
  PROVE  \E r : InfraEffect(InfraTasks!Connect, r)
<1>. DEFINE t == InfraTasks!Connect
            urls == InfraTasks!BuildRequestURLs
            s == IF InfraTasks!ValidateResponses(urls) THEN "Success" ELSE "Failure"
            r == IF InfraTasks!Present THEN InfraTasks!With(s, urls) ELSE InfraTasks!Verdict("None")
<1>1. InfraTasks!Return(t, r) /\ t \notin DOMAIN results /\ UNCHANGED <<host, level, lines, pending, archive>>
  BY DEF InfraTasks!InfraAgentConnect, InfraTasks!Ready, InfraTasks!unchanged
<1>2. /\ r.status \in {"Success", "Failure", "None"}
      /\ r.status = "Success" => InfraTasks!ValidateResponses(urls)
  <2>. HIDE DEF urls
  <2>. QED BY DEF InfraTasks!With, InfraTasks!Verdict
<1>3. ASSUME InfraTasks!ValidateResponses(urls), NEW g \in InfraTasks!Region, NEW e \in InfraEndpoint,
             host.regions = {} \/ g \in host.regions
      PROVE  <<g, e>> \notin host.unreachable
  <2>1. <<g, e>> \in urls BY <1>3 DEF InfraTasks!BuildRequestURLs
  <2>. QED BY <1>3, <2>1 DEF InfraTasks!ValidateResponses
<1>4. t \in InfraTasks!Tasks /\ t # InfraTasks!Collect
  BY DEF InfraTasks!Tasks, InfraTasks!Connect, InfraTasks!Collect
<1>. HIDE DEF t, r
<1>. QED BY <1>1, <1>2, <1>3, <1>4 DEF InfraEffect, InfraReturns, InfraTasks!Status, t

\* Log/Collect hands on the logs that it sends on their way.
LEMMA CollectEffect ==
  ASSUME InfraTasks!InfraLogCollect
  PROVE  \E r : InfraEffect(InfraTasks!Collect, r)
<1>. DEFINE t == InfraTasks!Collect
            paths == InfraTasks!GetLogFilePaths
            valid == InfraTasks!ValidatePaths(paths)
<1>1. t \notin DOMAIN results /\ UNCHANGED <<host, level, lines, archive>>
  BY DEF InfraTasks!InfraLogCollect, InfraTasks!Ready
<1>2. t \in InfraTasks!Tasks /\ t # InfraTasks!Connect
  BY DEF InfraTasks!Tasks, InfraTasks!Connect, InfraTasks!Collect
<1>3. valid \subseteq host.readable BY DEF InfraTasks!ValidatePaths
<1>4. CASE InfraTasks!Present
  <2>1. /\ InfraTasks!Return(t, InfraTasks!CollectResult(paths, valid))
        /\ pending' = valid
    BY <1>4, Zenon DEF InfraTasks!InfraLogCollect
  <2>2. LET r == InfraTasks!CollectResult(paths, valid)
        IN  r.status \in InfraTasks!Status /\ (Holds(r) => r.payload \subseteq valid)
    <3>. HIDE DEF paths, valid
    <3>. QED BY DEF InfraTasks!CollectResult, InfraTasks!Verdict, InfraTasks!With, InfraTasks!Status, Holds
  <2>. HIDE DEF paths, valid
  <2>. QED BY <1>1, <1>2, <1>3, <2>1, <2>2 DEF InfraEffect, InfraReturns
<1>5. CASE ~InfraTasks!Present
  <2>1. InfraTasks!Return(t, InfraTasks!Verdict("None")) /\ UNCHANGED pending
    BY <1>5, Zenon DEF InfraTasks!InfraLogCollect
  <2>. QED BY <1>1, <1>2, <2>1, InfraVerdicts DEF InfraEffect, InfraReturns, InfraTasks!Status
<1>. QED BY <1>4, <1>5

\* Debug may switch the agent, and has no part in the logs' way.
LEMMA DebugEffect ==
  ASSUME InfraTasks!InfraAgentDebug
  PROVE  \E r : InfraEffect(InfraTasks!Debug, r)
<1>. DEFINE t == InfraTasks!Debug
            refusal == InfraTasks!Refusal(InfraTasks!Upstream(InfraTasks!Collect),
                                          InfraTasks!Upstream(InfraTasks!Version))
<1>1. t \notin DOMAIN results /\ UNCHANGED <<host, pending, archive>>
  BY DEF InfraTasks!InfraAgentDebug, InfraTasks!Ready
<1>2. refusal \in {"Failure", "Error", "None"} BY DEF InfraTasks!Refusal
<1>. HIDE DEF refusal
<1>3. PICK s \in {"Failure", "Error", "Success", "Warning"} :
        /\ InfraTasks!Return(t, InfraTasks!Verdict(s))
        /\ level' \in {level, "debug"} /\ lines' \in {lines} \cup BOOLEAN
  <2>1. CASE refusal # "None"
    <3>1. InfraTasks!Return(t, InfraTasks!Verdict(refusal)) /\ UNCHANGED <<level, lines>>
      BY <2>1 DEF InfraTasks!InfraAgentDebug, refusal
    <3>. QED BY <1>2, <2>1, <3>1
  <2>2. CASE refusal = "None"
    <3>1. \/ InfraTasks!Return(t, InfraTasks!Verdict("Error")) /\ UNCHANGED <<level, lines>>
          \/ InfraTasks!Return(t, InfraTasks!Verdict("Success")) /\ level' = "debug" /\ lines' = TRUE
          \/ InfraTasks!Return(t, InfraTasks!Verdict("Warning")) /\ level' = "debug" /\ lines' \in BOOLEAN
      BY <2>2 DEF InfraTasks!InfraAgentDebug, refusal
    <3>. QED BY <3>1
  <2>. QED BY <2>1, <2>2
<1>4. t \in InfraTasks!Tasks /\ t # InfraTasks!Connect /\ t # InfraTasks!Collect
  BY DEF InfraTasks!Tasks, InfraTasks!Connect, InfraTasks!Collect, InfraTasks!Debug
<1>. QED BY <1>1, <1>3, <1>4, InfraVerdicts DEF InfraEffect, InfraReturns, InfraTasks!Status

\* A step is the copying of logs, leaves all alone, or is a task with such an effect.
LEMMA InfraTaskEffect ==
  ASSUME host \in InfraHost, InfraTasks!Next
  PROVE  \/ UNCHANGED <<host, results, level, lines, pending, archive>>
         \/ InfraTasks!CopyFilesToZip
         \/ \E t, r : InfraEffect(t, r)
<1>. USE DEF InfraTasks!Ready
<1>0. {InfraTasks!ConfigAgent, InfraTasks!DataDirectory, InfraTasks!Version, InfraTasks!LevelCheck,
       InfraTasks!ClockSkew} \subseteq InfraTasks!Tasks \ {InfraTasks!Collect, InfraTasks!Connect}
  BY DEF InfraTasks!Tasks, InfraTasks!ConfigAgent, InfraTasks!DataDirectory, InfraTasks!Version,
         InfraTasks!LevelCheck, InfraTasks!ClockSkew, InfraTasks!Collect, InfraTasks!Connect
<1>01. \A s, p : InfraTasks!With(s, p).status = s BY DEF InfraTasks!With
<1>02. \A s : s \in InfraTasks!Status <=> s \in {"None", "Success", "Warning", "Failure", "Error", "Info"}
  BY DEF InfraTasks!Status
<1>1. CASE InfraTasks!InfraConfigAgent
  <2>1. \E r : InfraTasks!Return(InfraTasks!ConfigAgent, r) /\ r.status \in InfraTasks!Status
    BY <1>1, <1>01, <1>02, InfraVerdicts DEF InfraTasks!InfraConfigAgent
  <2>2. InfraTasks!ConfigAgent \notin DOMAIN results /\ UNCHANGED InfraTasks!unchanged
    BY <1>1, Zenon DEF InfraTasks!InfraConfigAgent
  <2>. QED BY <1>0, <2>1, <2>2, InfraLooks
<1>2. CASE InfraTasks!InfraConfigDataDirectoryCollect
  <2>1. \E r : InfraTasks!Return(InfraTasks!DataDirectory, r) /\ r.status \in InfraTasks!Status
    BY <1>2, <1>02, InfraVerdicts DEF InfraTasks!InfraConfigDataDirectoryCollect
  <2>2. InfraTasks!DataDirectory \notin DOMAIN results /\ UNCHANGED InfraTasks!unchanged
    BY <1>2, Zenon DEF InfraTasks!InfraConfigDataDirectoryCollect
  <2>. QED BY <1>0, <2>1, <2>2, InfraLooks
<1>3. CASE InfraTasks!InfraAgentVersion
  <2>1. InfraTasks!ValidatePublishDate(host.release).status \in InfraTasks!Status
    BY <1>01, <1>02, InfraVerdicts DEF InfraTasks!ValidatePublishDate
  <2>2. \E r : InfraTasks!Return(InfraTasks!Version, r) /\ r.status \in InfraTasks!Status
    BY <1>3, <2>1, <1>02, InfraVerdicts DEF InfraTasks!InfraAgentVersion
  <2>3. InfraTasks!Version \notin DOMAIN results /\ UNCHANGED InfraTasks!unchanged
    BY <1>3, Zenon DEF InfraTasks!InfraAgentVersion
  <2>. QED BY <1>0, <2>2, <2>3, InfraLooks
<1>4. CASE InfraTasks!InfraLogLevelCheck
  <2>1. \E r : InfraTasks!Return(InfraTasks!LevelCheck, r) /\ r.status \in InfraTasks!Status
    BY <1>4, <1>02, InfraVerdicts DEF InfraTasks!InfraLogLevelCheck
  <2>2. InfraTasks!LevelCheck \notin DOMAIN results /\ UNCHANGED InfraTasks!unchanged
    BY <1>4, Zenon DEF InfraTasks!InfraLogLevelCheck
  <2>. QED BY <1>0, <2>1, <2>2, InfraLooks
<1>5. CASE InfraTasks!InfraEnvClockSkew
  <2>1. \E r : InfraTasks!Return(InfraTasks!ClockSkew, r) /\ r.status \in InfraTasks!Status
    BY <1>5, <1>01, <1>02, InfraVerdicts DEF InfraTasks!InfraEnvClockSkew
  <2>2. InfraTasks!ClockSkew \notin DOMAIN results /\ UNCHANGED InfraTasks!unchanged
    BY <1>5, Zenon DEF InfraTasks!InfraEnvClockSkew
  <2>. QED BY <1>0, <2>1, <2>2, InfraLooks
<1>6. CASE InfraTasks!Done
  BY <1>6 DEF InfraTasks!Done, InfraTasks!vars
<1>. QED
  BY <1>1, <1>2, <1>3, <1>4, <1>5, <1>6, ConnectEffect, CollectEffect, DebugEffect DEF InfraTasks!Next

\* A step that leaves the agent and its logs alone keeps what is said.
LEMMA InfraFactsStutter ==
  ASSUME InfraFacts, UNCHANGED <<host, results, level, lines, pending, archive>>
  PROVE  InfraFacts'
BY DEF InfraFacts, InfraTasks!TypeOK, InfraTasks!ConnectMeansAll, InfraTasks!PayloadCollected,
       InfraTasks!Upstream, InfraTasks!Holds

\* What was told stays so: no task runs twice, and logs on their way arrive.
LEMMA InfraFactsKept ==
  ASSUME InfraFacts, InfraTasks!Next
  PROVE  InfraFacts'
<1>0. host \in InfraHost BY DEF InfraFacts, InfraTasks!TypeOK
<1>1. CASE UNCHANGED <<host, results, level, lines, pending, archive>>
  BY <1>1, InfraFactsStutter
<1>2. CASE InfraTasks!CopyFilesToZip
  <2>1. /\ DOMAIN archive' = pending \cup DOMAIN archive /\ pending' = {}
        /\ UNCHANGED <<host, level, lines, results>>
    BY <1>2 DEF InfraTasks!CopyFilesToZip
  <2>. QED
    BY <2>1
    DEF InfraFacts, InfraTasks!TypeOK, InfraTasks!ConnectMeansAll, InfraTasks!PayloadCollected,
        InfraTasks!Upstream, InfraTasks!Holds
<1>3. ASSUME NEW t, NEW r, InfraEffect(t, r) PROVE InfraFacts'
  <2>1. /\ DOMAIN results' = DOMAIN results \cup {t} /\ results'[t] = r
        /\ \A u \in DOMAIN results : results'[u] = results[u]
    BY <1>3, InfraReturn DEF InfraEffect
  <2>2. InfraTasks!TypeOK'
    BY <1>3, <2>1 DEF InfraFacts, InfraTasks!TypeOK, InfraEffect, InfraReturns
  <2>3. \A u : u # t => InfraTasks!Upstream(u)' = InfraTasks!Upstream(u)
    BY <2>1 DEF InfraTasks!Upstream
  <2>4. InfraTasks!Upstream(t)' = r BY <2>1 DEF InfraTasks!Upstream
  <2>5. InfraTasks!ConnectMeansAll'
    <3>1. CASE t = InfraTasks!Connect
      BY <1>3, <2>4, <3>1 DEF InfraTasks!ConnectMeansAll, InfraEffect, InfraReturns
    <3>2. CASE t # InfraTasks!Connect
      BY <1>3, <2>3, <3>2 DEF InfraFacts, InfraTasks!ConnectMeansAll, InfraEffect
    <3>. QED BY <3>1, <3>2
  <2>6. InfraTasks!PayloadCollected'
    <3>1. CASE t = InfraTasks!Collect
      BY <1>3, <2>1, <2>4, <3>1 DEF InfraTasks!PayloadCollected, InfraEffect, InfraReturns, InfraTasks!Holds, Holds
    <3>2. CASE t # InfraTasks!Collect
      <4>1. InfraTasks!Holds(InfraTasks!Upstream(InfraTasks!Collect)) => InfraTasks!Collect \in DOMAIN results
        BY InfraVerdicts DEF InfraTasks!Upstream, InfraTasks!Holds, Holds
      <4>2. pending' = pending /\ archive' = archive BY <1>3, <3>2 DEF InfraEffect
      <4>3. InfraTasks!Holds(InfraTasks!Upstream(InfraTasks!Collect))' <=>
              InfraTasks!Holds(InfraTasks!Upstream(InfraTasks!Collect))
        BY <2>3, <3>2 DEF InfraTasks!Holds
      <4>. QED BY <2>1, <4>1, <4>2, <4>3 DEF InfraFacts, InfraTasks!PayloadCollected
    <3>. QED BY <3>1, <3>2
  <2>. QED BY <2>2, <2>5, <2>6 DEF InfraFacts
<1>. QED BY <1>0, <1>1, <1>2, <1>3, InfraTaskEffect

\* At first nothing was told.
LEMMA InfraFactsStart ==
  ASSUME InfraTasks!Init
  PROVE  InfraFacts
BY InfraVerdicts
DEF InfraTasks!Init, InfraTasks!NothingRun, InfraFacts, InfraTasks!TypeOK, InfraTasks!ConnectMeansAll,
    InfraTasks!PayloadCollected, InfraTasks!Upstream, InfraTasks!Holds, Holds

-----------------------------------------------------------------------------
(* What is said of integrations *)

\* The pairs that Match finds in the files of the host.
HostPairs == IntegrationsTasks!MatchResult(host.files, host.version.payload >= IntegrationsTasks!NewConfigFormat)

\* What the results of the integrations' tasks are: files are handed on as they were
\* found, pairs are those of these files, and successes mean what they say.
IntegrationsFacts ==
  /\ host \in IntegrationsHost
  /\ IntegrationsTasks!TypeOK
  /\ IntegrationsTasks!Succeeded(IntegrationsTasks!Collect) =>
       results[IntegrationsTasks!Collect].payload = host.files
  /\ IntegrationsTasks!Validate \in DOMAIN results =>
       /\ Holds(results[IntegrationsTasks!Validate]) <=> results[IntegrationsTasks!Validate].status = "Success"
       /\ Holds(results[IntegrationsTasks!Validate]) =>
            results[IntegrationsTasks!Validate].payload = host.files
  /\ IntegrationsTasks!Match \in DOMAIN results /\ Holds(results[IntegrationsTasks!Match]) =>
       results[IntegrationsTasks!Match].payload = HostPairs.payload
  /\ IntegrationsTasks!Zookeeper \in DOMAIN results => IntegrationsTasks!Match \in DOMAIN results
  /\ IntegrationsTasks!ConfiguredPathWorks
  /\ IntegrationsTasks!JsonChecked

\* What a task of the integrations returns.
IntegrationsReturns(t, r) ==
  /\ r.status \in Status
  /\ t = IntegrationsTasks!Collect /\ r.status = "Success" => r.payload = host.files
  /\ t = IntegrationsTasks!Validate =>
       /\ Holds(r) <=> r.status = "Success"
       /\ Holds(r) => r.payload = host.files
  /\ t = IntegrationsTasks!Match /\ Holds(r) => r.payload = HostPairs.payload
  /\ t = IntegrationsTasks!Zookeeper =>
       /\ IntegrationsTasks!Match \in DOMAIN results
       /\ r.status = "Success" =>
            \E p \in listed' :
              <<"localhost", p.port, IntegrationsTasks!Pairs["kafka"].config.zookeeper.path>> \in host.brokers
  /\ t = IntegrationsTasks!Json /\ r.status = "Success" =>
       \A f \in IntegrationsTasks!Files :
         f.kind = "config" /\ f.of \in {"kafka", "redis"} => f.json # "invalid"

\* The effects of a task of the integrations on what its results tell.
IntegrationsDoes(t, r) ==
  /\ IntegrationsTasks!Return(t, r) /\ t \in IntegrationsTasks!Tasks \ DOMAIN results /\ UNCHANGED host
  /\ declined' \cup kept' \subseteq IntegrationsTasks!Files
  /\ \A a \in tested' : "" \notin {a.host, a.port}
  /\ t # IntegrationsTasks!Mbeans => asked' = asked
  /\ t # IntegrationsTasks!Zookeeper => listed' = listed
  /\ IntegrationsReturns(t, r)

\* The names of all tasks of the family.
IntegrationsTaskNames ==
  /\ IntegrationsTasks!Collect = "Infra/Config/IntegrationsCollect"
  /\ IntegrationsTasks!Validate = "Infra/Config/IntegrationsValidate"
  /\ IntegrationsTasks!Json = "Infra/Config/IntegrationsValidateJson"
  /\ IntegrationsTasks!Match = "Infra/Config/IntegrationsMatch"
  /\ IntegrationsTasks!Jmx = "Infra/Config/ValidateJMX"
  /\ IntegrationsTasks!Mbeans = "Infra/Env/NrjmxMbeans"
  /\ IntegrationsTasks!Zookeeper = "Infra/Env/ValidateZookeeperPath"

\* The names are those of the code, and different.
LEMMA IntegrationsTaskNamesHold ==
  /\ IntegrationsTaskNames
  /\ IntegrationsTasks!Tasks =
       {"Infra/Config/IntegrationsCollect", "Infra/Config/IntegrationsValidate",
        "Infra/Config/IntegrationsValidateJson", "Infra/Config/IntegrationsMatch",
        "Infra/Config/ValidateJMX", "Infra/Env/NrjmxMbeans", "Infra/Env/ValidateZookeeperPath"}
BY DEF IntegrationsTaskNames, IntegrationsTasks!Tasks, IntegrationsTasks!Collect, IntegrationsTasks!Validate,
       IntegrationsTasks!Json, IntegrationsTasks!Match, IntegrationsTasks!Jmx, IntegrationsTasks!Mbeans,
       IntegrationsTasks!Zookeeper

\* Results, with and without a payload.
LEMMA IntegrationsResults ==
  /\ \A s : IntegrationsTasks!Verdict(s).status = s /\ ~Holds(IntegrationsTasks!Verdict(s))
  /\ \A s, p : /\ IntegrationsTasks!With(s, p).status = s /\ IntegrationsTasks!With(s, p).payload = p
               /\ Holds(IntegrationsTasks!With(s, p))
BY DEF IntegrationsTasks!Verdict, IntegrationsTasks!With, Holds

\* The files of the host are files, and None is none of them.
LEMMA HostFiles ==
  ASSUME host \in IntegrationsHost
  PROVE  host.files \in Seq(IntegrationsTasks!FileType) /\ None \notin IntegrationsTasks!FileType /\ None # ""
<1>1. /\ None \notin IntegrationsTasks!FileType \cup {""}
      /\ \A h \in IntegrationsHost : h.files \in Seq(IntegrationsTasks!FileType)
  BY TaskEffectsValues, Zenon DEF TaskEffectsAssumption, IntegrationsTasks!InfraIntegrationsAssumption
<1>. QED BY <1>1

\* The last file of an integration and a kind is one in its place.
LEMMA LastFileIs ==
  ASSUME NEW files \in Seq(IntegrationsTasks!FileType), NEW i, NEW kind
  PROVE  IF IntegrationsTasks!Places(files, i, kind) = {}
         THEN IntegrationsTasks!LastFile(files, i, kind) = None
         ELSE \E n \in IntegrationsTasks!Places(files, i, kind) :
                IntegrationsTasks!LastFile(files, i, kind) = files[n]
<1>. DEFINE T == IntegrationsTasks!Places(files, i, kind)
<1>1. CASE T = {}
  BY <1>1 DEF IntegrationsTasks!LastFile
<1>2. CASE T # {}
  <2>1. T \subseteq 1..Len(files) /\ Len(files) \in Nat BY DEF IntegrationsTasks!Places
  <2>2. \E n \in T : \A m \in T : m <= n
    <3>. HIDE DEF T
    <3>1. T \subseteq 0..Len(files) BY <2>1
    <3>. QED BY <1>2, <2>1, <3>1, Greatest
  <2>3. IntegrationsTasks!Max(T) \in T
    <3>1. \E n \in T : \A m \in T : n >= m
      <4>. HIDE DEF T
      <4>. QED BY <2>1, <2>2
    <3>. HIDE DEF T
    <3>. QED BY <3>1 DEF IntegrationsTasks!Max
  <2>. QED BY <1>2, <2>3 DEF IntegrationsTasks!LastFile
<1>. QED BY <1>1, <1>2

\* The configuration of a pair is a file of the host.
LEMMA PairHasConfig ==
  ASSUME host \in IntegrationsHost, NEW i \in DOMAIN HostPairs.payload
  PROVE  HostPairs.payload[i].config \in IntegrationsTasks!Files
<1>. DEFINE files == host.files
            newer == host.version.payload >= IntegrationsTasks!NewConfigFormat
            found == IntegrationsTasks!MatchFilePairs(files)
            valid == {j \in DOMAIN found : IntegrationsTasks!ValidateIntegrationPair(found[j], newer)}
            c == IntegrationsTasks!LastFile(files, i, "config")
<1>1. HostPairs.payload = [j \in valid |-> found[j]]
  <2>. HIDE DEF found
  <2>. QED BY IntegrationsResults DEF HostPairs, IntegrationsTasks!MatchResult, found
<1>2. i \in DOMAIN found /\ found[i].config # None /\ HostPairs.payload[i] = found[i]
  <2>. HIDE DEF found
  <2>. QED BY <1>1 DEF IntegrationsTasks!ValidateIntegrationPair
<1>3. found[i].config = c
  BY <1>2 DEF IntegrationsTasks!MatchFilePairs
<1>4. \E n \in DOMAIN files : c = files[n]
  <2>1. IntegrationsTasks!Places(files, i, "config") \subseteq DOMAIN files BY DEF IntegrationsTasks!Places
  <2>2. files \in Seq(IntegrationsTasks!FileType) BY HostFiles
  <2>. HIDE DEF files, c, found
  <2>. QED BY <1>2, <1>3, <2>1, <2>2, LastFileIs DEF c
<1>. HIDE DEF c, found
<1>. QED BY <1>2, <1>3, <1>4 DEF IntegrationsTasks!Files, IntegrationsTasks!ToSet

\* Where there is no double, the file in its place is the last one.
LEMMA SoleFile ==
  ASSUME host \in IntegrationsHost, NEW i, NEW kind, IntegrationsTasks!Sole(i, kind)
  PROVE  LET f == IntegrationsTasks!LastFile(host.files, i, kind)
         IN  IntegrationsTasks!Placed(i, kind) = IF f = None THEN {} ELSE {f}
<1>. DEFINE files == host.files
            f == IntegrationsTasks!LastFile(files, i, kind)
            T == IntegrationsTasks!Places(files, i, kind)
<1>1. files \in Seq(IntegrationsTasks!FileType) /\ None \notin IntegrationsTasks!FileType BY HostFiles
<1>2. IntegrationsTasks!Placed(i, kind) = {files[n] : n \in T}
  BY DEF IntegrationsTasks!Placed, IntegrationsTasks!Places, IntegrationsTasks!Files, IntegrationsTasks!ToSet
<1>3. \A m, n \in T : m = n BY DEF IntegrationsTasks!Sole
<1>4. \A n \in T : files[n] # None
  BY <1>1 DEF IntegrationsTasks!Places
<1>5. IF T = {} THEN f = None ELSE \E n \in T : f = files[n]
  <2>. HIDE DEF files
  <2>. QED BY <1>1, LastFileIs
<1>. HIDE DEF f, T, files
<1>6. CASE T = {} BY <1>2, <1>5, <1>6 DEF f, files
<1>7. CASE T # {}
  <2>1. PICK n \in T : f = files[n] BY <1>5, <1>7
  <2>2. {files[m] : m \in T} = {f} BY <1>3, <2>1
  <2>. QED BY <1>2, <1>4, <2>1, <2>2 DEF f, files
<1>. QED BY <1>6, <1>7

\* The pairs found in the files agree with them.
LEMMA PairsAgree ==
  ASSUME host \in IntegrationsHost, NEW i \in IntegrationsTasks!Integration,
         IntegrationsTasks!Sole(i, "config"), IntegrationsTasks!Sole(i, "definition")
  PROVE  i \in DOMAIN HostPairs.payload <=>
           \E c \in IntegrationsTasks!Placed(i, "config") :
             \/ /\ IntegrationsTasks!Placed(i, "definition") = {} /\ c.v4
                /\ host.version.payload >= IntegrationsTasks!NewConfigFormat
             \/ \E d \in IntegrationsTasks!Placed(i, "definition") :
                  d.name # None /\ (c.v4 \/ c.name = "" \/ (c.name # None /\ d.name \in {c.name, ""}))
<1>. DEFINE files == host.files
            newer == host.version.payload >= IntegrationsTasks!NewConfigFormat
            found == IntegrationsTasks!MatchFilePairs(files)
            valid == {j \in DOMAIN found : IntegrationsTasks!ValidateIntegrationPair(found[j], newer)}
            c == IntegrationsTasks!LastFile(files, i, "config")
            d == IntegrationsTasks!LastFile(files, i, "definition")
            C == IntegrationsTasks!Placed(i, "config")
            D == IntegrationsTasks!Placed(i, "definition")
<1>0. None # "" BY HostFiles
<1>1. DOMAIN HostPairs.payload = valid
  <2>. HIDE DEF found
  <2>1. HostPairs.payload = [j \in valid |-> found[j]]
    BY IntegrationsResults DEF HostPairs, IntegrationsTasks!MatchResult, found
  <2>. QED BY <2>1
<1>2. C = (IF c = None THEN {} ELSE {c}) /\ D = (IF d = None THEN {} ELSE {d}) BY SoleFile
<1>3. i \in DOMAIN found <=> C # {} \/ D # {}
  <2>1. \A g \in IntegrationsTasks!ToSet(files) : g.kind \in {"config", "definition", "other"}
    <3>1. files \in Seq(IntegrationsTasks!FileType) BY HostFiles
    <3>2. IntegrationsTasks!ToSet(files) \subseteq IntegrationsTasks!FileType
      BY <3>1 DEF IntegrationsTasks!ToSet
    <3>. QED BY <3>2 DEF IntegrationsTasks!FileType
  <2>. QED BY <2>1 DEF IntegrationsTasks!MatchFilePairs, IntegrationsTasks!Placed, IntegrationsTasks!Files
<1>4. i \in DOMAIN found => found[i].config = c /\ found[i].definition = d
  BY DEF IntegrationsTasks!MatchFilePairs
<1>. HIDE DEF c, d, C, D, found, newer
<1>5. i \in valid <=> /\ i \in DOMAIN found /\ c # None
                      /\ \/ d = None /\ newer /\ c.v4
                         \/ /\ d # None /\ d.name # None
                            /\ c.v4 \/ (c.name # None /\ ("" \in {c.name, d.name} \/ c.name = d.name))
  BY <1>4 DEF IntegrationsTasks!ValidateIntegrationPair, IntegrationsTasks!ValidateConfigPairNames
<1>6. i \in valid <=> \E x \in C : \/ D = {} /\ x.v4 /\ newer
                                   \/ \E y \in D : y.name # None /\
                                        (x.v4 \/ x.name = "" \/ (x.name # None /\ y.name \in {x.name, ""}))
  <2>1. CASE c = None BY <1>2, <1>5, <2>1
  <2>2. CASE c # None /\ d = None BY <1>2, <1>3, <1>5, <2>2
  <2>3. CASE c # None /\ d # None
    <3>1. C = {c} /\ D = {d} /\ i \in DOMAIN found BY <1>2, <1>3, <2>3
    <3>. QED BY <1>0, <1>5, <2>3, <3>1
  <2>. QED BY <2>1, <2>2, <2>3
<1>. QED BY <1>1, <1>6 DEF newer, C, D

\* A task that has no part in what is stated of addresses, pairs and answers.
LEMMA IntegrationsPlain ==
  ASSUME IntegrationsFacts, NEW t \in IntegrationsTasks!Tasks, NEW r,
         t \notin DOMAIN results, IntegrationsTasks!Return(t, r), UNCHANGED IntegrationsTasks!unchanged,
         IntegrationsReturns(t, r)
  PROVE  IntegrationsDoes(t, r)
BY DEF IntegrationsDoes, IntegrationsFacts, IntegrationsTasks!TypeOK, IntegrationsTasks!unchanged,
       IntegrationsTasks!contacts

\* The files are handed on as they were found.
LEMMA FilesHandedOn ==
  ASSUME IntegrationsFacts, IntegrationsTasks!IntegrationsCollect \/ IntegrationsTasks!IntegrationsValidate
  PROVE  \E t, r : IntegrationsDoes(t, r)
<1>0. IntegrationsTaskNames BY IntegrationsTaskNamesHold
<1>1. CASE IntegrationsTasks!IntegrationsCollect
  <2>. DEFINE c == IntegrationsTasks!Collect
  <2>0. c \in IntegrationsTasks!Tasks BY DEF IntegrationsTasks!Tasks
  <2>1. c \notin DOMAIN results /\ UNCHANGED <<host, tested, asked, listed>>
    BY <1>1 DEF IntegrationsTasks!IntegrationsCollect, IntegrationsTasks!Ready, IntegrationsTasks!contacts
  <2>2. CASE host.agent /\ host.files # <<>>
    <3>1. PICK s \in SUBSET IntegrationsTasks!ToSet(host.files) :
            /\ declined' = s /\ kept' = IntegrationsTasks!FilesToCopy(s)
            /\ IntegrationsTasks!Return(c, IntegrationsTasks!With("Success", host.files))
      BY <1>1, <2>2, Zenon DEF IntegrationsTasks!IntegrationsCollect
    <3>2. IntegrationsReturns(c, IntegrationsTasks!With("Success", host.files))
      BY <1>0, IntegrationsResults, StatusValues DEF IntegrationsReturns, IntegrationsTaskNames
    <3>3. declined' \cup kept' \subseteq IntegrationsTasks!Files
      BY <3>1 DEF IntegrationsTasks!FilesToCopy, IntegrationsTasks!Files
    <3>. QED BY <2>0, <2>1, <3>1, <3>2, <3>3
         DEF IntegrationsDoes, IntegrationsFacts, IntegrationsTasks!TypeOK
  <2>3. CASE ~(host.agent /\ host.files # <<>>)
    <3>1. IntegrationsTasks!Return(c, IntegrationsTasks!Verdict("None")) /\ UNCHANGED <<declined, kept>>
      BY <1>1, <2>3, Zenon DEF IntegrationsTasks!IntegrationsCollect
    <3>2. IntegrationsReturns(c, IntegrationsTasks!Verdict("None"))
      BY <1>0, IntegrationsResults, StatusValues DEF IntegrationsReturns, IntegrationsTaskNames
    <3>. QED BY <2>0, <2>1, <3>1, <3>2
         DEF IntegrationsDoes, IntegrationsFacts, IntegrationsTasks!TypeOK
  <2>. QED BY <2>2, <2>3
<1>2. CASE IntegrationsTasks!IntegrationsValidate
  <2>. DEFINE v == IntegrationsTasks!Validate
              up == IntegrationsTasks!Upstream(IntegrationsTasks!Collect)
  <2>0. v \in IntegrationsTasks!Tasks BY DEF IntegrationsTasks!Tasks
  <2>1. v \notin DOMAIN results /\ UNCHANGED IntegrationsTasks!unchanged
        /\ IntegrationsTasks!Collect \in DOMAIN results
    BY <1>2, Zenon DEF IntegrationsTasks!IntegrationsValidate, IntegrationsTasks!Ready
  <2>2. \/ IntegrationsTasks!Return(v, IntegrationsTasks!Verdict("None"))
        \/ IntegrationsTasks!Return(v, IntegrationsTasks!Verdict("Failure"))
        \/ up.status = "Success" /\ IntegrationsTasks!Return(v, IntegrationsTasks!With("Success", up.payload))
    <3>. HIDE DEF v
    <3>. QED BY <1>2 DEF IntegrationsTasks!IntegrationsValidate, v
  <2>3. up.status = "Success" => up.payload = host.files
    BY <2>1 DEF IntegrationsFacts, IntegrationsTasks!Succeeded, IntegrationsTasks!Upstream
  <2>. HIDE DEF up
  <2>4. PICK r : /\ IntegrationsTasks!Return(v, r)
                 /\ \/ r.status \in {"None", "Failure"} /\ ~Holds(r)
                    \/ r.status = "Success" /\ Holds(r) /\ r.payload = host.files
    BY <2>2, <2>3, IntegrationsResults
  <2>5. IntegrationsReturns(v, r)
    BY <1>0, <2>4, StatusValues DEF IntegrationsReturns, IntegrationsTaskNames
  <2>. QED BY <2>0, <2>1, <2>4, <2>5, IntegrationsPlain
<1>. QED BY <1>1, <1>2

\* JSON is valid when that of every file is.
LEMMA JsonDoes ==
  ASSUME IntegrationsFacts, IntegrationsTasks!IntegrationsValidateJson
  PROVE  \E t, r : IntegrationsDoes(t, r)
<1>. DEFINE j == IntegrationsTasks!Json
            up == IntegrationsTasks!Upstream(IntegrationsTasks!Validate)
            files == IF IntegrationsTasks!Holds(up) THEN IntegrationsTasks!ToSet(up.payload) ELSE {}
            known == {f \in files : f.kind = "config" /\ f.of \in {"kafka", "redis"}}
            s == CASE known = {} -> "None"
                   [] OTHER -> IF IntegrationsTasks!IsValidJson(known) THEN "Success" ELSE "Failure"
<1>0. IntegrationsTaskNames BY IntegrationsTaskNamesHold
<1>1. /\ j \notin DOMAIN results /\ UNCHANGED IntegrationsTasks!unchanged
      /\ IntegrationsTasks!Validate \in DOMAIN results
  BY Zenon DEF IntegrationsTasks!IntegrationsValidateJson, IntegrationsTasks!Ready
<1>2. IntegrationsTasks!Return(j, IntegrationsTasks!Verdict(s))
  BY Zenon DEF IntegrationsTasks!IntegrationsValidateJson
<1>3. s \in {"None", "Success", "Failure"} /\ (s = "Success" => known # {} /\ IntegrationsTasks!IsValidJson(known))
  <2>. HIDE DEF known
  <2>. QED OBVIOUS
<1>4. s = "Success" => \A f \in IntegrationsTasks!Files :
        f.kind = "config" /\ f.of \in {"kafka", "redis"} => f.json # "invalid"
  <2>. SUFFICES ASSUME s = "Success"
                PROVE  \A f \in IntegrationsTasks!Files :
                         f.kind = "config" /\ f.of \in {"kafka", "redis"} => f.json # "invalid"
    OBVIOUS
  <2>1. known # {} /\ IntegrationsTasks!IsValidJson(known) BY <1>3
  <2>2. files # {} BY <2>1
  <2>3. up = results[IntegrationsTasks!Validate] BY <1>1 DEF IntegrationsTasks!Upstream
  <2>4. IntegrationsTasks!Holds(up) BY <2>2
  <2>5. up.payload = host.files BY <1>1, <2>3, <2>4 DEF IntegrationsFacts, IntegrationsTasks!Holds, Holds
  <2>6. files = IntegrationsTasks!Files BY <2>4, <2>5 DEF IntegrationsTasks!Files
  <2>. QED BY <2>1, <2>6 DEF IntegrationsTasks!IsValidJson
<1>. HIDE DEF s
<1>5. IntegrationsReturns(j, IntegrationsTasks!Verdict(s))
  BY <1>0, <1>3, <1>4, IntegrationsResults, StatusValues DEF IntegrationsReturns, IntegrationsTaskNames
<1>6. j \in IntegrationsTasks!Tasks BY DEF IntegrationsTasks!Tasks
<1>. QED BY <1>1, <1>2, <1>5, <1>6, IntegrationsPlain

\* The pairs are those of the files.
LEMMA MatchDoes ==
  ASSUME IntegrationsFacts, IntegrationsTasks!IntegrationsMatch
  PROVE  \E t, r : IntegrationsDoes(t, r)
<1>. DEFINE m == IntegrationsTasks!Match
            up == IntegrationsTasks!Upstream(IntegrationsTasks!Validate)
            found == IntegrationsTasks!MatchResult(up.payload,
                       host.version.payload >= IntegrationsTasks!NewConfigFormat)
<1>0. IntegrationsTaskNames BY IntegrationsTaskNamesHold
<1>1. /\ m \notin DOMAIN results /\ UNCHANGED IntegrationsTasks!unchanged
      /\ IntegrationsTasks!Validate \in DOMAIN results
  BY Zenon DEF IntegrationsTasks!IntegrationsMatch, IntegrationsTasks!Ready
<1>2. \/ IntegrationsTasks!Return(m, IntegrationsTasks!Verdict("None"))
      \/ IntegrationsTasks!Return(m, IntegrationsTasks!Verdict("Error"))
      \/ up.status = "Success" /\ IntegrationsTasks!Return(m, found)
  BY DEF IntegrationsTasks!IntegrationsMatch
<1>3. up.status = "Success" => found = HostPairs
  BY <1>1 DEF IntegrationsFacts, IntegrationsTasks!Upstream, HostPairs
<1>4. HostPairs.status \in {"Success", "Failure"}
  <2>1. \E s \in {"Success", "Failure"} : \E p : HostPairs = IntegrationsTasks!With(s, p)
    BY Zenon DEF HostPairs, IntegrationsTasks!MatchResult
  <2>. QED BY <2>1, IntegrationsResults
<1>. HIDE DEF found, up
<1>5. PICK r : /\ IntegrationsTasks!Return(m, r) /\ r.status \in {"None", "Error", "Success", "Failure"}
               /\ Holds(r) => r.payload = HostPairs.payload
  BY <1>2, <1>3, <1>4, IntegrationsResults
<1>6. IntegrationsReturns(m, r)
  BY <1>0, <1>5, StatusValues DEF IntegrationsReturns, IntegrationsTaskNames
<1>7. m \in IntegrationsTasks!Tasks BY DEF IntegrationsTasks!Tasks
<1>. QED BY <1>1, <1>5, <1>6, <1>7, IntegrationsPlain

\* The pairs that are read are those of the host.
LEMMA PairsOfHost ==
  ASSUME IntegrationsFacts, IntegrationsTasks!Holds(IntegrationsTasks!Upstream(IntegrationsTasks!Match))
  PROVE  IntegrationsTasks!Pairs = HostPairs.payload
BY IntegrationsResults
DEF IntegrationsFacts, IntegrationsTasks!Pairs, IntegrationsTasks!Holds, Holds, IntegrationsTasks!Upstream

\* The configuration of a pair that is read is a file.
LEMMA ReadConfig ==
  ASSUME IntegrationsFacts, NEW i \in DOMAIN IntegrationsTasks!Pairs
  PROVE  IntegrationsTasks!Pairs[i].config \in IntegrationsTasks!FileType
<1>1. CASE ~IntegrationsTasks!Holds(IntegrationsTasks!Upstream(IntegrationsTasks!Match))
  BY <1>1 DEF IntegrationsTasks!Pairs
<1>2. CASE IntegrationsTasks!Holds(IntegrationsTasks!Upstream(IntegrationsTasks!Match))
  <2>1. IntegrationsTasks!Pairs = HostPairs.payload BY <1>2, PairsOfHost
  <2>2. host \in IntegrationsHost BY DEF IntegrationsFacts
  <2>3. IntegrationsTasks!Pairs[i].config \in IntegrationsTasks!Files BY <2>1, <2>2, PairHasConfig
  <2>4. IntegrationsTasks!Files \subseteq IntegrationsTasks!FileType
    <3>1. host.files \in Seq(IntegrationsTasks!FileType) BY <2>2, HostFiles
    <3>. QED BY <3>1 DEF IntegrationsTasks!Files, IntegrationsTasks!ToSet
  <2>. QED BY <2>3, <2>4
<1>. QED BY <1>1, <1>2

\* A connection is tested at an address that is complete.
LEMMA JmxDoes ==
  ASSUME IntegrationsFacts, IntegrationsTasks!ValidateJMX
  PROVE  \E t, r : IntegrationsDoes(t, r)
<1>. DEFINE j == IntegrationsTasks!Jmx
            file == IntegrationsTasks!Pairs["jmx"].config
            a == file.jmx.address
            args == IntegrationsTasks!BuildNrjmxArgs(a)
<1>0. IntegrationsTaskNames BY IntegrationsTaskNamesHold
<1>1. j \notin DOMAIN results /\ UNCHANGED <<host, declined, kept, asked, listed>>
  BY Zenon DEF IntegrationsTasks!ValidateJMX, IntegrationsTasks!Ready
<1>2. \/ IntegrationsTasks!Unmatched(j, "jmx") /\ UNCHANGED tested
      \/ IntegrationsTasks!Return(j, IntegrationsTasks!Verdict("Failure")) /\ UNCHANGED tested
      \/ /\ "jmx" \in DOMAIN IntegrationsTasks!Pairs
         /\ IntegrationsTasks!Return(j, IntegrationsTasks!ConnectionResult(file))
         /\ tested' = {args}
  BY Zenon DEF IntegrationsTasks!ValidateJMX
<1>3. "jmx" \in DOMAIN IntegrationsTasks!Pairs => "" \notin {args.host, args.port}
  <2>. SUFFICES ASSUME "jmx" \in DOMAIN IntegrationsTasks!Pairs PROVE "" \notin {args.host, args.port} OBVIOUS
  <2>1. file \in IntegrationsTasks!FileType BY ReadConfig
  <2>2. a \in IntegrationsTasks!Address
    <3>. HIDE DEF file
    <3>. QED BY <2>1 DEF IntegrationsTasks!FileType
  <2>. HIDE DEF a
  <2>. QED BY <2>2 DEF IntegrationsTasks!BuildNrjmxArgs, IntegrationsTasks!Address
<1>4. IntegrationsTasks!ConnectionResult(file).status \in {"Failure", "Warning", "Success"}
  <2>. HIDE DEF file
  <2>1. \E s \in {"Failure", "Warning", "Success"} : \E p :
          IntegrationsTasks!ConnectionResult(file) = IntegrationsTasks!With(s, p)
    BY DEF IntegrationsTasks!ConnectionResult
  <2>. QED BY <2>1, IntegrationsResults
<1>. HIDE DEF file, args
<1>5. PICK r : /\ IntegrationsTasks!Return(j, r) /\ r.status \in Status
               /\ (tested' = tested \/ ("" \notin {args.host, args.port} /\ tested' = {args}))
  <2>1. IntegrationsTasks!Unmatched(j, "jmx") =>
          \E s \in {"None", "Error"} : IntegrationsTasks!Return(j, IntegrationsTasks!Verdict(s))
    BY DEF IntegrationsTasks!Unmatched
  <2>2. CASE IntegrationsTasks!Unmatched(j, "jmx") /\ UNCHANGED tested
    BY <2>1, <2>2, IntegrationsResults, StatusValues
  <2>3. CASE IntegrationsTasks!Return(j, IntegrationsTasks!Verdict("Failure")) /\ UNCHANGED tested
    BY <2>3, IntegrationsResults, StatusValues
  <2>4. CASE /\ "jmx" \in DOMAIN IntegrationsTasks!Pairs
             /\ IntegrationsTasks!Return(j, IntegrationsTasks!ConnectionResult(file))
             /\ tested' = {args}
    BY <1>3, <1>4, <2>4, StatusValues
  <2>. QED BY <1>2, <2>2, <2>3, <2>4
<1>6. IntegrationsReturns(j, r) BY <1>0, <1>5 DEF IntegrationsReturns, IntegrationsTaskNames
<1>7. j \in IntegrationsTasks!Tasks /\ j # IntegrationsTasks!Mbeans /\ j # IntegrationsTasks!Zookeeper
  BY <1>0 DEF IntegrationsTasks!Tasks, IntegrationsTaskNames
<1>. QED BY <1>1, <1>5, <1>6, <1>7 DEF IntegrationsDoes, IntegrationsFacts, IntegrationsTasks!TypeOK

\* Queries are sent to one address.
LEMMA MbeansDoes ==
  ASSUME IntegrationsFacts, IntegrationsTasks!NrjmxMbeans
  PROVE  \E t, r : IntegrationsDoes(t, r)
<1>. DEFINE m == IntegrationsTasks!Mbeans
            address == IntegrationsTasks!QueryAddress(IntegrationsTasks!Upstream(IntegrationsTasks!Jmx).payload.address)
<1>0. IntegrationsTaskNames BY IntegrationsTaskNamesHold
<1>1. m \notin DOMAIN results /\ UNCHANGED <<host, declined, kept, tested, listed>>
  BY Zenon DEF IntegrationsTasks!NrjmxMbeans, IntegrationsTasks!Ready
<1>2. \/ \E s \in {"None", "Error"} : IntegrationsTasks!Return(m, IntegrationsTasks!Verdict(s))
      \/ IntegrationsTasks!Return(m, IntegrationsTasks!QueriesResult(address)) /\ asked' = {address}
  BY DEF IntegrationsTasks!NrjmxMbeans
<1>3. IntegrationsTasks!QueriesResult(address).status \in Status
  <2>. HIDE DEF address
  <2>. QED BY IntegrationsResults, StatusValues DEF IntegrationsTasks!QueriesResult
<1>. HIDE DEF address
<1>4. PICK r : IntegrationsTasks!Return(m, r) /\ r.status \in Status
  BY <1>2, <1>3, IntegrationsResults, StatusValues
<1>5. IntegrationsReturns(m, r) BY <1>0, <1>4 DEF IntegrationsReturns, IntegrationsTaskNames
<1>6. m \in IntegrationsTasks!Tasks /\ m # IntegrationsTasks!Zookeeper
  BY <1>0 DEF IntegrationsTasks!Tasks, IntegrationsTaskNames
<1>. QED BY <1>1, <1>4, <1>5, <1>6 DEF IntegrationsDoes, IntegrationsFacts, IntegrationsTasks!TypeOK

\* They are kept by a step that leaves what they speak of alone.
LEMMA IntegrationsFactsStutter ==
  ASSUME IntegrationsFacts, UNCHANGED <<host, results, declined, kept, tested, asked, listed>>,
         process' \in {process, "panicked"}
  PROVE  IntegrationsFacts'
BY DEF IntegrationsFacts, IntegrationsTasks!TypeOK,
       IntegrationsTasks!ConfiguredPathWorks, IntegrationsTasks!JsonChecked, IntegrationsTasks!Succeeded,
       IntegrationsTasks!Upstream, IntegrationsTasks!Files, IntegrationsTasks!Answer, IntegrationsTasks!Pairs,
       IntegrationsTasks!Holds, Holds, HostPairs

\* The path of the settings is tried, or nothing is told of it.
LEMMA ZookeeperDoes ==
  ASSUME IntegrationsFacts, IntegrationsTasks!ValidateZookeeperPath
  PROVE  (\E t, r : IntegrationsDoes(t, r)) \/ IntegrationsFacts'
<1>. DEFINE z == IntegrationsTasks!Zookeeper
            file == IntegrationsTasks!Pairs["kafka"].config
            port == IntegrationsTasks!GetZookeeperPort(file.zookeeper.hosts)
            works == IntegrationsTasks!GetKafkaBrokersList(port, file.zookeeper.path)
<1>0. IntegrationsTaskNames BY IntegrationsTaskNamesHold
<1>1. /\ z \notin DOMAIN results /\ UNCHANGED <<host, declined, kept, tested, asked>>
      /\ IntegrationsTasks!Match \in DOMAIN results
  BY Zenon DEF IntegrationsTasks!ValidateZookeeperPath, IntegrationsTasks!Ready
<1>2. \/ (\E s \in {"None", "Error"} : IntegrationsTasks!Return(z, IntegrationsTasks!Verdict(s))) /\ UNCHANGED listed
      \/ IntegrationsTasks!Panic /\ UNCHANGED listed
      \/ /\ listed' = {[host |-> "localhost", port |-> port]}
         /\ IntegrationsTasks!Return(z, IntegrationsTasks!Verdict(IF works THEN "Success" ELSE "Failure"))
  <2>1. IntegrationsTasks!Unmatched(z, "kafka") =>
          \E s \in {"None", "Error"} : IntegrationsTasks!Return(z, IntegrationsTasks!Verdict(s))
    BY DEF IntegrationsTasks!Unmatched
  <2>. QED BY <2>1 DEF IntegrationsTasks!ValidateZookeeperPath
<1>3. CASE IntegrationsTasks!Panic /\ UNCHANGED listed
  BY <1>1, <1>3, IntegrationsFactsStutter DEF IntegrationsTasks!Panic
<1>4. z \in IntegrationsTasks!Tasks /\ z # IntegrationsTasks!Mbeans
  BY <1>0 DEF IntegrationsTasks!Tasks, IntegrationsTaskNames
<1>5. CASE (\E s \in {"None", "Error"} : IntegrationsTasks!Return(z, IntegrationsTasks!Verdict(s))) /\ UNCHANGED listed
  <2>1. PICK r : IntegrationsTasks!Return(z, r) /\ r.status \in {"None", "Error"} BY <1>5, IntegrationsResults
  <2>2. IntegrationsReturns(z, r)
    BY <1>0, <1>1, <2>1, StatusValues DEF IntegrationsReturns, IntegrationsTaskNames
  <2>. QED BY <1>1, <1>4, <1>5, <2>1, <2>2 DEF IntegrationsDoes, IntegrationsFacts, IntegrationsTasks!TypeOK
<1>6. CASE /\ listed' = {[host |-> "localhost", port |-> port]}
           /\ IntegrationsTasks!Return(z, IntegrationsTasks!Verdict(IF works THEN "Success" ELSE "Failure"))
  <2>1. PICK r : /\ IntegrationsTasks!Return(z, r) /\ r.status \in {"Success", "Failure"}
                 /\ r.status = "Success" => works
    BY <1>6, IntegrationsResults
  <2>2. works => \E p \in listed' : <<"localhost", p.port, file.zookeeper.path>> \in host.brokers
    <3>. HIDE DEF file, port
    <3>. QED BY <1>6 DEF IntegrationsTasks!GetKafkaBrokersList
  <2>3. IntegrationsReturns(z, r)
    <3>. HIDE DEF works
    <3>. QED BY <1>0, <1>1, <2>1, <2>2, StatusValues DEF IntegrationsReturns, IntegrationsTaskNames
  <2>. QED BY <1>1, <1>4, <2>1, <2>3 DEF IntegrationsDoes, IntegrationsFacts, IntegrationsTasks!TypeOK
<1>. QED BY <1>2, <1>3, <1>5, <1>6

\* What was told stays so: no task runs twice.
LEMMA IntegrationsFactsKept ==
  ASSUME IntegrationsFacts, IntegrationsTasks!Next
  PROVE  IntegrationsFacts'
<1>0. IntegrationsTaskNames BY IntegrationsTaskNamesHold
<1>1. ASSUME NEW t, NEW r, IntegrationsDoes(t, r) PROVE IntegrationsFacts'
  <2>. USE <1>0 DEF IntegrationsTaskNames
  <2>1. /\ DOMAIN results' = DOMAIN results \cup {t} /\ results'[t] = r /\ t \notin DOMAIN results
        /\ \A u \in DOMAIN results : results'[u] = results[u]
        /\ UNCHANGED <<host, process>> /\ IntegrationsReturns(t, r)
    BY <1>1 DEF IntegrationsDoes, IntegrationsTasks!Return
  <2>2. IntegrationsTasks!TypeOK'
    <3>1. IntegrationsTasks!Files' = IntegrationsTasks!Files BY <2>1 DEF IntegrationsTasks!Files
    <3>2. (declined \cup kept)' \subseteq IntegrationsTasks!Files /\ (\A a \in tested' : "" \notin {a.host, a.port})
          /\ t \in IntegrationsTasks!Tasks
      BY <1>1 DEF IntegrationsDoes
    <3>. QED
      BY <2>1, <3>1, <3>2
      DEF IntegrationsFacts, IntegrationsTasks!TypeOK, IntegrationsReturns, IntegrationsTasks!Status, Status
  <2>3. /\ IntegrationsTasks!Upstream(t)' = r
        /\ \A u : u # t => IntegrationsTasks!Upstream(u)' = IntegrationsTasks!Upstream(u)
    BY <2>1 DEF IntegrationsTasks!Upstream
  <2>4. (IntegrationsTasks!Succeeded(IntegrationsTasks!Collect) =>
           results[IntegrationsTasks!Collect].payload = host.files)'
    <3>1. IntegrationsTasks!Succeeded(IntegrationsTasks!Collect)' => IntegrationsTasks!Collect \in DOMAIN results'
      BY IntegrationsResults DEF IntegrationsTasks!Succeeded, IntegrationsTasks!Upstream
    <3>. QED BY <2>1, <2>3, <3>1 DEF IntegrationsFacts, IntegrationsReturns, IntegrationsTasks!Succeeded
  <2>5. (IntegrationsTasks!Validate \in DOMAIN results =>
           /\ Holds(results[IntegrationsTasks!Validate]) <=> results[IntegrationsTasks!Validate].status = "Success"
           /\ Holds(results[IntegrationsTasks!Validate]) =>
                results[IntegrationsTasks!Validate].payload = host.files)'
    BY <2>1 DEF IntegrationsFacts, IntegrationsReturns, Holds
  <2>6. (IntegrationsTasks!Match \in DOMAIN results /\ Holds(results[IntegrationsTasks!Match]) =>
           results[IntegrationsTasks!Match].payload = HostPairs.payload)'
    <3>1. HostPairs' = HostPairs BY <2>1 DEF HostPairs
    <3>. QED BY <2>1, <3>1 DEF IntegrationsFacts, IntegrationsReturns, Holds
  <2>7. (IntegrationsTasks!Zookeeper \in DOMAIN results => IntegrationsTasks!Match \in DOMAIN results)'
    BY <2>1 DEF IntegrationsFacts, IntegrationsReturns
  <2>8. IntegrationsTasks!ConfiguredPathWorks'
    <3>. SUFFICES ASSUME IntegrationsTasks!Succeeded(IntegrationsTasks!Zookeeper)'
                  PROVE  \E p \in listed' : <<"localhost", p.port,
                           IntegrationsTasks!Pairs'["kafka"].config.zookeeper.path>> \in host.brokers
      BY <2>1 DEF IntegrationsTasks!ConfiguredPathWorks
    <3>1. IntegrationsTasks!Zookeeper \in DOMAIN results'
      BY IntegrationsResults DEF IntegrationsTasks!Succeeded, IntegrationsTasks!Upstream
    <3>2. IntegrationsTasks!Match \in DOMAIN results
      BY <2>1, <3>1 DEF IntegrationsFacts, IntegrationsReturns
    <3>3. IntegrationsTasks!Pairs' = IntegrationsTasks!Pairs
      <4>1. IntegrationsTasks!Upstream(IntegrationsTasks!Match)' = IntegrationsTasks!Upstream(IntegrationsTasks!Match)
        BY <2>1, <2>3, <3>2
      <4>. QED BY <4>1 DEF IntegrationsTasks!Pairs, IntegrationsTasks!Holds
    <3>4. CASE t = IntegrationsTasks!Zookeeper
      <4>1. r.status = "Success" BY <2>3, <3>4 DEF IntegrationsTasks!Succeeded
      <4>. QED BY <2>1, <3>3, <3>4, <4>1 DEF IntegrationsReturns
    <3>5. CASE t # IntegrationsTasks!Zookeeper
      <4>1. listed' = listed /\ IntegrationsTasks!Succeeded(IntegrationsTasks!Zookeeper)
        BY <1>1, <2>3, <3>5 DEF IntegrationsDoes, IntegrationsTasks!Succeeded
      <4>. QED BY <3>3, <4>1 DEF IntegrationsFacts, IntegrationsTasks!ConfiguredPathWorks
    <3>. QED BY <3>4, <3>5
  <2>9. IntegrationsTasks!JsonChecked'
    <3>1. IntegrationsTasks!Files' = IntegrationsTasks!Files BY <2>1 DEF IntegrationsTasks!Files
    <3>. QED BY <2>1, <2>3, <3>1
         DEF IntegrationsFacts, IntegrationsReturns, IntegrationsTasks!JsonChecked, IntegrationsTasks!Succeeded
  <2>10. host' \in IntegrationsHost BY <2>1 DEF IntegrationsFacts
  <2>. QED BY <2>2, <2>4, <2>5, <2>6, <2>7, <2>8, <2>9, <2>10 DEF IntegrationsFacts
<1>2. CASE IntegrationsTasks!Done
  BY <1>2, IntegrationsFactsStutter DEF IntegrationsTasks!Done, IntegrationsTasks!vars
<1>. QED
  BY <1>1, <1>2, FilesHandedOn, JsonDoes, MatchDoes, JmxDoes, MbeansDoes, ZookeeperDoes DEF IntegrationsTasks!Next

\* The pairs handed on agree with the files.
LEMMA MatchIsOfFiles ==
  ASSUME IntegrationsFacts
  PROVE  IntegrationsTasks!MatchAgrees
<1>1. host \in IntegrationsHost BY DEF IntegrationsFacts
<1>2. SUFFICES ASSUME IntegrationsTasks!Holds(IntegrationsTasks!Upstream(IntegrationsTasks!Match)),
                      NEW i \in IntegrationsTasks!Integration,
                      IntegrationsTasks!Sole(i, "config"), IntegrationsTasks!Sole(i, "definition")
               PROVE  i \in DOMAIN IntegrationsTasks!Pairs <=>
                        \E c \in IntegrationsTasks!Placed(i, "config") :
                          \/ /\ IntegrationsTasks!Placed(i, "definition") = {} /\ c.v4
                             /\ host.version.payload >= IntegrationsTasks!NewConfigFormat
                          \/ \E d \in IntegrationsTasks!Placed(i, "definition") :
                               d.name # None /\ (c.v4 \/ c.name = "" \/ (c.name # None /\ d.name \in {c.name, ""}))
  BY DEF IntegrationsTasks!MatchAgrees
<1>3. IntegrationsTasks!Pairs = HostPairs.payload BY <1>2, PairsOfHost
<1>. QED BY <1>1, <1>2, <1>3, PairsAgree

\* At first nothing was told.
LEMMA IntegrationsFactsStart ==
  ASSUME IntegrationsTasks!Init
  PROVE  IntegrationsFacts
<1>1. /\ DOMAIN results = {} /\ host \in IntegrationsHost /\ process = "running"
      /\ declined = {} /\ kept = {} /\ tested = {} /\ asked = {} /\ listed = {}
  BY DEF IntegrationsTasks!Init, IntegrationsTasks!NothingRun
<1>2. \A u : ~IntegrationsTasks!Succeeded(u)
  BY <1>1, IntegrationsResults DEF IntegrationsTasks!Succeeded, IntegrationsTasks!Upstream
<1>. QED BY <1>1, <1>2
     DEF IntegrationsFacts, IntegrationsTasks!TypeOK,
         IntegrationsTasks!ConfiguredPathWorks, IntegrationsTasks!JsonChecked

-----------------------------------------------------------------------------
(* What is said of agents and their versions *)

\* A selection of the family is the one that SequenceLemmas is about.
LEMMA AgentsAmong ==
  ASSUME NEW E, NEW s \in Seq(E), NEW S
  PROVE  /\ AgentsTasks!Among(s, S) \in Seq(E)
         /\ AgentsTasks!Range(AgentsTasks!Among(s, S)) = AgentsTasks!Range(s) \cap S
<1>1. AgentsTasks!Among(s, S) = Among(s, S) BY DEF AgentsTasks!Among, Among
<1>2. \A f : AgentsTasks!Range(f) = Range(f) BY DEF AgentsTasks!Range, Range
<1>. QED BY <1>1, <1>2, AmongRange

\* No element is selected more often than it was there.
NotMore(q, s) ==
  \A x \in AgentsTasks!Range(q) :
    AgentsTasks!Cardinality({i \in DOMAIN q : q[i] = x})
      <= AgentsTasks!Cardinality({i \in DOMAIN s : s[i] = x})

\* Each place in the selection has a place of its own in the sequence.
LEMMA AmongNotMore ==
  ASSUME NEW E, NEW s \in Seq(E), NEW S
  PROVE  NotMore(AgentsTasks!Among(s, S), s)
<1>. DEFINE a == Among(s, S)
<1>0. AgentsTasks!Among(s, S) = a BY DEF AgentsTasks!Among, Among
<1>1. a \in Seq(E) /\ \E position : Comes(a, s, Len(s), S, position) BY AmongKeepsOrder
<1>. HIDE DEF a
<1>2. PICK position : Comes(a, s, Len(s), S, position) BY <1>1
<1>3. /\ DOMAIN a = 1..Len(a) /\ DOMAIN s = 1..Len(s) /\ Len(a) \in Nat /\ Len(s) \in Nat
  BY <1>1
<1>4. /\ position \in [1..Len(a) -> 1..Len(s)]
      /\ \A i \in 1..Len(a) : a[i] = s[position[i]]
      /\ \A i, j \in 1..Len(a) : i < j => position[i] < position[j]
  BY <1>2 DEF Comes
<1>5. ASSUME NEW x
      PROVE  Cardinality({i \in DOMAIN a : a[i] = x}) <= Cardinality({i \in DOMAIN s : s[i] = x})
  <2>. DEFINE A == {i \in DOMAIN a : a[i] = x}
              B == {i \in DOMAIN s : s[i] = x}
              f == [i \in A |-> position[i]]
  <2>1. f \in [A -> B] BY <1>3, <1>4
  <2>2. ASSUME NEW i \in A, NEW j \in A, f[i] = f[j] PROVE i = j
    <3>1. i \in 1..Len(a) /\ j \in 1..Len(a) /\ position[i] = position[j] BY <1>3, <2>2
    <3>2. position[i] \in Nat /\ position[j] \in Nat BY <1>4, <3>1
    <3>3. ~(i < j) /\ ~(j < i) BY <1>4, <3>1, <3>2
    <3>. QED BY <1>3, <3>1, <3>3
  <2>3. IsFiniteSet(B)
    <3>1. IsFiniteSet(1..Len(s)) BY <1>3, FS_Interval
    <3>2. B \subseteq 1..Len(s) BY <1>3
    <3>. HIDE DEF B
    <3>. QED BY <3>1, <3>2, FS_Subset
  <2>. HIDE DEF A, B, f
  <2>4. f \in Injection(A, B) BY <2>1, <2>2 DEF Injection, IsInjective, f
  <2>5. Cardinality(A) <= Cardinality(B) BY <2>3, <2>4, FS_Injection
  <2>. QED BY <2>5 DEF A, B
<1>6. \A T : AgentsTasks!Cardinality(T) = Cardinality(T)
  BY DEF AgentsTasks!Cardinality, Cardinality
<1>. QED BY <1>0, <1>5, <1>6 DEF NotMore

\* What the host is.
LEMMA AgentsHostFacts ==
  ASSUME host \in AgentsHost
  PROVE  /\ host.suites \in SUBSET AgentsTasks!Agents
         /\ host.files \in Seq(AgentsFile)
         /\ host.jars \in Seq({"old", "new", "bad"})
         /\ host.npm \in {"absent", "error", "empty", "without"} \cup AgentsTasks!Versions
         /\ host.logs # None => host.logs \in Seq({"none"} \cup AgentsTasks!Versions)
         /\ host.gemVersions \in Seq(AgentsTasks!Versions)
         /\ host.phpLog \in [AgentsLog -> {"none", "old", "new"}]
         /\ host.dll \in {"absent", "failed"} \cup AgentsTasks!Versions
<1>1. host \in AgentsTasks!HostType
  BY TaskEffectsValues DEF TaskEffectsAssumption, AgentsTasks!AgentDetectionAssumption
<1>. QED BY <1>1 DEF AgentsTasks!HostType, AgentsTasks!Agents

\* What the values of the constants are.
LEMMA AgentsConstants ==
  /\ AgentsTasks!Agents = {"Java", "Infra", "Node", "Python", "PHP", "Ruby", "DotNet", "DotNetCore"}
  /\ AgentsLogOf \in [AgentsFile -> Seq(AgentsLog)]
BY TaskEffectsValues
DEF TaskEffectsAssumption, AgentsTasks!AgentDetectionAssumption, AgentsTasks!Agents

-----------------------------------------------------------------------------
(* What the tasks return *)

\* A key of agent a stands in the text of a file that can be read.
KeyInText(a) ==
  \E f \in AgentsTasks!Range(host.files) :
    /\ AgentsKind[f] \in AgentsTasks!Kinds[a]
    /\ AgentsTasks!FindStringInFile(AgentsTasks!Range(AgentsKeys[a]), f)

\* What the search for agent a returns.
Detects(a, r) ==
  /\ a \notin {"DotNet", "DotNetCore"} /\ KeyInText(a) => r.status = "Success"
  /\ a \notin {"Python", "Ruby"} /\ Holds(r) =>
       r.payload \in Seq(AgentsFile) /\ NotMore(r.payload, host.files)
  /\ a = "PHP" /\ r.status = "Success" => Holds(r)
  /\ a = "DotNet" => r.status # "Error"

\* What the version of agent a is.
VersionTells(a, r) ==
  /\ Holds(r) => AgentsTasks!Range(r.payload) \subseteq AgentsTasks!Versions
  /\ a = "Ruby" /\ r.status = "Info" => r.payload = host.gemVersions

\* What task t returns on this host, whatever the other results are.
AgentsReturns(t, r) ==
  /\ r.status \in Status
  /\ t[2] = "Config/Agent" => Detects(t[1], r)
  /\ t[2] = "Agent/Version" => VersionTells(t[1], r)
  /\ t = AgentsTasks!Installed("DotNet") /\ r.status = "Success" =>
       AgentsTasks!Validated /\ host.dll # "absent"
  /\ t = AgentsTasks!NodeDependencies /\ r.status = "Info" =>
       host.npm \in {"without"} \cup AgentsTasks!Versions

\* The only jars that can be asked are at the end of their life.
OnlyOldJars ==
  /\ AgentsTasks!Detected("Java") /\ host.jars # <<>>
  /\ "new" \notin AgentsTasks!Range(host.jars) /\ "old" \in AgentsTasks!Range(host.jars)

\* The version of Java comes after its search, and is that of an old jar when
\* there are no others.
JavaTold ==
  AgentsTasks!Version("Java") \in DOMAIN results =>
    /\ AgentsTasks!ConfigAgent("Java") \in DOMAIN results
    /\ OnlyOldJars =>
         results[AgentsTasks!Version("Java")] = AgentsTasks!With("Info", <<"old">>)

\* The invariant of the family: each result is one its task returns, and what EOL
\* says comes after the versions.
AgentsFacts ==
  /\ host \in AgentsHost /\ process = "running"
  /\ \A t \in DOMAIN results : AgentsReturns(t, results[t])
  /\ JavaTold
  /\ AgentsTasks!EOL \in DOMAIN results => AgentsTasks!EOLDependencies \subseteq DOMAIN results
  /\ AgentsTasks!OldAgentNoticed

\* The effects of a task of the family.
AgentsDoes(t, r) ==
  /\ process = "running" /\ t \notin DOMAIN results
  /\ AgentsTasks!Return(t, r) /\ UNCHANGED host
  /\ AgentsReturns(t, r)
  /\ t = AgentsTasks!Version("Java") =>
       /\ AgentsTasks!ConfigAgent("Java") \in DOMAIN results
       /\ OnlyOldJars => r = AgentsTasks!With("Info", <<"old">>)
  /\ t = AgentsTasks!EOL =>
       /\ AgentsTasks!EOLDependencies \subseteq DOMAIN results
       /\ "old" \in UNION {AgentsTasks!DecisionQueue(u) : u \in AgentsTasks!EOLDependencies} =>
            r.status = "Failure"

\* Results, with and without a payload.
LEMMA AgentsResults ==
  /\ \A s : /\ AgentsTasks!Verdict(s).status = s
            /\ ~Holds(AgentsTasks!Verdict(s))
            /\ AgentsTasks!Verdict(s) = [status |-> s]
  /\ \A s, p : /\ AgentsTasks!With(s, p).status = s /\ AgentsTasks!With(s, p).payload = p
               /\ Holds(AgentsTasks!With(s, p))
BY DEF AgentsTasks!Verdict, AgentsTasks!With, Holds

\* The names of the tasks differ.
LEMMA AgentsNames ==
  /\ \A a, b : AgentsTasks!ConfigAgent(a) # AgentsTasks!Version(b)
  /\ \A a, b : AgentsTasks!ConfigAgent(a) # AgentsTasks!Installed(b)
  /\ \A a, b : AgentsTasks!Version(a) # AgentsTasks!Installed(b)
  /\ \A a : /\ AgentsTasks!ConfigAgent(a)[1] = a /\ AgentsTasks!ConfigAgent(a)[2] = "Config/Agent"
            /\ AgentsTasks!Version(a)[1] = a /\ AgentsTasks!Version(a)[2] = "Agent/Version"
            /\ AgentsTasks!Installed(a)[1] = a /\ AgentsTasks!Installed(a)[2] = "Agent/Installed"
            /\ AgentsTasks!NodeDependencies \notin
                 {AgentsTasks!ConfigAgent(a), AgentsTasks!Version(a), AgentsTasks!Installed(a)}
            /\ AgentsTasks!EOL \notin
                 {AgentsTasks!ConfigAgent(a), AgentsTasks!Version(a), AgentsTasks!Installed(a)}
  /\ \A a, b : AgentsTasks!Version(a) = AgentsTasks!Version(b) => a = b
  /\ AgentsTasks!NodeDependencies[2] = "Env/Dependencies" /\ AgentsTasks!EOL[2] = "Agent/EOL"
  /\ AgentsTasks!NodeDependencies # AgentsTasks!EOL
BY DEF AgentsTasks!ConfigAgent, AgentsTasks!Version, AgentsTasks!Installed,
       AgentsTasks!NodeDependencies, AgentsTasks!EOL


\* What a search hands on: a selection of the files.
Selection(files) == files \in Seq(AgentsFile) /\ NotMore(files, host.files)

\* Nothing is a selection, and so is what Among selects.
LEMMA Selections ==
  ASSUME host \in AgentsHost
  PROVE  Selection(<<>>) /\ \A S : Selection(AgentsTasks!Among(host.files, S))
<1>1. host.files \in Seq(AgentsFile) BY AgentsHostFacts
<1>2. Selection(<<>>)
  <2>1. AgentsTasks!Range(<<>>) = {} BY DEF AgentsTasks!Range
  <2>2. NotMore(<<>>, host.files) BY <2>1 DEF NotMore
  <2>3. <<>> \in Seq(AgentsFile) OBVIOUS
  <2>. QED BY <2>2, <2>3 DEF Selection
<1>. QED BY <1>1, <1>2, AgentsAmong, AmongNotMore DEF Selection

\* A key in a text is found when the text is searched.
LEMMA TextIsSearched ==
  ASSUME host \in AgentsHost, NEW a, KeyInText(a)
  PROVE  AgentsTasks!CheckConfig(a) # <<>>
<1>. DEFINE S == {f \in AgentsFile : /\ AgentsKind[f] \in AgentsTasks!Kinds[a]
                                     /\ AgentsTasks!FindStringInFile(AgentsTasks!Range(AgentsKeys[a]), f)}
<1>1. host.files \in Seq(AgentsFile) BY AgentsHostFacts
<1>2. PICK f \in AgentsTasks!Range(host.files) :
        /\ AgentsKind[f] \in AgentsTasks!Kinds[a]
        /\ AgentsTasks!FindStringInFile(AgentsTasks!Range(AgentsKeys[a]), f)
  BY DEF KeyInText
<1>3. f \in AgentsFile BY <1>1, <1>2 DEF AgentsTasks!Range
<1>4. f \in AgentsTasks!Range(host.files) \cap S BY <1>2, <1>3
<1>5. AgentsTasks!CheckConfig(a) = AgentsTasks!Among(host.files, S)
  BY DEF AgentsTasks!CheckConfig
<1>. HIDE DEF S
<1>6. f \in AgentsTasks!Range(AgentsTasks!CheckConfig(a)) BY <1>1, <1>4, <1>5, AgentsAmong
<1>7. AgentsTasks!Range(<<>>) = {} BY DEF AgentsTasks!Range
<1>. QED BY <1>6, <1>7

\* What the search for an agent returns by its files.
LEMMA DetectDetects ==
  ASSUME host \in AgentsHost, NEW a \in AgentsTasks!Agents \ {"DotNet", "DotNetCore"}
  PROVE  Detects(a, AgentsTasks!Detect(a)) /\ AgentsTasks!Detect(a).status \in Status
<1>. DEFINE found == IF AgentsTasks!Validated THEN AgentsTasks!CheckValidation(a) ELSE <<>>
            searched == AgentsTasks!CheckConfig(a)
<1>1. a \notin {"Python", "Ruby"} => Selection(found)
  <2>1. a \notin {"Python", "Ruby"} =>
          \E S : AgentsTasks!CheckValidation(a) = AgentsTasks!Among(host.files, S)
    BY DEF AgentsTasks!CheckValidation
  <2>. QED BY <2>1, Selections
<1>2. Selection(searched)
  <2>1. \E S : searched = AgentsTasks!Among(host.files, S) BY DEF AgentsTasks!CheckConfig
  <2>. HIDE DEF searched
  <2>. QED BY <2>1, Selections
<1>3. KeyInText(a) => searched # <<>> BY TextIsSearched
<1>4. \/ AgentsTasks!Detect(a) = AgentsTasks!With("Success", <<>>)
      \/ AgentsTasks!Detect(a) = AgentsTasks!With("Success", found)
      \/ AgentsTasks!Detect(a) = AgentsTasks!With("Success", searched)
      \/ searched = <<>> /\ AgentsTasks!Detect(a) = AgentsTasks!Verdict("None")
      \/ a = "Infra" /\ AgentsTasks!Detect(a) = AgentsTasks!Verdict("Success")
  <2>1. \/ AgentsTasks!LastEffort(a) = AgentsTasks!With("Success", <<>>)
        \/ AgentsTasks!LastEffort(a) = AgentsTasks!Verdict("None")
        \/ a = "Infra" /\ AgentsTasks!LastEffort(a) = AgentsTasks!Verdict("Success")
    BY DEF AgentsTasks!LastEffort, AgentsTasks!Identified
  <2>. QED BY <2>1 DEF AgentsTasks!Detect, AgentsTasks!Identified
<1>. HIDE DEF found, searched
<1>5. PICK r : r = AgentsTasks!Detect(a) OBVIOUS
<1>6. ASSUME NEW files, r = AgentsTasks!With("Success", files),
             a \notin {"Python", "Ruby"} => Selection(files)
      PROVE  Detects(a, r) /\ r.status \in Status
  <2>1. r.status = "Success" /\ r.payload = files /\ Holds(r) BY <1>6, AgentsResults
  <2>. QED BY <1>6, <2>1, StatusValues DEF Detects, Selection
<1>7. CASE searched = <<>> /\ r = AgentsTasks!Verdict("None")
  <2>1. r.status = "None" /\ ~Holds(r) BY <1>7, AgentsResults
  <2>. QED BY <1>3, <1>5, <1>7, <2>1, StatusValues DEF Detects
<1>8. CASE a = "Infra" /\ r = AgentsTasks!Verdict("Success")
  <2>1. r.status = "Success" /\ ~Holds(r) BY <1>8, AgentsResults
  <2>. QED BY <1>5, <1>8, <2>1, StatusValues DEF Detects
<1>. QED BY <1>1, <1>2, <1>4, <1>5, <1>6, <1>7, <1>8, Selections

\* An agent is searched for: the result is what Detect tells.
LEMMA LanguageDoes ==
  ASSUME AgentsFacts, NEW a \in AgentsTasks!Agents \ {"DotNet", "DotNetCore"},
         AgentsTasks!LanguageConfigAgent(a)
  PROVE  \E t, r : AgentsDoes(t, r)
<1>. DEFINE t == AgentsTasks!ConfigAgent(a)
            r == AgentsTasks!Detect(a)
<1>1. /\ process = "running" /\ t \notin DOMAIN results
      /\ AgentsTasks!Return(t, r) /\ UNCHANGED host
  BY DEF AgentsTasks!LanguageConfigAgent, AgentsTasks!Ready
<1>2. Detects(a, r) /\ r.status \in Status BY DetectDetects DEF AgentsFacts
<1>3. AgentsReturns(t, r) BY <1>2, AgentsNames DEF AgentsReturns
<1>. QED BY <1>1, <1>3, AgentsNames DEF AgentsDoes

\* The two .NET agents are looked for, and searched for where they were found.
LEMMA DotNetDoes ==
  ASSUME AgentsFacts,
         \/ AgentsTasks!DotNetAgentInstalled \/ AgentsTasks!DotNetCoreAgentInstalled
         \/ AgentsTasks!DotNetConfigAgent \/ AgentsTasks!DotNetCoreConfigAgent
  PROVE  \E t, r : AgentsDoes(t, r)
<1>1. CASE AgentsTasks!DotNetAgentInstalled
  <2>. DEFINE t == AgentsTasks!Installed("DotNet")
  <2>1. PICK r : /\ AgentsTasks!Return(t, r)
                 /\ \/ r = AgentsTasks!Verdict("None") \/ r = AgentsTasks!Verdict("Failure")
                    \/ AgentsTasks!Validated /\ host.dll # "absent" /\ r = AgentsTasks!With("Success", host.dll)
    BY <1>1 DEF AgentsTasks!DotNetAgentInstalled, AgentsTasks!HasNewRelicConfig
  <2>2. process = "running" /\ t \notin DOMAIN results /\ UNCHANGED host
    BY <1>1 DEF AgentsTasks!DotNetAgentInstalled, AgentsTasks!Ready
  <2>. HIDE DEF t
  <2>3. AgentsReturns(t, r)
    BY <2>1, AgentsNames, AgentsResults, StatusValues DEF AgentsReturns, t
  <2>. QED BY <2>1, <2>2, <2>3, AgentsNames DEF AgentsDoes, t
<1>2. CASE AgentsTasks!DotNetCoreAgentInstalled
  <2>. DEFINE t == AgentsTasks!Installed("DotNetCore")
  <2>1. PICK r : /\ AgentsTasks!Return(t, r)
                 /\ r = AgentsTasks!Verdict("None") \/ r = AgentsTasks!With("Success", "path")
    BY <1>2 DEF AgentsTasks!DotNetCoreAgentInstalled
  <2>2. process = "running" /\ t \notin DOMAIN results /\ UNCHANGED host
    BY <1>2 DEF AgentsTasks!DotNetCoreAgentInstalled, AgentsTasks!Ready
  <2>3. t # AgentsTasks!Installed("DotNet") BY DEF AgentsTasks!Installed
  <2>. HIDE DEF t
  <2>4. AgentsReturns(t, r)
    BY <2>1, <2>3, AgentsNames, AgentsResults, StatusValues DEF AgentsReturns, t
  <2>. QED BY <2>1, <2>2, <2>4, AgentsNames DEF AgentsDoes, t
<1>3. ASSUME NEW a \in {"DotNet", "DotNetCore"}
      PROVE  Selection(AgentsTasks!CheckConfigs(a))
  <2>1. \E S : AgentsTasks!CheckConfigs(a) = AgentsTasks!Among(host.files, S)
    BY DEF AgentsTasks!CheckConfigs
  <2>. QED BY <2>1, Selections DEF AgentsFacts
<1>4. CASE AgentsTasks!DotNetConfigAgent
  <2>. DEFINE t == AgentsTasks!ConfigAgent("DotNet")
              files == AgentsTasks!CheckConfigs("DotNet")
              up == AgentsTasks!Upstream(AgentsTasks!Installed("DotNet"))
  <2>1. PICK r : /\ AgentsTasks!Return(t, r)
                 /\ \/ r = AgentsTasks!Verdict("None") \/ r = AgentsTasks!Verdict("Warning")
                    \/ up.status = "Success" /\ ~AgentsTasks!Validated
                    \/ r = AgentsTasks!With("Success", files)
    BY <1>4 DEF AgentsTasks!DotNetConfigAgent, AgentsTasks!Identified
  <2>2. process = "running" /\ t \notin DOMAIN results /\ UNCHANGED host
    BY <1>4 DEF AgentsTasks!DotNetConfigAgent, AgentsTasks!Ready
  <2>3. up.status = "Success" => AgentsTasks!Validated
    BY AgentsResults DEF AgentsFacts, AgentsReturns, AgentsTasks!Upstream
  <2>4. Selection(files) BY <1>3
  <2>. HIDE DEF t, files, up
  <2>5. r.status \in Status /\ Detects("DotNet", r)
    BY <2>1, <2>3, <2>4, AgentsResults, StatusValues DEF Detects, Selection
  <2>6. AgentsReturns(t, r) BY <2>5, AgentsNames DEF AgentsReturns, t
  <2>. QED BY <2>1, <2>2, <2>6, AgentsNames DEF AgentsDoes, t
<1>5. CASE AgentsTasks!DotNetCoreConfigAgent
  <2>. DEFINE t == AgentsTasks!ConfigAgent("DotNetCore")
              files == AgentsTasks!CheckConfigs("DotNetCore")
  <2>1. PICK r : /\ AgentsTasks!Return(t, r)
                 /\ \/ r = AgentsTasks!Verdict("None") \/ r = AgentsTasks!Verdict("Failure")
                    \/ r = AgentsTasks!With("Success", files)
    BY <1>5 DEF AgentsTasks!DotNetCoreConfigAgent, AgentsTasks!Identified
  <2>2. process = "running" /\ t \notin DOMAIN results /\ UNCHANGED host
    BY <1>5 DEF AgentsTasks!DotNetCoreConfigAgent, AgentsTasks!Ready
  <2>4. Selection(files) BY <1>3
  <2>. HIDE DEF t, files
  <2>5. r.status \in Status /\ Detects("DotNetCore", r)
    BY <2>1, <2>4, AgentsResults, StatusValues DEF Detects, Selection
  <2>6. AgentsReturns(t, r) BY <2>5, AgentsNames DEF AgentsReturns, t
  <2>. QED BY <2>1, <2>2, <2>6, AgentsNames DEF AgentsDoes, t
<1>. QED BY <1>1, <1>2, <1>4, <1>5


\* A version found is one that EOL can judge.
LEMMA OneVersion ==
  ASSUME NEW v \in AgentsTasks!Versions
  PROVE  AgentsTasks!Range(<<v>>) \subseteq AgentsTasks!Versions
BY DEF AgentsTasks!Range

\* A task that returns one version, or none.
LEMMA VersionDoes ==
  ASSUME AgentsFacts, NEW a, a \notin {"Ruby", "Java"}, NEW r,
         AgentsTasks!Ready(AgentsTasks!Version(a), {}),
         AgentsTasks!Return(AgentsTasks!Version(a), r), UNCHANGED host,
         \/ \E s \in Status : r = AgentsTasks!Verdict(s)
         \/ \E v \in AgentsTasks!Versions : r = AgentsTasks!With("Info", <<v>>)
  PROVE  \E t, x : AgentsDoes(t, x)
<1>. DEFINE t == AgentsTasks!Version(a)
<1>1. process = "running" /\ t \notin DOMAIN results BY DEF AgentsTasks!Ready
<1>2. r.status \in Status /\ VersionTells(a, r)
  <2>1. CASE \E s \in Status : r = AgentsTasks!Verdict(s)
    BY <2>1, AgentsResults DEF VersionTells
  <2>2. CASE \E v \in AgentsTasks!Versions : r = AgentsTasks!With("Info", <<v>>)
    <3>1. PICK v \in AgentsTasks!Versions : r = AgentsTasks!With("Info", <<v>>) BY <2>2
    <3>2. r.status = "Info" /\ r.payload = <<v>> BY <3>1, AgentsResults
    <3>. QED BY <3>2, OneVersion, StatusValues DEF VersionTells
  <2>. QED BY <2>1, <2>2
<1>3. AgentsReturns(t, r) BY <1>2, AgentsNames DEF AgentsReturns
<1>4. t # AgentsTasks!Version("Java") /\ t # AgentsTasks!EOL BY AgentsNames
<1>. QED BY <1>1, <1>3, <1>4 DEF AgentsDoes

\* The .NET version is that of the dll that was found.
LEMMA DotNetVersionDoes ==
  ASSUME AgentsFacts, AgentsTasks!DotNetAgentVersion
  PROVE  \E t, r : AgentsDoes(t, r)
<1>. DEFINE t == AgentsTasks!Version("DotNet")
            up == AgentsTasks!Upstream(AgentsTasks!Installed("DotNet"))
<1>1. PICK r : /\ AgentsTasks!Return(t, r)
               /\ \/ r = AgentsTasks!Verdict("None") \/ r = AgentsTasks!Verdict("Error")
                  \/ /\ up.status = "Success" /\ host.dll # "failed"
                     /\ r = AgentsTasks!With("Info", <<host.dll>>)
  BY DEF AgentsTasks!DotNetAgentVersion
<1>2. AgentsTasks!Ready(t, {}) /\ UNCHANGED host
  BY DEF AgentsTasks!DotNetAgentVersion, AgentsTasks!Ready
<1>3. up.status = "Success" => host.dll # "absent"
  BY AgentsResults DEF AgentsFacts, AgentsReturns, AgentsTasks!Upstream
<1>4. host.dll \in {"absent", "failed"} \cup AgentsTasks!Versions BY AgentsHostFacts DEF AgentsFacts
<1>5. \/ \E s \in Status : r = AgentsTasks!Verdict(s)
      \/ \E v \in AgentsTasks!Versions : r = AgentsTasks!With("Info", <<v>>)
  BY <1>1, <1>3, <1>4, StatusValues
<1>. QED BY <1>1, <1>2, <1>5, VersionDoes

\* npm lists what is there.
LEMMA NodeDoes ==
  ASSUME AgentsFacts, AgentsTasks!NodeEnvDependencies \/ AgentsTasks!NodeAgentVersion
  PROVE  \E t, r : AgentsDoes(t, r)
<1>0. host.npm \in {"absent", "error", "empty", "without"} \cup AgentsTasks!Versions
  BY AgentsHostFacts DEF AgentsFacts
<1>1. CASE AgentsTasks!NodeEnvDependencies
  <2>. DEFINE t == AgentsTasks!NodeDependencies
  <2>1. PICK r : /\ AgentsTasks!Return(t, r)
                 /\ \/ r = AgentsTasks!Verdict("None") \/ r = AgentsTasks!Verdict("Error")
                    \/ host.npm \notin {"absent", "error", "empty"} /\ r = AgentsTasks!With("Info", host.npm)
    BY <1>1 DEF AgentsTasks!NodeEnvDependencies
  <2>2. process = "running" /\ t \notin DOMAIN results /\ UNCHANGED host
    BY <1>1 DEF AgentsTasks!NodeEnvDependencies, AgentsTasks!Ready
  <2>. HIDE DEF t
  <2>3. r.status \in Status /\ (r.status = "Info" => host.npm \in {"without"} \cup AgentsTasks!Versions)
    BY <1>0, <2>1, AgentsResults, StatusValues
  <2>4. AgentsReturns(t, r) BY <2>3, AgentsNames DEF AgentsReturns, t
  <2>. QED BY <2>1, <2>2, <2>4, AgentsNames DEF AgentsDoes, t
<1>2. CASE AgentsTasks!NodeAgentVersion
  <2>. DEFINE t == AgentsTasks!Version("Node")
              up == AgentsTasks!Upstream(AgentsTasks!NodeDependencies)
  <2>1. PICK r : /\ AgentsTasks!Return(t, r)
                 /\ \/ r = AgentsTasks!Verdict("None") \/ r = AgentsTasks!Verdict("Warning")
                    \/ /\ up.status = "Info" /\ host.npm # "without"
                       /\ r = AgentsTasks!With("Info", <<host.npm>>)
    BY <1>2 DEF AgentsTasks!NodeAgentVersion
  <2>2. AgentsTasks!Ready(t, {}) /\ UNCHANGED host
    BY <1>2 DEF AgentsTasks!NodeAgentVersion, AgentsTasks!Ready
  <2>3. up.status = "Info" => host.npm \in {"without"} \cup AgentsTasks!Versions
    BY AgentsResults DEF AgentsFacts, AgentsReturns, AgentsTasks!Upstream
  <2>4. \/ \E s \in Status : r = AgentsTasks!Verdict(s)
        \/ \E v \in AgentsTasks!Versions : r = AgentsTasks!With("Info", <<v>>)
    BY <2>1, <2>3, StatusValues
  <2>. QED BY <2>1, <2>2, <2>4, VersionDoes
<1>. QED BY <1>1, <1>2

\* The version of Python is the first of the logs that has one.
LEMMA PythonVersionDoes ==
  ASSUME AgentsFacts, AgentsTasks!PythonAgentVersion
  PROVE  \E t, r : AgentsDoes(t, r)
<1>. DEFINE t == AgentsTasks!Version("Python")
            found == AgentsTasks!GetPythonVersionFromLog(host.logs)
<1>1. PICK r : /\ AgentsTasks!Return(t, r)
               /\ \/ r = AgentsTasks!Verdict("None")
                  \/ /\ host.logs # None /\ found # <<>>
                     /\ r = AgentsTasks!With("Info", <<Head(found)>>)
  BY DEF AgentsTasks!PythonAgentVersion
<1>2. AgentsTasks!Ready(t, {}) /\ UNCHANGED host
  BY DEF AgentsTasks!PythonAgentVersion, AgentsTasks!Ready
<1>3. ASSUME host.logs # None, found # <<>> PROVE Head(found) \in AgentsTasks!Versions
  <2>1. host.logs \in Seq({"none"} \cup AgentsTasks!Versions)
    BY <1>3, AgentsHostFacts DEF AgentsFacts
  <2>2. /\ found \in Seq({"none"} \cup AgentsTasks!Versions)
        /\ AgentsTasks!Range(found) \subseteq AgentsTasks!Versions
    <3>1. found = AgentsTasks!Among(host.logs, AgentsTasks!Versions)
      BY DEF AgentsTasks!GetPythonVersionFromLog
    <3>. HIDE DEF found
    <3>. QED BY <2>1, <3>1, AgentsAmong
  <2>. HIDE DEF found
  <2>3. Head(found) = found[1] /\ 1 \in DOMAIN found BY <1>3, <2>2
  <2>. QED BY <2>2, <2>3 DEF AgentsTasks!Range
<1>4. \/ \E s \in Status : r = AgentsTasks!Verdict(s)
      \/ \E v \in AgentsTasks!Versions : r = AgentsTasks!With("Info", <<v>>)
  <2>. HIDE DEF found
  <2>. QED BY <1>1, <1>3, StatusValues
<1>. QED BY <1>1, <1>2, <1>4, VersionDoes

\* The version of PHP is that of the only log that tells one.
LEMMA PHPVersionDoes ==
  ASSUME AgentsFacts, AgentsTasks!PHPAgentVersion
  PROVE  \E t, r : AgentsDoes(t, r)
<1>. DEFINE t == AgentsTasks!Version("PHP")
            up == AgentsTasks!Upstream(AgentsTasks!ConfigAgent("PHP"))
            found == AgentsTasks!AgentVersions(up.payload)
            v == (CHOOSE m \in found : TRUE).version
<1>1. PICK r : /\ AgentsTasks!Return(t, r)
               /\ \/ r = AgentsTasks!Verdict("None") \/ r = AgentsTasks!Verdict("Warning")
                  \/ /\ up.status = "Success" /\ AgentsTasks!Cardinality(found) = 1
                     /\ r = AgentsTasks!With("Info", <<v>>)
  BY DEF AgentsTasks!PHPAgentVersion, AgentsTasks!Detected
<1>2. AgentsTasks!Ready(t, {}) /\ UNCHANGED host
  BY DEF AgentsTasks!PHPAgentVersion, AgentsTasks!Ready
<1>3. ASSUME up.status = "Success", AgentsTasks!Cardinality(found) = 1
      PROVE  v \in AgentsTasks!Versions
  <2>1. up.payload \in Seq(AgentsFile)
    <3>1. /\ AgentsTasks!ConfigAgent("PHP") \in DOMAIN results
          /\ up = results[AgentsTasks!ConfigAgent("PHP")]
      BY <1>3, AgentsResults DEF AgentsTasks!Upstream
    <3>2. Detects("PHP", up)
      BY <3>1, AgentsNames DEF AgentsFacts, AgentsReturns
    <3>. QED BY <1>3, <3>2 DEF Detects
  <2>2. ASSUME NEW m \in found PROVE m.version \in AgentsTasks!Versions
    <3>1. PICK n \in DOMAIN up.payload : m \in AgentsTasks!MentionsIn(up.payload[n], n)
      BY DEF AgentsTasks!AgentVersions
    <3>2. PICK i \in DOMAIN AgentsLogOf[up.payload[n]] :
            m.version = host.phpLog[AgentsLogOf[up.payload[n]][i]]
      BY <3>1 DEF AgentsTasks!MentionsIn
    <3>3. AgentsLogOf[up.payload[n]][i] \in AgentsLog
      <4>1. up.payload[n] \in AgentsFile BY <2>1
      <4>2. AgentsLogOf[up.payload[n]] \in Seq(AgentsLog) BY <4>1, AgentsConstants
      <4>. QED BY <3>2, <4>2
    <3>4. m.version \in {"none", "old", "new"} BY <3>2, <3>3, AgentsHostFacts DEF AgentsFacts
    <3>5. m.version # "none" BY DEF AgentsTasks!AgentVersions
    <3>. QED BY <3>4, <3>5 DEF AgentsTasks!Versions
  <2>3. found # {}
    <3>1. AgentsTasks!Cardinality({}) = Cardinality({}) BY DEF AgentsTasks!Cardinality, Cardinality
    <3>. HIDE DEF found
    <3>. QED BY <1>3, <3>1, FS_EmptySet
  <2>. HIDE DEF found
  <2>. QED BY <2>2, <2>3
<1>4. \/ \E s \in Status : r = AgentsTasks!Verdict(s)
      \/ \E w \in AgentsTasks!Versions : r = AgentsTasks!With("Info", <<w>>)
  <2>. HIDE DEF found, v, up
  <2>. QED BY <1>1, <1>3, StatusValues
<1>. QED BY <1>1, <1>2, <1>4, VersionDoes

\* The versions of Ruby are those of all its gems.
LEMMA RubyVersionDoes ==
  ASSUME AgentsFacts, AgentsTasks!RubyAgentVersion
  PROVE  \E t, r : AgentsDoes(t, r)
<1>. DEFINE t == AgentsTasks!Version("Ruby")
<1>1. PICK r : /\ AgentsTasks!Return(t, r)
               /\ \/ \E s \in {"None", "Error", "Failure"} : r = AgentsTasks!Verdict(s)
                  \/ r = AgentsTasks!With("Info", host.gemVersions)
  BY DEF AgentsTasks!RubyAgentVersion, AgentsTasks!ParseGemVersions
<1>2. process = "running" /\ t \notin DOMAIN results /\ UNCHANGED host
  BY DEF AgentsTasks!RubyAgentVersion, AgentsTasks!Ready
<1>3. AgentsTasks!Range(host.gemVersions) \subseteq AgentsTasks!Versions
  BY AgentsHostFacts DEF AgentsFacts, AgentsTasks!Range
<1>4. r.status \in Status /\ VersionTells("Ruby", r)
  BY <1>1, <1>3, AgentsResults, StatusValues DEF VersionTells
<1>5. AgentsReturns(t, r) BY <1>4, AgentsNames DEF AgentsReturns
<1>6. t # AgentsTasks!Version("Java") /\ t # AgentsTasks!EOL BY AgentsNames
<1>. QED BY <1>1, <1>2, <1>5, <1>6 DEF AgentsDoes

\* The version of Java is that of the first jar that can be asked.
LEMMA JavaVersionDoes ==
  ASSUME AgentsFacts, AgentsTasks!JavaAgentVersion
  PROVE  \E t, r : AgentsDoes(t, r)
<1>. DEFINE t == AgentsTasks!Version("Java")
            good == AgentsTasks!Among(host.jars, {"old", "new"})
            best == AgentsTasks!BestJar(host.jars)
            r == CASE ~AgentsTasks!Detected("Java") \/ host.jars = <<>> -> AgentsTasks!Verdict("None")
                   [] AgentsTasks!Detected("Java") /\ host.jars # <<>> /\ best = "bad" -> AgentsTasks!Verdict("Error")
                   [] OTHER -> AgentsTasks!With("Info", <<best>>)
<1>1. /\ process = "running" /\ t \notin DOMAIN results
      /\ AgentsTasks!Return(t, r) /\ UNCHANGED host
      /\ AgentsTasks!ConfigAgent("Java") \in DOMAIN results
  BY DEF AgentsTasks!JavaAgentVersion, AgentsTasks!Ready
<1>2. /\ good \in Seq({"old", "new", "bad"})
      /\ AgentsTasks!Range(good) = AgentsTasks!Range(host.jars) \cap {"old", "new"}
  <2>1. host.jars \in Seq({"old", "new", "bad"}) BY AgentsHostFacts DEF AgentsFacts
  <2>. QED BY <2>1, AgentsAmong
<1>3. best = IF good = <<>> THEN "bad" ELSE good[1] BY DEF AgentsTasks!BestJar
<1>. HIDE DEF good, best
<1>4. \/ best \in AgentsTasks!Range(good)
      \/ good = <<>> /\ best = "bad"
  <2>1. good # <<>> => 1 \in DOMAIN good BY <1>2
  <2>. QED BY <1>3, <2>1 DEF AgentsTasks!Range
<1>5. best \in {"old", "new", "bad"} BY <1>2, <1>4
<1>6. OnlyOldJars => best = "old"
  <2>1. AgentsTasks!Range(<<>>) = {} BY DEF AgentsTasks!Range
  <2>. QED BY <1>2, <1>4, <2>1 DEF OnlyOldJars
<1>7. \/ r = AgentsTasks!Verdict("None") \/ r = AgentsTasks!Verdict("Error")
      \/ best # "bad" /\ r = AgentsTasks!With("Info", <<best>>)
  OBVIOUS
<1>8. OnlyOldJars => r = AgentsTasks!With("Info", <<"old">>) BY <1>6 DEF OnlyOldJars
<1>. HIDE DEF r
<1>9. r.status \in Status /\ VersionTells("Java", r)
  <2>1. best # "bad" => AgentsTasks!Range(<<best>>) \subseteq AgentsTasks!Versions
    BY <1>5, OneVersion DEF AgentsTasks!Versions
  <2>. QED BY <1>7, <2>1, AgentsResults, StatusValues DEF VersionTells
<1>10. AgentsReturns(t, r) BY <1>9, AgentsNames DEF AgentsReturns
<1>11. t # AgentsTasks!EOL BY AgentsNames
<1>. QED BY <1>1, <1>8, <1>10, <1>11 DEF AgentsDoes

\* EOL fails for an old version, whatever the others are.
LEMMA EOLDoes ==
  ASSUME AgentsFacts, AgentsTasks!BaseAgentEOL
  PROVE  \E t, r : AgentsDoes(t, r)
<1>. DEFINE t == AgentsTasks!EOL
            queue == UNION {AgentsTasks!DecisionQueue(u) : u \in AgentsTasks!EOLDependencies}
            s == AgentsTasks!GenSummaryStatus(queue)
            r == AgentsTasks!Verdict(s)
<1>1. /\ process = "running" /\ t \notin DOMAIN results
      /\ AgentsTasks!Return(t, r) /\ UNCHANGED host
      /\ AgentsTasks!EOLDependencies \subseteq DOMAIN results
  BY DEF AgentsTasks!BaseAgentEOL, AgentsTasks!Ready
<1>. HIDE DEF queue
<1>2. s \in {"None", "Failure", "Error", "Success"} /\ ("old" \in queue => s = "Failure")
  BY DEF AgentsTasks!GenSummaryStatus
<1>. HIDE DEF s
<1>3. r.status = s BY AgentsResults
<1>. HIDE DEF r
<1>4. AgentsReturns(t, r)
  <2>1. t # AgentsTasks!Installed("DotNet") /\ t # AgentsTasks!NodeDependencies
        /\ t[2] = "Agent/EOL"
    BY AgentsNames
  <2>. HIDE DEF t
  <2>. QED BY <1>2, <1>3, <2>1, StatusValues DEF AgentsReturns
<1>5. t # AgentsTasks!Version("Java") BY AgentsNames
<1>. QED BY <1>1, <1>2, <1>3, <1>4, <1>5 DEF AgentsDoes, queue


-----------------------------------------------------------------------------
(* The steps of the family *)

\* Every step is one of a task, or the end.
LEMMA AgentsStep ==
  ASSUME AgentsFacts, AgentsTasks!Next
  PROVE  UNCHANGED <<host, results, process>> \/ \E t, r : AgentsDoes(t, r)
<1>1. {"Java", "Infra", "Node", "Python", "PHP", "Ruby"} \subseteq AgentsTasks!Agents \ {"DotNet", "DotNetCore"}
  BY AgentsConstants
<1>2. CASE \/ AgentsTasks!JavaConfigAgent \/ AgentsTasks!InfraConfigAgent
           \/ AgentsTasks!NodeConfigAgent \/ AgentsTasks!PythonConfigAgent
           \/ AgentsTasks!PHPConfigAgent \/ AgentsTasks!RubyConfigAgent
  <2>1. \E a \in {"Java", "Infra", "Node", "Python", "PHP", "Ruby"} : AgentsTasks!LanguageConfigAgent(a)
    BY <1>2
    DEF AgentsTasks!JavaConfigAgent, AgentsTasks!InfraConfigAgent, AgentsTasks!NodeConfigAgent,
        AgentsTasks!PythonConfigAgent, AgentsTasks!PHPConfigAgent, AgentsTasks!RubyConfigAgent
  <2>. QED BY <1>1, <2>1, LanguageDoes
<1>3. CASE AgentsTasks!Done
  BY <1>3 DEF AgentsTasks!Done, AgentsTasks!vars
<1>. QED
  BY <1>2, <1>3, DotNetDoes, DotNetVersionDoes, NodeDoes, PythonVersionDoes, PHPVersionDoes,
     RubyVersionDoes, JavaVersionDoes, EOLDoes
  DEF AgentsTasks!Next

\* What a task returns is read off the host.
LEMMA ReturnsOfHost ==
  ASSUME UNCHANGED host
  PROVE  \A t, r : AgentsReturns(t, r)' <=> AgentsReturns(t, r)
<1>1. \A a : KeyInText(a)' <=> KeyInText(a)
  BY DEF KeyInText, AgentsTasks!FindStringInFile, AgentsTasks!Kinds, AgentsTasks!Range
<1>2. AgentsTasks!Validated' <=> AgentsTasks!Validated
  BY DEF AgentsTasks!Validated
<1>3. \A a, r : Detects(a, r)' <=> Detects(a, r)
  BY <1>1, Zenon DEF Detects, Holds, NotMore
<1>4. \A a, r : VersionTells(a, r)' <=> VersionTells(a, r)
  BY Zenon DEF VersionTells, Holds, AgentsTasks!Versions
<1>. QED
  BY <1>2, <1>3, <1>4, Zenon
  DEF AgentsReturns, AgentsTasks!Installed, AgentsTasks!NodeDependencies, AgentsTasks!Versions, Status

\* The versions EOL waits for are those of the agents chosen, Java and Ruby among them.
LEMMA ChosenVersions ==
  /\ "Ruby" \in AgentsTasks!Selected => AgentsTasks!Version("Ruby") \in AgentsTasks!EOLDependencies
  /\ "Java" \in AgentsTasks!Selected => AgentsTasks!Version("Java") \in AgentsTasks!EOLDependencies
<1>1. ASSUME NEW a \in {"Ruby", "Java"}, a \in AgentsTasks!Selected
      PROVE  a \in AgentsTasks!AgentsOfSuites(host.suites)
  BY <1>1 DEF AgentsTasks!Selected, AgentsTasks!AgentsOfSuites, AgentsTasks!DefaultDependencies
<1>. QED BY <1>1 DEF AgentsTasks!EOLDependencies

\* A step that leaves the family alone keeps the invariant.
LEMMA AgentsFactsStutter ==
  ASSUME AgentsFacts, UNCHANGED <<host, results, process>>
  PROVE  AgentsFacts'
<1>1. \A t \in DOMAIN results' : AgentsReturns(t, results[t])'
  BY ReturnsOfHost DEF AgentsFacts
<1>2. JavaTold'
  BY DEF AgentsFacts, JavaTold, OnlyOldJars, AgentsTasks!Detected, AgentsTasks!Upstream
<1>3. AgentsTasks!OldAgentNoticed'
  BY DEF AgentsFacts, AgentsTasks!OldAgentNoticed, AgentsTasks!Detected, AgentsTasks!Upstream,
         AgentsTasks!Ran, AgentsTasks!Selected
<1>4. AgentsTasks!EOLDependencies' = AgentsTasks!EOLDependencies
  BY DEF AgentsTasks!EOLDependencies
<1>. QED BY <1>1, <1>2, <1>3, <1>4 DEF AgentsFacts

\* Every step of the family keeps it.
LEMMA AgentsFactsKept ==
  ASSUME AgentsFacts, AgentsTasks!Next
  PROVE  AgentsFacts'
<1>1. ASSUME NEW t, NEW r, AgentsDoes(t, r) PROVE AgentsFacts'
  <2>1. /\ DOMAIN results' = DOMAIN results \cup {t} /\ results'[t] = r /\ t \notin DOMAIN results
        /\ \A u \in DOMAIN results : results'[u] = results[u]
        /\ host' = host /\ process' = process
    BY <1>1 DEF AgentsDoes, AgentsTasks!Return
  <2>2. \A u \in DOMAIN results' : AgentsReturns(u, results[u])'
    <3>1. \A u \in DOMAIN results' : AgentsReturns(u, results'[u])
      BY <1>1, <2>1 DEF AgentsFacts, AgentsDoes
    <3>. QED BY <2>1, <3>1, ReturnsOfHost
  <2>3. AgentsTasks!ConfigAgent("Java") \in DOMAIN results => (OnlyOldJars' <=> OnlyOldJars)
    BY <2>1 DEF OnlyOldJars, AgentsTasks!Detected, AgentsTasks!Upstream
  <2>4. JavaTold'
    <3>1. CASE t = AgentsTasks!Version("Java")
      BY <1>1, <2>1, <2>3, <3>1 DEF JavaTold, AgentsDoes
    <3>2. CASE t # AgentsTasks!Version("Java")
      BY <2>1, <2>3, <3>2 DEF JavaTold, AgentsFacts
    <3>. QED BY <3>1, <3>2
  <2>5. AgentsTasks!EOLDependencies' = AgentsTasks!EOLDependencies
    BY <2>1 DEF AgentsTasks!EOLDependencies
  <2>6. /\ t = AgentsTasks!EOL => AgentsTasks!EOLDependencies \subseteq DOMAIN results
        /\ AgentsTasks!EOL \in DOMAIN results => AgentsTasks!EOLDependencies \subseteq DOMAIN results
    BY <1>1 DEF AgentsDoes, AgentsFacts
  <2>7. AgentsTasks!OldAgentNoticed'
    <3>0. SUFFICES ASSUME AgentsTasks!EOL \in DOMAIN results'
          PROVE  /\ (/\ "Ruby" \in AgentsTasks!Selected'
                     /\ results'[AgentsTasks!Version("Ruby")].status = "Info"
                     /\ "old" \in AgentsTasks!Range(host.gemVersions))
                    => results'[AgentsTasks!EOL].status = "Failure"
                 /\ "Java" \in AgentsTasks!Selected' /\ OnlyOldJars' =>
                      results'[AgentsTasks!EOL].status = "Failure"
      BY <2>1 DEF AgentsTasks!OldAgentNoticed, AgentsTasks!Ran, OnlyOldJars
    <3>1. AgentsTasks!EOLDependencies \subseteq DOMAIN results BY <2>1, <2>6, <3>0
    <3>2. AgentsTasks!Selected' = AgentsTasks!Selected
      BY <2>1 DEF AgentsTasks!Selected
    <3>3. "Java" \in AgentsTasks!Selected =>
            /\ AgentsTasks!Version("Java") \in DOMAIN results
            /\ AgentsTasks!ConfigAgent("Java") \in DOMAIN results
      BY <3>1, ChosenVersions DEF AgentsFacts, JavaTold
    <3>4. CASE t = AgentsTasks!EOL
      <4>1. "old" \in UNION {AgentsTasks!DecisionQueue(u) : u \in AgentsTasks!EOLDependencies} =>
              results'[AgentsTasks!EOL].status = "Failure"
        BY <1>1, <2>1, <3>4 DEF AgentsDoes
      <4>2. ASSUME "Ruby" \in AgentsTasks!Selected,
                   results'[AgentsTasks!Version("Ruby")].status = "Info",
                   "old" \in AgentsTasks!Range(host.gemVersions)
            PROVE  results'[AgentsTasks!EOL].status = "Failure"
        <5>. DEFINE u == AgentsTasks!Version("Ruby")
        <5>1. u \in AgentsTasks!EOLDependencies BY <4>2, ChosenVersions
        <5>2. results'[u] = results[u] /\ u \in DOMAIN results BY <2>1, <3>1, <5>1
        <5>3. results[u].payload = host.gemVersions
          BY <4>2, <5>2, AgentsNames DEF AgentsFacts, AgentsReturns, VersionTells
        <5>4. "old" \in AgentsTasks!DecisionQueue(u)
          BY <4>2, <5>2, <5>3 DEF AgentsTasks!DecisionQueue
        <5>. QED BY <4>1, <5>1, <5>4
      <4>3. ASSUME "Java" \in AgentsTasks!Selected, OnlyOldJars'
            PROVE  results'[AgentsTasks!EOL].status = "Failure"
        <5>. DEFINE u == AgentsTasks!Version("Java")
        <5>1. u \in AgentsTasks!EOLDependencies BY <4>3, ChosenVersions
        <5>2. results[u] = AgentsTasks!With("Info", <<"old">>)
          BY <2>3, <3>3, <4>3 DEF AgentsFacts, JavaTold
        <5>3. results[u].status = "Info" /\ results[u].payload = <<"old">> BY <5>2, AgentsResults
        <5>4. "old" \in AgentsTasks!Range(<<"old">>) BY DEF AgentsTasks!Range
        <5>5. "old" \in AgentsTasks!DecisionQueue(u)
          BY <5>3, <5>4 DEF AgentsTasks!DecisionQueue
        <5>. QED BY <4>1, <5>1, <5>5
      <4>. QED BY <3>2, <4>2, <4>3
    <3>5. CASE t # AgentsTasks!EOL
      <4>1. AgentsTasks!EOL \in DOMAIN results /\ results'[AgentsTasks!EOL] = results[AgentsTasks!EOL]
        BY <2>1, <3>0, <3>5
      <4>2. "Ruby" \in AgentsTasks!Selected =>
              results'[AgentsTasks!Version("Ruby")] = results[AgentsTasks!Version("Ruby")]
        BY <2>1, <3>1, ChosenVersions
      <4>. QED
        BY <2>3, <3>2, <3>3, <4>1, <4>2
        DEF AgentsFacts, AgentsTasks!OldAgentNoticed, AgentsTasks!Ran, OnlyOldJars
    <3>. QED BY <3>4, <3>5
  <2>. QED BY <2>1, <2>2, <2>4, <2>5, <2>6, <2>7 DEF AgentsFacts
<1>. QED BY <1>1, AgentsStep, AgentsFactsStutter

\* At first no task has run.
LEMMA AgentsFactsStart ==
  ASSUME AgentsTasks!Init
  PROVE  AgentsFacts
BY DEF AgentsTasks!Init, AgentsTasks!NothingRun, AgentsFacts, JavaTold, AgentsTasks!OldAgentNoticed,
       AgentsTasks!Ran

\* The invariant is what the statements about the family say.
LEMMA AgentsStatements ==
  ASSUME AgentsFacts
  PROVE  /\ AgentsTasks!TypeOK /\ AgentsTasks!DetectedFromText
         /\ AgentsTasks!OneElementPerFile /\ AgentsTasks!InstalledMeansValidated
         /\ AgentsTasks!OldAgentNoticed
<1>1. \A t \in DOMAIN results : AgentsReturns(t, results[t]) BY DEF AgentsFacts
<1>2. ASSUME NEW a, AgentsTasks!Ran(AgentsTasks!ConfigAgent(a))
      PROVE  Detects(a, results[AgentsTasks!ConfigAgent(a)])
  BY <1>1, <1>2, AgentsNames DEF AgentsReturns, AgentsTasks!Ran
<1>3. AgentsTasks!TypeOK
  <2>1. ASSUME NEW t \in DOMAIN results, t[2] = "Agent/Version", AgentsTasks!Holds(results[t])
        PROVE  AgentsTasks!Range(results[t].payload) \subseteq AgentsTasks!Versions
    BY <1>1, <2>1 DEF AgentsReturns, VersionTells, AgentsTasks!Holds, Holds
  <2>2. \A t \in DOMAIN results : results[t].status \in AgentsTasks!Status
    BY <1>1, StatusValues DEF AgentsReturns, AgentsTasks!Status
  <2>. QED BY <2>1, <2>2 DEF AgentsFacts, AgentsTasks!TypeOK
<1>4. AgentsTasks!DetectedFromText
  BY <1>2 DEF AgentsTasks!DetectedFromText, Detects, KeyInText
<1>5. AgentsTasks!OneElementPerFile
  <2>1. ASSUME NEW a \in AgentsTasks!Agents \ {"Python", "Ruby"},
               AgentsTasks!Ran(AgentsTasks!ConfigAgent(a)),
               AgentsTasks!Holds(results[AgentsTasks!ConfigAgent(a)])
        PROVE  NotMore(results[AgentsTasks!ConfigAgent(a)].payload, host.files)
    BY <1>2, <2>1 DEF Detects, AgentsTasks!Holds, Holds
  <2>. QED BY <2>1, Zenon DEF AgentsTasks!OneElementPerFile, NotMore
<1>6. AgentsTasks!InstalledMeansValidated
  BY <1>2 DEF AgentsTasks!InstalledMeansValidated, Detects
<1>. QED BY <1>3, <1>4, <1>5, <1>6 DEF AgentsFacts

-----------------------------------------------------------------------------
(* What is said of all families *)

\* Whichever family is run, what is said of it holds.
EffectsFacts ==
  /\ Of("account") => AccountFacts
  /\ Of("azure") => AzureFacts
  /\ Of("infra") => InfraFacts
  /\ Of("integrations") => IntegrationsFacts
  /\ Of("agents") => AgentsFacts

\* It holds at first.
LEMMA EffectsFactsStart ==
  ASSUME EffectsInit
  PROVE  EffectsFacts
<1>1. CASE Of("account") /\ AccountTasks!Init
  BY <1>1, AccountFactsStart DEF EffectsFacts, Of
<1>2. CASE Of("azure") /\ AzureTasks!Init
  BY <1>2, AzureFactsStart DEF EffectsFacts, Of
<1>3. CASE Of("infra") /\ InfraTasks!Init
  BY <1>3, InfraFactsStart DEF EffectsFacts, Of
<1>4. CASE Of("integrations") /\ IntegrationsTasks!Init
  BY <1>4, IntegrationsFactsStart DEF EffectsFacts, Of
<1>5. CASE Of("agents") /\ AgentsTasks!Init
  BY <1>5, AgentsFactsStart DEF EffectsFacts, Of
<1>. QED BY <1>1, <1>2, <1>3, <1>4, <1>5 DEF EffectsInit

\* Every step keeps it.
LEMMA EffectsFactsKept ==
  ASSUME EffectsFacts, [EffectsNext]_effectsVars
  PROVE  EffectsFacts'
<1>1. CASE UNCHANGED effectsVars
  <2>1. /\ UNCHANGED <<family, host, results, process, requests, sent>>
        /\ UNCHANGED <<remote, written, copied, report, level, lines, pending, archive>>
        /\ UNCHANGED <<declined, kept, tested, asked, listed>>
    BY <1>1 DEF effectsVars, OwnVars, AccountVars, AzureVars, InfraVars, IntegrationsVars
  <2>2. /\ Of("account") => AccountFacts'
        /\ Of("azure") => AzureFacts'
        /\ Of("infra") => InfraFacts'
    BY <2>1, AccountFactsStutter, AzureFactsStutter, InfraFactsStutter DEF EffectsFacts
  <2>3. (Of("integrations") => IntegrationsFacts') /\ (Of("agents") => AgentsFacts')
    BY <2>1, IntegrationsFactsStutter, AgentsFactsStutter DEF EffectsFacts
  <2>. QED BY <2>1, <2>2, <2>3 DEF EffectsFacts, Of
<1>2. CASE EffectsNext
  <2>1. family' = family
    BY <1>2 DEF EffectsNext
  <2>2. CASE Of("account") /\ AccountTasks!Next
    BY <2>1, <2>2, AccountFactsKept DEF EffectsFacts, Of
  <2>3. CASE Of("azure") /\ AzureTasks!Next
    BY <2>1, <2>3, AzureFactsKept DEF EffectsFacts, Of
  <2>4. CASE Of("infra") /\ InfraTasks!Next
    BY <2>1, <2>4, InfraFactsKept DEF EffectsFacts, Of
  <2>5. CASE Of("integrations") /\ IntegrationsTasks!Next
    BY <2>1, <2>5, IntegrationsFactsKept DEF EffectsFacts, Of
  <2>6. CASE Of("agents") /\ AgentsTasks!Next
    BY <2>1, <2>6, AgentsFactsKept DEF EffectsFacts, Of
  <2>. QED BY <1>2, <2>2, <2>3, <2>4, <2>5, <2>6 DEF EffectsNext
<1>. QED BY <1>1, <1>2

\* What is said of the families holds in every state.
THEOREM EffectsFactsHold == EffectsSpec => []EffectsFacts
BY EffectsFactsStart, EffectsFactsKept, PTL DEF EffectsSpec

\* A failure of one endpoint, path of brokers, file of JSON, version or task counts in
\* the result whatever the others are.
THEOREM EffectsNothingHidden == EffectsSpec => []NothingHidden
<1>1. EffectsFacts => NothingHidden
  BY AgentsStatements
  DEF EffectsFacts, NothingHidden, AzureFacts, InfraFacts, IntegrationsFacts
<1>. QED BY <1>1, EffectsFactsHold, PTL

\* What tasks hand on has its form and agrees with the keys, settings, files and logs
\* it comes from.
THEOREM EffectsHandedOn == EffectsSpec => []HandedOn
<1>1. EffectsFacts => HandedOn
  BY AgentsStatements, MatchIsOfFiles
  DEF EffectsFacts, HandedOn, AccountFacts, AzureFacts, InfraFacts, IntegrationsFacts
<1>. QED BY <1>1, EffectsFactsHold, PTL

=============================================================================
