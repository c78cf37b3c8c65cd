--------------------------- MODULE MCTaskEffects ---------------------------
(***************************************************************************)
(* The hosts of TaskEffects, and what its tasks find there.                *)
(***************************************************************************)
EXTENDS TaskEffects, TLC

-----------------------------------------------------------------------------
\* Five keys (two regions with a collector, one without, one in quotes and one
\* that is too short) in files and variables, and hosts with a proxy.

MCAccountKey == {"us", "eu", "gov", "quoted", "short"}
MCAccountFormat == [k \in MCAccountKey |-> CASE k = "quoted" -> "quoted" [] k = "short" -> "short" [] OTHER -> "valid"]
MCAccountRegion == [k \in MCAccountKey |-> CASE k = "eu" -> "eu01" [] k = "gov" -> "gov01" [] OTHER -> "us01"]
MCAccountFile == {"yml", "infra", "ini"}
MCAccountFileType == [f \in MCAccountFile |-> CASE f = "yml" -> "yml" [] f = "infra" -> "infra" [] OTHER -> "ini"]

AccountPlain == [elements |-> <<"infra", "yml", "ini">>,
          keys |-> [f \in MCAccountFile |-> <<>>], proxies |-> [f \in MCAccountFile |-> "none"],
          infraEnv |-> None, apmEnv |-> None, sysProp |-> None,
          proxyEnv |-> FALSE, proxySys |-> FALSE, https |-> None, http |-> None, forced |-> FALSE]

AccountKeyHost ==
  {[AccountPlain EXCEPT !.keys = [f \in MCAccountFile |-> IF f = "yml" THEN <<k>> ELSE IF f = "ini" THEN l ELSE <<>>],
                 !.apmEnv = a, !.infraEnv = i, !.sysProp = s, !.forced = c] :
     k \in MCAccountKey, l \in {<<>>, <<"eu", "us">>}, a \in {None, "us", "quoted"}, i \in {None, "gov"},
     s \in {None, "short"}, c \in BOOLEAN} \cup {AccountPlain, [AccountPlain EXCEPT !.elements = None]}

AccountProxyHost ==
  {[AccountPlain EXCEPT !.elements = e, !.proxies = p, !.proxyEnv = v, !.proxySys = s, !.https = u,
                 !.keys["yml"] = <<"us">>] :
     e \in {<<"infra", "yml">>, <<"ini", "infra">>, <<"yml">>, <<"ini">>},
     p \in [MCAccountFile -> {"none", "one", "many", "elsewhere"}], v \in BOOLEAN, s \in BOOLEAN, u \in {None, "user"}}

MCAccountHost == AccountKeyHost \cup AccountProxyHost

-----------------------------------------------------------------------------
\* Many hosts without a target, where only what is found differs, and a few with
\* one, where az, Kudu and the user answer in every way.

MCAzurePattern == <<"coredump.*", "*.dmp", "core.*">>
MCAzureDump == {"core", "dmp", "both"}
MCAzureMatching == "core" :> {"coredump.*"} @@ "dmp" :> {"*.dmp"} @@ "both" :> {"*.dmp", "core.*"}

AzureGood ==
  [runtime |-> "java", license |-> "valid", app |-> TRUE, vars |-> TRUE, insights |-> FALSE,
   tool |-> {"agent"}, opts |-> {}, dump |-> "off"]
AzurePlain ==
  [local |-> None, azure |-> AzureGood, given |-> {}, valid |-> TRUE, yes |-> TRUE,
   dumps |-> {"core", "dmp"}, logs |-> <<>>]

AzureLog(found, whole) == [found |-> found, whole |-> whole]

AzureLocalHost ==
  {[AzurePlain EXCEPT !.local = [AzureGood EXCEPT !.runtime = r, !.license = l, !.vars = v]] :
     r \in {"dotnet", "java", "node", "powershell", "odd", ""}, l \in {"valid", "unset"},
     v \in BOOLEAN}
  \cup {[AzurePlain EXCEPT !.local = [AzureGood EXCEPT !.tool = t, !.opts = o, !.insights = t = {}]] :
     t \in {{}, {"agent"}, {"heap"}}, o \in {{}, {"agent", "other"}}}
  \cup {[AzurePlain EXCEPT !.local = AzureGood, !.logs = l] :
     l \in {<<AzureLog({"warning"}, TRUE)>>, <<AzureLog({}, TRUE), AzureLog({"error", "general"}, FALSE)>>}}

AzureTargeting ==
  {"DownloadSiteDump", "FetchAppSettings", "CollectProcessDetails",
   "CollectLiveMemoryDump", "ConfigureCrashDump"}
AzureTargeted == [AzurePlain EXCEPT !.given = {"DownloadSiteDump"}]
AzureAllTargeted == [AzurePlain EXCEPT !.given = AzureTargeting]

AzureTargetHost ==
  {AzurePlain,
   [AzureAllTargeted EXCEPT !.valid = FALSE],
   [AzureAllTargeted EXCEPT !.yes = FALSE, !.azure.runtime = "dotnet"],
   [AzureTargeted EXCEPT !.azure.runtime = "node"],
   \* run in one container with the name of another app
   [AzureTargeted EXCEPT !.local = [AzureGood EXCEPT !.runtime = "dotnet"]]}

MCAzureHost == AzureLocalHost \cup AzureTargetHost

-----------------------------------------------------------------------------
\* Two logs and two endpoints; hosts that differ in the agent and its logs, in
\* its release, or in what answers.

MCInfraLog == {"a", "b"}
MCInfraEndpoint == {"infra-api", "log-api"}
InfraRelease(m, y) == [answer |-> "version", minor |-> m, years |-> y]

InfraPlain ==
  [agent |-> "validated", shell |-> TRUE, env |-> {}, readable |-> {"a", "b"}, logs |-> {"a", "b"},
   verbose |-> TRUE, release |-> InfraRelease(50, 0), data |-> TRUE, regions |-> {"us01"},
   unreachable |-> {}, skew |-> FALSE, ctl |-> TRUE]

MCInfraHost ==
  {[InfraPlain EXCEPT !.agent = g, !.env = e, !.logs = l, !.readable = r] :
     g \in {"validated", "parsed", "binary", "absent"}, e \in {{}, {"a"}}, l \in {{"b"}, {"a", "b"}},
     r \in {{}, {"a"}, {"a", "b"}}}
  \cup {[InfraPlain EXCEPT !.shell = FALSE, !.env = {"a"}], [InfraPlain EXCEPT !.verbose = FALSE], [InfraPlain EXCEPT !.ctl = FALSE],
        [InfraPlain EXCEPT !.release.answer = "fails"], [InfraPlain EXCEPT !.release.answer = "garbage"]}
  \cup {[InfraPlain EXCEPT !.release = InfraRelease(m, y)] : m \in {3, 4, 12, 50}, y \in {0, 1, 2, None}}
  \cup {[InfraPlain EXCEPT !.regions = g, !.unreachable = u, !.skew = s] :
     g \in {{}, {"us01"}, {"eu01"}}, s \in BOOLEAN,
     u \in {{<<"us01", "infra-api">>}, {<<"eu01", "infra-api">>}, {<<"us01", "log-api">>}}}

-----------------------------------------------------------------------------
\* Up to three files of two integrations; hosts that differ in how the files
\* pair, in what the JMX server answers, or in the brokers.

IntegrationsAt(h, p, a) == [host |-> h, port |-> p, auth |-> a]
IntegrationsZooHost(h, p) == [host |-> h, port |-> p]
IntegrationsHome(bin, here, below) == [bin |-> bin, here |-> here, below |-> below]

IntegrationsFile(kind, i) ==
  [kind |-> kind, of |-> i, place |-> TRUE, yaml |-> TRUE, v4 |-> FALSE, name |-> "n",
   json |-> IF i = "jmx" THEN "none" ELSE "array", twice |-> FALSE,
   jmx |-> [address |-> IntegrationsAt("h", "1", FALSE), collection |-> "queries"],
   zookeeper |-> [path |-> "/root", hosts |-> <<IntegrationsZooHost("localhost", 5101)>>]]

IntegrationsJmxFiles == <<IntegrationsFile("config", "jmx"), IntegrationsFile("definition", "jmx")>>
IntegrationsKafkaFiles == <<IntegrationsFile("config", "kafka"), IntegrationsFile("definition", "kafka")>>

IntegrationsPlain ==
  [agent |-> TRUE, files |-> IntegrationsJmxFiles, version |-> With("Info", 8), java |-> "Info",
   server |-> {IntegrationsAt("h", "1", FALSE)}, query |-> [q1 |-> "metrics", q2 |-> "metrics"], shell |-> TRUE,
   home |-> <<IntegrationsHome(FALSE, {}, {"zookeeper-shell.sh", "zkCli.sh"})>>, brokers |-> {<<"localhost", 5101, "/root">>}]
IntegrationsKafka == [IntegrationsPlain EXCEPT !.files = IntegrationsKafkaFiles]

\* How files pair: names, places, formats, doubles.
IntegrationsConfigs ==
  {[IntegrationsFile("config", "jmx") EXCEPT !.place = p, !.v4 = v, !.name = n] : p \in BOOLEAN, v \in BOOLEAN, n \in {"n", "m", "", None}}
IntegrationsDefinitions ==
  {[IntegrationsFile("definition", "jmx") EXCEPT !.place = p, !.name = n] : p \in BOOLEAN, n \in {"n", "", None}}
IntegrationsMatching ==
  {[IntegrationsPlain EXCEPT !.files = <<c, d>>, !.version = v] :
     c \in IntegrationsConfigs, d \in IntegrationsDefinitions, v \in {With("Info", 7), With("Info", 8)}}
  \cup {[IntegrationsPlain EXCEPT !.files = f, !.version = v] :
          f \in {<<>>, <<IntegrationsFile("other", "jmx")>>} \cup {<<c>> : c \in IntegrationsConfigs} \cup {<<d>> : d \in IntegrationsDefinitions}
                \cup {<<IntegrationsFile("config", "redis"), c>> : c \in IntegrationsConfigs},
          v \in {Verdict("Failure"), Verdict("Warning"), With("Info", 7), With("Info", 8)}}
IntegrationsDoubled == {[IntegrationsPlain EXCEPT !.files = <<[IntegrationsFile("config", "jmx") EXCEPT !.v4 = TRUE], IntegrationsFile("config", "jmx"), IntegrationsFile("definition", "jmx")>>]}

\* What the JMX server and its queries answer.
IntegrationsServing ==
  {[IntegrationsPlain EXCEPT !.files = <<[IntegrationsFile("config", "jmx") EXCEPT !.jmx.address = a, !.jmx.collection = c], IntegrationsFile("definition", "jmx")>>,
                 !.server = s, !.java = j, !.query = [q1 |-> "metrics", q2 |-> r]] :
     a \in {IntegrationsAt("h", "1", FALSE), IntegrationsAt("", "1", FALSE), IntegrationsAt("h", "1", TRUE)}, c \in {"", "unreadable", "none", "queries"},
     s \in {{}, {IntegrationsAt("h", "1", FALSE)}, {IntegrationsAt("localhost", "1", FALSE)}, {IntegrationsAt("h", "1", TRUE)}}, j \in {"Info", "Warning"},
     r \in {"metrics", "nothing", "error"}}
  \cup {[IntegrationsPlain EXCEPT !.files[1].twice = TRUE], [IntegrationsPlain EXCEPT !.files[1].yaml = FALSE], [IntegrationsPlain EXCEPT !.agent = FALSE]}

\* Where the brokers are.
IntegrationsBroking ==
  {[IntegrationsKafka EXCEPT !.files[1].zookeeper.path = p, !.files[1].zookeeper.hosts = h, !.brokers = b] :
     p \in {"", "/root"}, h \in {<<>>, <<IntegrationsZooHost("z", 5101)>>, <<IntegrationsZooHost("localhost", 5101), IntegrationsZooHost("z", 0)>>},
     b \in SUBSET {<<"localhost", 5101, "/root">>, <<"localhost", 5101, "">>, <<"localhost", 2181, "">>}}
  \cup {[IntegrationsKafka EXCEPT !.files[1].json = j, !.files[1].twice = t, !.shell = s, !.home = h] :
          j \in {"none", "array", "other", "invalid"}, t \in BOOLEAN, s \in BOOLEAN,
          h \in {<<>>, <<IntegrationsHome(TRUE, {"zkCli.sh"}, {})>>, <<IntegrationsHome(TRUE, {}, {"zookeeper-shell.sh", "zkCli.sh"})>>, <<IntegrationsHome(FALSE, {}, {}), IntegrationsHome(FALSE, {}, {"zookeeper-shell.sh", "zkCli.sh"})>>}}
  \cup {[IntegrationsKafka EXCEPT !.files[1].zookeeper.hosts = <<None>>]}
  \cup {[IntegrationsKafka EXCEPT !.files = IntegrationsKafkaFiles \o <<[IntegrationsFile("config", "redis") EXCEPT !.json = j, !.v4 = TRUE]>>] : j \in {"array", "invalid"}}

MCIntegrationsHost == IntegrationsMatching \cup IntegrationsDoubled \cup IntegrationsServing \cup IntegrationsBroking

-----------------------------------------------------------------------------
\* One or two suites at a time, with the files and answers their tasks read, and
\* all agents at once on a few hosts.

MCAgentsFile == {"jyml", "iyml", "js", "ini", "cfg", "netcfg", "webcfg", "appset"}
MCAgentsKind ==
  "jyml" :> "yml" @@ "iyml" :> "infra.yml" @@ "js" :> "js" @@ "ini" :> "ini" @@ "cfg" :> "cfg"
  @@ "netcfg" :> "newrelic.config" @@ "webcfg" :> "web.config" @@ "appset" :> "appSettings.json"
MCAgentsKeys ==
  [Java |-> <<"jkey">>, Ruby |-> <<"rkey1", "rkey2">>, Infra |-> <<"ikey">>, Node |-> <<"nkey">>,
   Python |-> <<"pkey1", "pkey2">>, PHP |-> <<"hkey", "hkey2">>, DotNet |-> <<"dkey">>, DotNetCore |-> <<"dkey", "ckey">>]
MCAgentsKey == {"jkey", "rkey1", "rkey2", "ikey", "nkey", "pkey1", "pkey2", "hkey", "hkey2", "dkey", "ckey", "markup"}
MCAgentsMark == [DotNet |-> {"markup"}, DotNetCore |-> {"markup"}]
MCAgentsText ==
  "jyml" :> {"jkey", "rkey1", "rkey2"} @@ "iyml" :> {"ikey", "rkey1"} @@ "js" :> {"nkey"} @@ "ini" :> {"pkey1", "pkey2", "hkey", "hkey2"}
  @@ "cfg" :> {"hkey"} @@ "netcfg" :> {"dkey", "markup"} @@ "webcfg" :> {"markup"} @@ "appset" :> {"ckey"}
MCAgentsSet ==
  "jyml" :> {"rkey1", "rkey2"} @@ "iyml" :> {"ikey", "rkey1"} @@ "js" :> {} @@ "ini" :> {"pkey1", "pkey2", "hkey", "hkey2"}
  @@ "cfg" :> {"hkey"} @@ "netcfg" :> {"dkey"} @@ "webcfg" :> {} @@ "appset" :> {"ckey"}
MCAgentsLog == {"log1", "log2"}
MCAgentsLogOf == [f \in MCAgentsFile |-> IF f = "ini" THEN <<"log1">> ELSE IF f = "cfg" THEN <<"log1", "log2">> ELSE <<>>]

AgentsPlain ==
  [suites |-> {}, windows |-> TRUE, files |-> <<>>, state |-> [f \in MCAgentsFile |-> "parsed"],
   envVars |-> FALSE, jar |-> FALSE, binary |-> FALSE, jars |-> <<>>, npm |-> "absent",
   logs |-> None, gems |-> "failed", gemVersions |-> <<>>, phpLog |-> [l \in MCAgentsLog |-> "none"],
   dll |-> "absent", coreDll |-> FALSE]

AgentsStates(fs) == {[f \in MCAgentsFile |-> IF f \in fs THEN s[f] ELSE "parsed"] :
                 s \in [fs -> {"parsed", "unparsed", "unreadable"}]}

AgentsFileHost ==
  UNION {{[AgentsPlain EXCEPT !.suites = u, !.files = e, !.state = s, !.jar = j, !.binary = j,
                        !.envVars = j, !.dll = d, !.coreDll = TRUE] :
            s \in AgentsStates(Range(e)), j \in BOOLEAN, d \in {"absent", "new"}} :
           e \in {<<>>, <<"jyml", "iyml">>, <<"iyml", "js", "jyml">>, <<"ini", "cfg">>, <<"netcfg", "webcfg", "appset">>,
                  <<"webcfg">>, <<"appset">>, <<"js", "netcfg">>},
           u \in {{"Java", "Infra"}, {"Ruby", "Node"}, {"Python", "PHP"}, {"DotNet", "DotNetCore"}}}

AgentsVersionHost ==
  {[AgentsPlain EXCEPT !.suites = {"Java", "Ruby"}, !.files = <<"jyml">>, !.jars = j, !.gems = g, !.gemVersions = v] :
     j \in {<<>>, <<"bad">>, <<"old", "new">>, <<"bad", "old">>, <<"new", "bad">>},
     g \in {"failed", "absent", "listed"},
     v \in {<<"new">>, <<"new", "old">>, <<"old", "odd">>}}
  \cup {[AgentsPlain EXCEPT !.suites = {"Node", "DotNet"}, !.files = <<"js", "netcfg">>, !.npm = n, !.dll = d, !.windows = w] :
     n \in {"absent", "error", "empty", "without"} \cup {"old", "new", "odd"}, d \in {"failed"} \cup {"old", "new", "odd"}, w \in BOOLEAN}
  \cup {[AgentsPlain EXCEPT !.suites = {"Python", "PHP"}, !.files = e, !.logs = l, !.phpLog = p] :
     e \in {<<"ini">>, <<"cfg", "ini">>}, l \in {None, <<>>, <<"none", "old">>, <<"new", "old">>},
     p \in [MCAgentsLog -> {"none", "old", "new"}]}

AgentsAllHost ==
  {[AgentsPlain EXCEPT !.files = <<"jyml", "ini", "js", "netcfg">>, !.jars = <<j>>, !.npm = "new", !.logs = <<"new">>,
                 !.gems = "listed", !.gemVersions = <<"new">>, !.dll = "new", !.windows = w] :
     j \in {"old", "new"}, w \in BOOLEAN}

MCAgentsHost == AgentsFileHost \cup AgentsVersionHost \cup AgentsAllHost

=============================================================================
