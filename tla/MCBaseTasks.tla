---------------------------- MODULE MCBaseTasks -----------------------------
(***************************************************************************)
(* Tasks of the families base/config, base/log and base/env: configuration *)
(* files, logs, and the host's environment.                                *)
(***************************************************************************)
EXTENDS BaseTasks, Integers, TLC

-----------------------------------------------------------------------------
\* A yml and a js file, an .exe.config, a web.config, the configuration they
\* name, a file below node_modules, an unknown one and a directory.

MCConfigPath == {"yml", "js", "exe", "web", "agent", "module", "other", "dir"}
MCConfigExtension ==
  [p \in MCConfigPath |-> CASE p \in {"yml", "module"} -> "yml" [] p = "js" -> "js"
                      [] p \in {"exe", "web", "agent"} -> "xml" [] OTHER -> "none"]
MCConfigKind == [p \in MCConfigPath |-> CASE p = "exe" -> "exe" [] p = "web" -> "web" [] OTHER -> "other"]

ConfigGood == [parses |-> TRUE, hsm |-> "true", levels |-> <<"odd", "finest">>,
         app |-> <<[common |-> FALSE, names |-> <<"default">>], [common |-> TRUE, names |-> <<"shop">>]>>]
ConfigPlain == [parses |-> TRUE, hsm |-> "odd", levels |-> <<"info">>,
          app |-> <<[common |-> FALSE, names |-> <<"default">>]>>]
ConfigBare == [ConfigPlain EXCEPT !.app = <<>>, !.levels = <<>>]
ConfigBroken == [ConfigGood EXCEPT !.parses = FALSE]

MCConfigDisk ==
  {[p \in MCConfigPath |->
     [state |-> CASE p = "dir" -> "dir" [] p = "agent" -> s [] p = "yml" -> t [] OTHER -> "file",
      content |-> CASE p = "yml" -> c [] p = "js" -> d [] OTHER -> ConfigBare]] :
     s \in {"file", "missing"}, t \in {"file", "locked"},
     c \in {ConfigGood, ConfigBroken}, d \in {ConfigPlain, ConfigBroken}}

ConfigQuiet == [override |-> None, standard |-> {}, secure |-> {}, agentPath |-> None,
          sysProps |-> <<>>, envVars |-> <<>>, inside |-> {"yml", "module"},
          noConfigVar |-> FALSE, appEnv |-> None, appProps |-> <<>>, hsmEnv |-> "absent"]

MCConfigHost ==
  {[ConfigQuiet EXCEPT !.standard = f, !.secure = g, !.agentPath = a, !.sysProps = s, !.envVars = e] :
     f \in {{}, {"yml", "js"}, {"js"}, {"module"}}, g \in {{}, {"exe"}, {"exe", "web"}}, a \in {None, "agent"},
     s \in {<<>>, <<"agent">>}, e \in {<<>>, <<"dir", "js">>, <<"exe", "agent">>}} \cup
  {[ConfigQuiet EXCEPT !.override = o] : o \in {"yml", "agent", "other"}} \cup
  {[ConfigQuiet EXCEPT !.noConfigVar = TRUE, !.appEnv = n, !.hsmEnv = v] :
     n \in {"shop", None}, v \in {"true", "false", "odd"}} \cup
  {[ConfigQuiet EXCEPT !.standard = {"yml"}, !.appEnv = n, !.appProps = p] :
     n \in {"shop", None}, p \in {<<None, "default", "shop">>, <<None, Blank, "shop">>, <<None>>}} \cup
  {[ConfigQuiet EXCEPT !.standard = {"yml", "other"}, !.appEnv = "shop"], [ConfigQuiet EXCEPT !.standard = {"other"}]}

MCConfigModules == {"module"}
MCConfigFragile == {"yml", "agent"}
MCConfigName == {"shop", "default"}
MCConfigDefaultName == {"default"}

-----------------------------------------------------------------------------
\* Two directories that are walked, one below the other, and one that is not;
\* hosts that differ in their settings, in their files or in their ages, so that
\* every source of paths meets every other one.

MCLogDir == {"cwd", "varlog", "app"}
MCLogStandard == {"cwd", "varlog"}
MCLogBelow == "cwd" :> {"cwd"} @@ "varlog" :> {"varlog"} @@ "app" :> {"app"}
MCLogName == {"agent.log", "my.log", "Profiler.log", "syslog", "c++.log"}
MCLogKind ==
  "agent.log" :> "agent" @@ "Profiler.log" :> "profiler" @@ "syslog" :> "secure"
  @@ "my.log" :> "other" @@ "c++.log" :> "other"
MCLogLike == [n \in MCLogName |-> IF n = "c++.log" THEN {} ELSE {n}]
MCLogEmpty == [dir |-> "", name |-> ""]
LogSilent == [k \in {} |-> MCLogEmpty]

LogP(d, n) == [dir |-> d, name |-> n]
LogD(d) == LogP(d, "")
LogN(n) == LogP("", n)
LogF(days) == [days |-> days, open |-> TRUE, reports |-> TRUE]
LogClosed == [LogF(0) EXCEPT !.open = FALSE]

LogPlain ==
  [files |-> (LogP("varlog", "syslog") :> LogF(0)), env |-> LogSilent, shell |-> TRUE, java |-> <<>>,
   configs |-> <<>>, slash |-> TRUE, logpath |-> MCLogEmpty, limit |-> 7, yes |-> FALSE, rotates |-> FALSE]
LogConf == [full |-> MCLogEmpty, dir |-> MCLogEmpty, name |-> MCLogEmpty, net |-> FALSE]

LogSecret == LogP("varlog", "syslog") :> LogF(0)
LogOwn == LogP("app", "my.log") :> LogF(0)
LogUsual == LogP("varlog", "agent.log") :> LogF(2)

\* What each source says, over files that are there, closed or missing.
LogEnvOf == {LogSilent, "NEW_RELIC_LOG" :> LogP("varlog", "syslog"), "NEW_RELIC_LOG" :> LogN("stdout"),
  "NEW_RELIC_LOG_FILE_PATH" :> LogD("app"), "NEW_RELIC_LOG_FILE_NAME" :> LogN("my.log"),
  "NEW_RELIC_LOG_FILE_PATH" :> LogD("varlog") @@ "NEW_RELIC_LOG_FILE_NAME" :> LogN("syslog"),
  "NEW_RELIC_LOG_FILE_PATH" :> LogD("app") @@ "NEW_RELIC_LOG_FILE_NAME" :> LogN("my.log")}
LogProp(k, v) == [key |-> k, val |-> v]
LogJavaOf == {<<>>, <<<<LogProp("-Dnewrelic.logfile", LogP("app", "my.log"))>>, <<LogProp("-Dnewrelic.other", LogN("my.log"))>>>>,
  <<<<LogProp("-Dnewrelic.config.log_file_path", LogD("app")), LogProp("-Dnewrelic.config.log_file_name", LogN("my.log"))>>>>,
  <<<<LogProp("-Dnewrelic.config.log_file_path", LogD("app"))>>>>, <<<<LogProp("-Dnewrelic.config.log_file_name", LogN("my.log"))>>>>}
LogConfOf == {<<>>, <<[LogConf EXCEPT !.full = LogP("varlog", "syslog")]>>,
  <<[LogConf EXCEPT !.name = LogN("agent.log")], [LogConf EXCEPT !.name = LogN("my.log")]>>,
  <<[LogConf EXCEPT !.dir = LogD("app"), !.name = LogN("my.log")], [LogConf EXCEPT !.dir = LogD("varlog"), !.net = TRUE]>>}
LogFilesOf == {LogSecret, LogSecret @@ LogOwn @@ LogUsual, LogSecret @@ (LogP("app", "my.log") :> LogClosed) @@ LogUsual}

LogSettingHost ==
  {[LogPlain EXCEPT !.env = e, !.java = j, !.configs = c, !.files = f] :
     e \in LogEnvOf, j \in LogJavaOf, c \in LogConfOf, f \in LogFilesOf}

\* The ages of three logs in the directories that are walked.
LogAgeHost ==
  {[LogPlain EXCEPT !.files = (LogP("varlog", "agent.log") :> LogF(a)) @@ (LogP("cwd", "agent.log") :> LogF(b))
      @@ (LogP("varlog", "Profiler.log") :> LogF(c)) @@ (LogP("cwd", "Profiler.log") :> LogF(10)), !.limit = l] :
     a \in {0, 3, 9}, b \in {5, 9}, c \in {0, 2}, l \in {1, 7}}
  \cup {[LogPlain EXCEPT !.files = (LogP("varlog", "agent.log") :> LogF(a)) @@ (LogP("cwd", "agent.log") :> LogF(b))] :
     a \in {0, 3, 9}, b \in {5, 9}}

LogOtherHost ==
  {[LogPlain EXCEPT !.files = LogSecret @@ LogOwn, !.logpath = v] : v \in {LogP("app", "my.log"), LogP("app", "c++.log")}}
  \cup {[LogPlain EXCEPT !.files = <<>>, !.shell = FALSE],
        [LogPlain EXCEPT !.yes = TRUE, !.env = ("NEW_RELIC_LOG" :> LogP("varlog", "syslog"))],
        [LogPlain EXCEPT !.java = <<<<LogProp("-Dnewrelic.other", MCLogEmpty)>>>>],
        [LogPlain EXCEPT !.rotates = TRUE, !.files = (LogP("varlog", "agent.log") :> LogF(9))],
        [LogPlain EXCEPT !.files = LogOwn, !.env = ("NEW_RELIC_LOG_FILE_PATH" :> LogD("app")
           @@ "NEW_RELIC_LOG_FILE_NAME" :> LogN("c++.log"))]}

MCLogHost == LogSettingHost \cup LogAgeHost \cup LogOtherHost

MCLogCwd == "cwd"
MCLogInvalid == {"c++.log"}

-----------------------------------------------------------------------------
\* Hosts that tell about themselves in time, late or not at all, and users of all
\* kinds.

EnvPlain ==
  [os |-> "linux", timeout |-> None, takes |-> [host |-> 1, cpu |-> 1, memory |-> 2], broken |-> {},
   nodeAgent |-> TRUE, server |-> FALSE, version |-> "recent", drive |-> FALSE, users |-> {"other"},
   login |-> "user", current |-> "user", environ |-> {"WEBSITE_SITE_NAME"}, aws |-> 404,
   init |-> "Systemd", sestatus |-> "permissive", iis |-> "closed"]
EnvWindows == [EnvPlain EXCEPT !.os = "windows", !.environ = None, !.iis = "version"]

EnvInfoHosts ==
  {[h EXCEPT !.timeout = t, !.takes = [host |-> s, cpu |-> s + 1, memory |-> s + 1], !.broken = b,
             !.server = v] :
     h \in {EnvWindows}, t \in {None, Failed, 0, 1, 3, 90}, s \in {0, 2, 70},
     b \in {{}, {"host"}, {"cpu"}}, v \in BOOLEAN}
  \cup {[EnvPlain EXCEPT !.os = o, !.broken = b, !.version = v, !.nodeAgent = n] :
          o \in {"linux", "darwin"}, b \in {{}, {"host"}, {"memory"}}, v \in {"old", "recent"}, n \in BOOLEAN}

EnvUserHosts ==
  {[EnvWindows EXCEPT !.drive = d, !.users = u, !.login = l] :
     d \in BOOLEAN, l \in {"admin", "user", Failed},
     u \in {Failed, {}, {"other"}, {"other", "of Administrator"}, {"no pattern"}}}
  \cup {[EnvPlain EXCEPT !.os = o, !.current = c] :
          o \in {"linux", "darwin"}, c \in {"root", "user", Failed}}

EnvOtherHosts ==
  {[EnvPlain EXCEPT !.init = i, !.sestatus = s, !.aws = a, !.environ = e] :
     i \in {"OpenRC", "other", Failed}, s \in {"enforcing", "not found", Failed},
     a \in {200, Failed}, e \in {{}, None}}
  \cup {[EnvWindows EXCEPT !.iis = "no version"]}

MCEnvHost == EnvInfoHosts \cup EnvUserHosts \cup EnvOtherHosts

-----------------------------------------------------------------------------
Spec == BaseSpec

\* A log the user kept back is not collected by the other task (copy.go:220).
DeclinedNotCollected ==
  Of("log") => LogTasks!DeclinedNotCollected

=============================================================================
