---------------------------- MODULE MCJavaTasks -----------------------------
(***************************************************************************)
(* Hosts with up to two java processes that may end at any time, between   *)
(* them all ways to tell a vendor, to set a setting and to deny a file.    *)
(***************************************************************************)
EXTENDS MCFamily, Versions

CONSTANTS Unanswered, Stdout

VARIABLE running

JvmJar(app) == <<app, "newrelic.jar">>
JvmBits(owner, group, other) == [uid |-> 1, gid |-> 1, owner |-> owner, group |-> group, other |-> other]
JvmOpen == JvmBits({"r", "w", "x"}, {"r", "w", "x"}, {"r", "w", "x"})
JvmTells(vendor, version) == [vendor |-> vendor, version |-> version]

JvmProc ==
  [cmdline |-> TRUE, exe |-> TRUE, own |-> JvmTells("HotSpot", <<1, 8, 0, 292>>),
   vendor |-> None, version |-> None, mentions |-> TRUE, agents |-> <<"newrelic">>,
   user |-> [uid |-> 1, gid |-> 1], jar |-> JvmJar("app"), temp |-> None, javaTemp |-> None,
   cwd |-> <<"app", "bin">>, file |-> None, props |-> <<>>, jboss |-> None]

JvmSettings(name, key) ==
  [s \in {"app_name", "log_file_name", "license_key"} |->
     IF s = "app_name" THEN name ELSE IF s = "license_key" THEN key ELSE ""]
JvmConfig(path, found, name) == [path |-> path, found |-> found, production |-> JvmSettings(name, "k")]
JvmProp(k, v) == [key |-> k, val |-> v]

JvmProcessTask == "Java/Env/Process"
JvmServers == {"Java/Appserver/JBossAsCheck", "Java/Appserver/JbossEapCheck", "Java/AppServer/WebSphere"}
JvmSelections ==
  [settings |-> {JvmProcessTask, "Java/Config/Validate"}, typed |-> {"Java/Config/ValidateSettings"},
   vendors |-> {"Java/JVM/VendorsVersions"},
   agents |-> {JvmProcessTask, "Java/Env/Version", "Java/Config/Validate", "Java/JVM/Permissions"},
   permissions |-> {JvmProcessTask, "Java/JVM/Permissions"}, servers |-> {JvmProcessTask} \cup JvmServers]

JvmPlain ==
  [os |-> "linux", selected |-> UNION {JvmSelections[s] : s \in DOMAIN JvmSelections},
   config |-> TRUE, infra |-> FALSE, procs |-> <<JvmProc>>, listed |-> TRUE, path |-> JvmTells("OpenJDK", <<11, 0, 2>>),
   files |-> [p \in {JvmJar("app"), <<"app">>, <<"tmp">>} |-> JvmOpen],
   jars |-> {<<"tmp">>}, logs |-> <<>>,
   configs |-> <<JvmConfig(<<"app", "newrelic", "newrelic.yml">>, TRUE, "file")>>,
   environ |-> JvmSettings("", ""), typed |-> <<>>, codes |-> <<>>,
   home |-> None, search |-> "undetected", eap |-> None, dirs |-> TRUE, websphere |-> <<>>]

JvmFor(selection) == [JvmPlain EXCEPT !.selected = JvmSelections[selection]]

\* Settings need the processes, the files and the environment only.
JvmSettingHosts ==
  {[JvmFor("settings") EXCEPT !.environ = e, !.configs = c,
      !.procs = <<[JvmProc EXCEPT !.file = f, !.props = q, !.cwd = d]>>] :
     e \in {JvmSettings("", ""), JvmSettings("environ", "")},
     c \in {<<JvmConfig(<<"app", "newrelic", "newrelic.yml">>, TRUE, "file"),
              JvmConfig(<<"app", "newrelic.yml">>, FALSE, "beside")>>},
     f \in {None, <<"app", "newrelic.yml">>, <<"other.yml">>},
     q \in {<<>>, <<JvmProp("app_name", "first"), JvmProp("app_name", "last")>>},
     d \in {<<"app", "bin">>, <<"app">>, Unanswered}}
  \cup {[JvmFor("settings") EXCEPT !.configs = <<>>]}

JvmTypedHosts ==
  {[JvmFor("typed") EXCEPT !.procs = <<>>, !.typed = t, !.codes = c] :
     t \in {<<[kind |-> "Boolean", value |-> v]>> : v \in {"true", "int", "word"}}
           \cup {<<[kind |-> "AppName", value |-> "nil"], [kind |-> "Boolean", value |-> "int"]>>},
     c \in {<<>>, <<<<404>>, <<500, 503>>>>, <<<<503, 500>>>>, <<<<404, Bad>>>>, <<<<1, 2, 3>>>>}}

JvmVendorProcs ==
  {[JvmProc EXCEPT !.own = a] :
     a \in {JvmTells("HotSpot", <<1, 7, 0, 80>>), JvmTells("IBM", <<8, 0, 5>>), JvmTells(None, <<8>>),
            JvmTells("Coretto", <<17, 0, 1>>), JvmTells("JRockit", <<1, 6, 0, 45>>),
            JvmTells("Zulu", <<12, 0, Bad>>)}}
  \cup {[JvmProc EXCEPT !.own = Unanswered, !.exe = x, !.vendor = v, !.version = t] :
          x \in BOOLEAN, v \in {None, "Oracle"}, t \in {None, <<1, 5, 0, 7>>, Unanswered}}
  \cup {[JvmProc EXCEPT !.cmdline = FALSE]}
JvmVendorHosts ==
  {[JvmFor("vendors") EXCEPT !.config = FALSE, !.os = s, !.path = t, !.procs = q] :
     s \in {"linux", "darwin"}, t \in {Unanswered, JvmTells("OpenJDK", <<11, 0, 2>>)},
     q \in {<<v>> : v \in JvmVendorProcs} \cup {<<JvmProc, v>> : v \in JvmVendorProcs}}

JvmAgentHosts ==
  {[JvmFor("agents") EXCEPT
      !.procs = <<JvmProc, [JvmProc EXCEPT !.agents = a, !.mentions = m]>>, !.listed = l] :
     a \in {<<>>, <<"other">>, <<"newrelic", "other">>, <<"other", "newrelic">>}, m \in BOOLEAN, l \in BOOLEAN}

JvmFiles ==
  {JvmOpen, JvmBits({"r"}, {}, {}), JvmBits({"w", "x"}, {"r", "x"}, {}),
   JvmBits({}, {"r", "w", "x"}, {}), JvmBits({"x"}, {}, {"r", "w", "x"})}
JvmPermissionHosts ==
  {[JvmFor("permissions") EXCEPT
      !.procs = <<JvmProc, [JvmProc EXCEPT !.user = u, !.jar = JvmJar("b"), !.javaTemp = t]>>,
      !.files = (JvmJar("b") :> f @@ <<"b">> :> f) @@ JvmPlain.files, !.logs = l] :
     u \in {Unanswered, [uid |-> 1, gid |-> 1], [uid |-> 2, gid |-> 1], [uid |-> 2, gid |-> 2]},
     f \in JvmFiles, t \in {None, <<"b">>}, l \in {<<>>, <<<<"gone">>, Stdout>>}}

JvmHome(named, readme) == [named |-> named, readme |-> readme]
JvmServerHosts ==
  {[JvmFor("servers") EXCEPT !.home = h, !.eap = e, !.search = q, !.websphere = w, !.dirs = h # None] :
     h \in {None, JvmHome(<<7, 1, 1>>, <<4, 0, 2>>), JvmHome(None, <<4, 0, 2>>), JvmHome(None, None)},
     e \in {None, Unanswered, <<7, 1, 2, Bad>>, <<5, 1>>, <<Bad, 4>>}, q \in {"found", "failed", "undetected"},
     w \in {<<>>, <<None, <<9, 0, 5>>>>}}
  \cup {[JvmFor("servers") EXCEPT !.procs = <<JvmProc, [JvmProc EXCEPT !.jboss = JvmHome(v, None)]>>,
           !.websphere = w, !.os = s] :
          v \in {None, <<8, 0, 0>>, <<6, 1, 0>>}, w \in {<<None>>, <<<<>>>>, <<<<8, 5>>>>}, s \in {"darwin", "windows"}}

JvmHost ==
  {JvmPlain} \cup JvmSettingHosts \cup JvmTypedHosts \cup JvmVendorHosts \cup JvmAgentHosts
    \cup JvmPermissionHosts \cup JvmServerHosts

JvmTasks == INSTANCE JavaTasks WITH
  Host <- JvmHost, Failed <- Unanswered

JvmVars == <<running>>
JvmIdle == running = {}

=============================================================================
