------------------------------ MODULE MCDotNet ------------------------------
(***************************************************************************)
(* The requirements of the .NET agents, then their profiler.               *)
(***************************************************************************)
EXTENDS MCFamily, Versions

CONSTANTS Unreadable, Closed, Words

VARIABLE alive

-----------------------------------------------------------------------------
\* Hosts with the .NET agent, the .NET Core agent or both, that meet the
\* requirements but for one or two of them.

DotNetFile(r, f, p) == [runtime |-> r, framework |-> f, project |-> p]
DotNetWeb(v) == DotNetFile(v, None, None)
DotNetApp(v) == DotNetFile(None, v, None)
DotNetProject(v) == DotNetFile(None, None, v)
DotNetSilent == DotNetFile(None, None, None)

\* Meets all requirements.
DotNetMet ==
  [installed |-> TRUE, core |-> FALSE, agent |-> <<7, 0, 2, 0>>, os |-> "windows", platform |-> "windows",
   server |-> TRUE, osVersion |-> <<10, 0, 143>>, arch |-> "AMD64", dirs |-> TRUE,
   files |-> <<DotNetWeb(<<4, 6, 1>>)>>, names |-> {"v4", "v3.5"}, release |-> 394254,
   dlls |-> <<<<"Npgsql.dll", <<1, 0, 0, 0>>>>>>]

DotNetTargetHosts ==
  {[DotNetMet EXCEPT !.agent = a, !.files = f] :
     a \in {<<6, 9, 0, 0>>, <<7, 0, 0, 0>>, <<5, 0, 9, 0>>},
     f \in {<<DotNetWeb(<<4, 0>>)>>, <<DotNetWeb(<<4, 0>>), DotNetApp(<<4, 7, 2>>)>>,
            <<DotNetApp(<<4, 5>>), DotNetProject(<<8, 0>>)>>,
            <<DotNetSilent, DotNetProject(<<4, 8>>), DotNetWeb(Unreadable)>>}}
  \cup {[DotNetMet EXCEPT !.files = f] :
     f \in {<<>>, <<DotNetSilent>>, <<DotNetSilent, DotNetApp(Unreadable)>>, <<DotNetProject(<<8>>)>>,
            <<DotNetWeb(<<4, Bad>>)>>}}
  \cup {[DotNetMet EXCEPT !.agent = Unreadable], [DotNetMet EXCEPT !.dirs = FALSE],
        [DotNetMet EXCEPT !.installed = FALSE]}

DotNetSystemHosts ==
  {[DotNetMet EXCEPT !.osVersion = v, !.core = TRUE] :
     v \in {None, <<>>, <<10, 0>>, <<6, 1, 7601>>, <<5, 1>>, <<5, 2, 3790>>, <<10>>, <<11, 0>>, <<Bad, 1>>}}
  \cup {[DotNetMet EXCEPT !.arch = a, !.core = TRUE] : a \in {Unreadable, "x86", "ARM64"}}
  \cup {[DotNetMet EXCEPT !.names = n, !.release = r] :
          n \in {Unreadable, {}, {"v4"}}, r \in {None, 378388, 460798}}

DotNetDllHosts ==
  {[DotNetMet EXCEPT !.dlls = d] :
     d \in {<<>>, <<<<"MongoDB.Driver.dll", <<1, 10, 0, 0>>>>>>,
            <<<<"MongoDB.Driver.dll", Unreadable>>, <<"CouchbaseNetClient.dll", <<1, 9, 0, 0>>>>>>,
            <<<<"MongoDB.Driver.dll", <<2, 8, 0, 0>>>>, <<"Npgsql.dll", Unreadable>>>>,
            <<<<"MongoDB.Driver.dll", <<2, 7, 3, 0>>>>, <<"RabbitMQ.Client.dll", <<3, 4, 9, 0>>>>>>,
            <<<<"RabbitMQ.Client.dll", <<4, 0, 0, 0>>>>, <<"NServiceBus.Core.dll", <<6, 0, 0, 0>>>>>>,
            <<<<"System.Messaging.dll", Unreadable>>>>, <<<<"Npgsql.dll", Unreadable>>>>,
            <<<<"Microsoft.Owin.dll", <<2, 1, 0, 0>>>>>>, <<<<"Microsoft.Owin.dll", <<3, 0, 0, 0>>>>>>,
            <<<<"Microsoft.Owin.dll", Unreadable>>>>}}

DotNetLinuxHosts ==
  {[DotNetMet EXCEPT !.installed = FALSE, !.core = TRUE, !.os = s, !.platform = p, !.osVersion = v, !.arch = a] :
     s \in {"linux", "darwin", "solaris"},
     p \in {"ubuntu", "debian", "linuxmint", "opensuse", "suse", "centos", "fedora", "alpine"},
     v \in {<<20, 10>>, <<8, 7>>, <<8, 6>>, <<42, Bad>>, <<7>>, <<27>>, <<17, 4>>, <<12, 5>>, <<Bad>>},
     a \in {"x86_64", "armv7l"}}

DotNetHost == {DotNetMet} \cup DotNetTargetHosts \cup DotNetSystemHosts \cup DotNetDllHosts \cup DotNetLinuxHosts

DotNetTasks == INSTANCE DotNetRequirements WITH
  Host <- DotNetHost

-----------------------------------------------------------------------------
\* Registries with all, some or none of the keys, and three worker processes that
\* may end at any time.

ProfilerSet == [enabled |-> TRUE, profiler |-> "current", path |-> "default"]
ProfilerSettings ==
  {Closed, ProfilerSet, [ProfilerSet EXCEPT !.profiler = "old"], [ProfilerSet EXCEPT !.path = "other"]}
ProfilerBoth == {"profiler", "mscoree"}

ProfilerPlain ==
  [agents |-> {"DotNet"}, was |-> ProfilerSet, w3svc |-> None, environ |-> Closed,
   crypto |-> <<1, 1>>, tls |-> [enabled |-> 1, byDefault |-> 0], admin |-> TRUE, listed |-> TRUE,
   workers |-> [p \in {} |-> None], configs |-> <<>>]
ProfilerAbsent == [ProfilerPlain EXCEPT !.agents = {"DotNetCore"}]

ProfilerKeyHosts ==
  {[ProfilerPlain EXCEPT !.was = w, !.w3svc = v, !.environ = e] :
     w \in ProfilerSettings, v \in ProfilerSettings \cup {None}, e \in ProfilerSettings}

ProfilerTLSHosts ==
  {[ProfilerPlain EXCEPT !.crypto = <<c, d>>, !.tls = t] :
     c \in {0, 1, Words, Closed}, d \in {0, 1, Words, Closed},
     t \in {Closed} \cup [enabled : {0, 1, Words}, byDefault : {0, 1}]}

ProfilerWorkerHosts ==
  {[ProfilerPlain EXCEPT !.admin = a, !.listed = l,
      !.workers = [p \in 1 .. 3 |->
        [open |-> p # 3 \/ a, modules |-> IF p = 1 THEN m ELSE ProfilerBoth]]] :
     a \in BOOLEAN, l \in BOOLEAN, m \in SUBSET ProfilerBoth}
  \cup {[ProfilerPlain EXCEPT !.workers = [p \in {1} |-> [open |-> TRUE, modules |-> m]]] :
          m \in SUBSET ProfilerBoth}

ProfilerLevel(f, l) == [path |-> f, agentFile |-> TRUE, level |-> l]
ProfilerLevelHosts ==
  {[h EXCEPT !.configs = c] :
     h \in {ProfilerAbsent, [ProfilerPlain EXCEPT !.agents = {"DotNet", "DotNetCore"}]},
     c \in {<<>>, <<[path |-> "web", agentFile |-> FALSE, level |-> "invalid"]>>,
            <<ProfilerLevel("a", "valid"), ProfilerLevel("a", "valid")>>,
            <<ProfilerLevel("a", "valid"), ProfilerLevel("b", "invalid")>>,
            <<ProfilerLevel("b", "invalid"), ProfilerLevel("b", "invalid")>>}}

ProfilerHost == ProfilerKeyHosts \cup ProfilerTLSHosts \cup ProfilerWorkerHosts \cup ProfilerLevelHosts

ProfilerTasks == INSTANCE DotNetProfiler WITH
  Host <- ProfilerHost

ProfilerVars == <<alive>>
ProfilerIdle == alive = {}

=============================================================================
