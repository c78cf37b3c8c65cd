--------------------------- MODULE DotNetProfiler ---------------------------
(***************************************************************************)
(* Whether applications are profiled by the .NET agents: the tasks of      *)
(* dotnet/profiler and dotnet/w3wp, which read the registry and look into  *)
(* worker processes, and those of dotnet/log and dotnetcore/log            *)
(* (src/tasks).                                                            *)
(*                                                                         *)
(* Worker processes may end between the two tasks that look at them. The   *)
(* results of the tasks that detect an agent (see AgentDetection) and of   *)
(* Base/Env/CheckWindowsAdmin (see HostEnvironment) are part of the host.  *)
(***************************************************************************)
EXTENDS TaskFamily, Naturals, Sequences, SequencesExt, FiniteSets

CONSTANTS
  Host, None,
  Closed,  \* a key of the registry that cannot be opened, or has no values
  Words    \* a value of the registry that is no integer

VARIABLE alive  \* the worker processes that run

Setting == [enabled : BOOLEAN, profiler : {"current", "old", "other"}, path : {"default", "other", None}]
Value == Nat \cup {Words}
Pid == Nat

HostType ==
  [agents : SUBSET {"DotNet", "DotNetCore"},  \* those installed, with a configuration
   was : Setting \cup {Closed, None},         \* None without the value Environment
   w3svc : Setting \cup {Closed, None},
   environ : Setting \cup {Closed},
   crypto : Seq(Value \cup {Closed}),         \* SchUseStrongCrypto, 64 and 32 bits
   tls : [enabled : Value, byDefault : Value] \cup {Closed},
   admin : BOOLEAN, listed : BOOLEAN,         \* the processes can be listed
   workers : [Pid -> [open : BOOLEAN, modules : SUBSET {"profiler", "mscoree"}]],
   configs : Seq([path : STRING, agentFile : BOOLEAN, level : {"valid", "invalid"}])]

vars == <<host, results, process, alive>>

Was == "DotNet/Profiler/WasRegKey"
W3svc == "DotNet/Profiler/W3svcRegKey"
EnvVar == "DotNet/Profiler/EnvVarKey"
Possible == "DotNet/Profiler/InstrumentationPossible"
TLS == "DotNet/Profiler/TLSRegKey"
Collect == "DotNet/W3wp/Collect"
Validate == "DotNet/W3wp/Validate"
LevelCollect(a) == IF a = "DotNet" THEN "DotNet/Log/LevelCollect" ELSE "DotNetCore/Log/LevelCollect"
LevelValidate(a) == IF a = "DotNet" THEN "DotNet/Log/LevelValidate" ELSE "DotNetCore/Log/LevelValidate"

Agents == {"DotNet", "DotNetCore"}
ProfilerTasks == {Was, W3svc, EnvVar, Possible, TLS, Collect, Validate}

Init == host \in Host /\ NothingRun /\ alive = DOMAIN host.workers

Installed == "DotNet" \in host.agents

RunIf(there, t, dependencies, r) ==
  /\ Ready(t, dependencies)
  /\ Return(t, IF there THEN r ELSE Verdict("None"))
  /\ UNCHANGED <<host, alive>>

-----------------------------------------------------------------------------
(* Keys for the profiler *)

KeysOf(setting) ==
  CASE setting = Closed -> "Error"
    [] setting = None -> "Warning"
    [] OTHER -> IF setting.enabled /\ setting.profiler = "current" /\ setting.path # None
                THEN "Success" ELSE "Warning"

DotNetProfilerWasRegKey == RunIf(Installed, Was, {}, Verdict(KeysOf(host.was)))
DotNetProfilerW3svcRegKey == RunIf(Installed, W3svc, {}, Verdict(KeysOf(host.w3svc)))

\* Here the path is that of the installer, and the profiler may be an old one.
ValidateEnvInstrumentationKeys(setting) ==
  CASE setting = Closed -> "Error"
    [] setting # Closed /\ setting.enabled /\ setting.path = "default"
       /\ setting.profiler \in {"current", "old"} -> "Success"
    [] OTHER -> "Warning"

DotNetProfilerEnvVarKey ==
  RunIf(Installed, EnvVar, {}, Verdict(ValidateEnvInstrumentationKeys(host.environ)))

EitherOfIIS ==
  RunIf(Installed, Possible, {Was, W3svc, EnvVar},
    Verdict(IF \E t \in {Was, W3svc, EnvVar} : Upstream(t).status = "Success"
            THEN "Success" ELSE "Failure"))
DotNetProfilerInstrumentationPossible ==
  RunIf(Installed, Possible, {Was, W3svc, EnvVar},
    Verdict(IF \/ Upstream(EnvVar).status = "Success"
               \/ \A t \in {Was, W3svc} : Upstream(t).status = "Success"
            THEN "Success" ELSE "Failure"))

-----------------------------------------------------------------------------
(* Keys for TLS 1.2 *)

\* A value that is no integer is handed on as no value and no error, because the
\* error returned is that of opening the key; using it panics.
Missing(i) == host.crypto[i] = Words
Disabled(i) == ~Missing(i) /\ host.crypto[i] # 1

CryptoPanics == Missing(1) \/ (~Disabled(1) /\ Missing(2))
TLSPanics == host.tls # Closed /\ Words \in {host.tls.enabled, host.tls.byDefault}

CompareTLSRegKeys(tls) ==
  CASE tls.enabled = 1 /\ tls.byDefault = 0 -> "Success"
    [] tls.enabled = 0 /\ tls.byDefault = 1 -> "Failure"
    [] OTHER -> "Warning"

SecondKeyUnchecked ==
  CASE ~Installed -> "None"
    [] Installed /\ host.crypto[1] = Closed -> "Error"
    [] OTHER -> IF CryptoPanics \/ (~Disabled(1) /\ host.crypto[2] = Closed) THEN "panic" ELSE "Failure"
DotNetTLS ==
  CASE ~Installed -> "None"
    [] Installed /\ Closed \in Range(host.crypto) -> "Error"
    [] Installed /\ Closed \notin Range(host.crypto) /\ CryptoPanics -> "panic"
    [] OTHER -> IF Disabled(1) \/ Disabled(2) THEN "Failure"
                ELSE IF host.tls = Closed THEN "Error"
                ELSE IF TLSPanics THEN "panic" ELSE CompareTLSRegKeys(host.tls)

DotNetTLSRegKey ==
  /\ Ready(TLS, {})
  /\ IF DotNetTLS = "panic" THEN Panic ELSE Return(TLS, Verdict(DotNetTLS))
  /\ UNCHANGED <<host, alive>>

-----------------------------------------------------------------------------
(* Worker processes of IIS *)

WorkerEnds ==
  /\ process = "running" /\ Validate \notin DOMAIN results
  /\ \E p \in alive : alive' = alive \ {p}
  /\ UNCHANGED <<host, results, process>>

DotNetW3wpCollect ==
  RunIf(Installed, Collect, {},
    IF host.listed /\ alive # {} THEN With("Success", alive)
    ELSE Verdict(IF host.admin THEN "Warning" ELSE "Error"))

\* A process that ended, or that the user must not open, has no handle.
Opened(pids) == {p \in pids \cap alive : host.workers[p].open}
Attached(pids) == {p \in Opened(pids) : host.workers[p].modules # {}}

GoneNotCounted(pids) == {p \in Opened(pids) : host.workers[p].modules # {"profiler", "mscoree"}}
Failing(pids) ==
  (pids \ Opened(pids)) \cup {p \in Opened(pids) : host.workers[p].modules # {"profiler", "mscoree"}}

WorkersVerdict(pids) ==
  CASE Failing(pids) = {} /\ Attached(pids) = {} -> "None"
    [] Failing(pids) = {} /\ Attached(pids) # {} -> "Success"
    [] Failing(pids) # {} /\ Attached(pids) = {} -> "Failure"
    [] OTHER -> "Warning"

DotNetW3wpValidate ==
  RunIf(Holds(Upstream(Collect)), Validate, {Collect},
    Verdict(WorkersVerdict(Upstream(Collect).payload)))

-----------------------------------------------------------------------------
(* Log levels of an agent *)

\* The same file may be there twice.
LevelsFound ==
  {[path |-> c.path, level |-> c.level] : c \in {d \in Range(host.configs) : d.agentFile}}

LogLevelCollect(a) ==
  RunIf(a \in host.agents, LevelCollect(a), {},
    IF LevelsFound = {} THEN Verdict("None") ELSE With("Info", LevelsFound))

OneInvalidFails(levels) ==
  IF \E l \in levels : l.level = "invalid" THEN Verdict("Failure") ELSE With("Success", levels)
LogLevelVerdict(levels) ==
  LET valid == {l \in levels : l.level = "valid"}
  IN  CASE valid = levels -> With("Success", valid)
        [] valid = {} /\ levels # {} -> Verdict("Failure")
        [] OTHER -> With("Warning", valid)

LogLevelValidate(a) ==
  RunIf(a \in host.agents /\ Upstream(LevelCollect(a)).status = "Info",
    LevelValidate(a), {LevelCollect(a)}, LogLevelVerdict(Upstream(LevelCollect(a)).payload))

-----------------------------------------------------------------------------

Tasks ==
  ProfilerTasks \cup {LevelCollect(a) : a \in Agents} \cup {LevelValidate(a) : a \in Agents}
Ended == (DOMAIN results = Tasks \/ process = "panicked") /\ UNCHANGED vars

Next ==
  \/ DotNetProfilerWasRegKey \/ DotNetProfilerW3svcRegKey
  \/ DotNetProfilerEnvVarKey \/ DotNetProfilerInstrumentationPossible
  \/ DotNetTLSRegKey
  \/ WorkerEnds \/ DotNetW3wpCollect \/ DotNetW3wpValidate
  \/ \E a \in Agents : LogLevelCollect(a) \/ LogLevelValidate(a)
  \/ Ended

Spec == Init /\ [][Next]_vars /\ WF_vars(Next)

-----------------------------------------------------------------------------
(* Properties *)

TypeOK ==
  /\ host \in Host /\ process \in {"running", "panicked"}
  /\ alive \subseteq DOMAIN host.workers
  /\ DOMAIN results \subseteq Tasks
  /\ \A t \in DOMAIN results : results[t].status \in Status

\* DotNet/Profiler/InstrumentationPossible: "IIS .Net instrumentation keys are
\* correctly set" takes the keys of both services, and a failure means that
\* neither IIS nor the system has what the profiler needs.
InstrumentationBySettings ==
  LET iis == \A s \in {host.was, host.w3svc} :
               s \notin {Closed, None} /\ s.enabled /\ s.profiler = "current" /\ s.path # None
      wide == /\ host.environ # Closed /\ host.environ.enabled
              /\ host.environ.path = "default" /\ host.environ.profiler \in {"current", "old"}
  IN  Possible \in DOMAIN results /\ Installed =>
        (Upstream(Possible).status = "Success" <=> iis \/ wide)

\* DotNet/Profiler/TLSRegKey panics only at a value that is no integer
\* (validateKeys_windows.go:55); a key that is missing is an error.
TLSPanicHasCause ==
  process = "panicked" =>
    Words \in Range(host.crypto) \cup
                (IF host.tls = Closed THEN {} ELSE {host.tls.enabled, host.tls.byDefault})

\* DotNet/W3wp/Validate: success only if every process that was collected had the
\* modules attached while it still ran, and failure only if none had.
WorkersAccounted ==
  LET pids == Upstream(Collect).payload
      Has(p) == host.workers[p].open /\ host.workers[p].modules = {"profiler", "mscoree"}
  IN  Validate \in DOMAIN results /\ Holds(Upstream(Collect)) =>
        /\ Upstream(Validate).status \in {"Success", "Warning", "Failure"}
        /\ Upstream(Validate).status = "Success" => pids \subseteq alive /\ \A p \in pids : Has(p)
        /\ Upstream(Validate).status = "Failure" => \A p \in pids \cap alive : ~Has(p)

\* LevelValidate: a level that is invalid in one file does not make those of the others
\* count for nothing ("some log levels were invalid, some were valid"), and what is
\* handed on are exactly the valid levels.
LevelsByFile ==
  \A a \in Agents :
    Upstream(LevelValidate(a)).status \in {"Success", "Warning", "Failure"} =>
      LET valid == {l \in LevelsFound : l.level = "valid"}
          r == Upstream(LevelValidate(a))
      IN  /\ r.status = "Failure" <=> valid = {}
          /\ valid # {} => Holds(r) /\ r.payload = valid

=============================================================================
