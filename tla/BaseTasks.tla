----------------------------- MODULE BaseTasks ------------------------------
(***************************************************************************)
(* The tasks of base/config, base/log and base/env put together: they find *)
(* configuration files and logs, read the first and copy both, and tell    *)
(* about the host. A run is of one family, as in MCFamily. What the user   *)
(* and the tasks that follow rely on is stated by theme.                   *)
(***************************************************************************)
EXTENDS MCFamily

CONSTANTS
  \* configuration files (ConfigFiles)
  ConfigPath, ConfigExtension, ConfigKind, ConfigModules, ConfigFragile, ConfigHost, ConfigDisk,
  ConfigName, ConfigDefaultName, Blank,
  \* logs (BaseLog)
  LogDir, LogCwd, LogStandard, LogBelow, LogName, LogKind, LogLike, LogInvalid, LogHost, LogEmpty,
  \* the host and the user (HostEnvironment)
  EnvHost, Failed

VARIABLES
  disk, refused, named,  \* of ConfigFiles
  withheld, collected    \* of BaseLog

ConfigTasks == INSTANCE ConfigFiles WITH
  Path <- ConfigPath, Extension <- ConfigExtension, Kind <- ConfigKind, Modules <- ConfigModules,
  Fragile <- ConfigFragile, Host <- ConfigHost, Disk <- ConfigDisk, Name <- ConfigName,
  DefaultName <- ConfigDefaultName, asked <- refused

LogTasks == INSTANCE BaseLog WITH
  Dir <- LogDir, Cwd <- LogCwd, Standard <- LogStandard, Below <- LogBelow, Name <- LogName,
  Kind <- LogKind, Like <- LogLike, Invalid <- LogInvalid, Host <- LogHost, Empty <- LogEmpty,
  declined <- withheld, copied <- collected

EnvTasks == INSTANCE HostEnvironment WITH Host <- EnvHost

\* What the values of the constants must be.
BaseTasksAssumption ==
  /\ ConfigTasks!ConfigFilesAssumption
  /\ LogTasks!BaseLogAssumption
  /\ EnvTasks!HostEnvironmentAssumption

ASSUME BaseTasksValues == BaseTasksAssumption

ConfigVars == <<disk, refused, named>>
LogVars == <<withheld, collected>>
baseVars == <<family, host, results, process, ConfigVars, LogVars>>

ConfigIdle == disk = None /\ refused = {} /\ named = {}
LogIdle == withheld = {} /\ collected = None

BaseInit ==
  \/ Of("config") /\ ConfigTasks!Init /\ LogIdle
  \/ Of("log") /\ LogTasks!Init /\ ConfigIdle
  \/ Of("env") /\ EnvTasks!Init /\ ConfigIdle /\ LogIdle

BaseNext ==
  /\ \/ Of("config") /\ ConfigTasks!Next /\ UNCHANGED LogVars
     \/ Of("log") /\ LogTasks!Next /\ UNCHANGED ConfigVars
     \/ Of("env") /\ EnvTasks!Next /\ UNCHANGED <<ConfigVars, LogVars>>
  /\ UNCHANGED family

BaseSpec == BaseInit /\ [][BaseNext]_baseVars

-----------------------------------------------------------------------------
(* Properties *)

\* What is collected is what was asked for: no file the user refused, unless
\* another source leads to it (collect.go:190), or kept back (copy.go:223); no
\* file twice; no old log beside a recent one (logHelpers.go:336).
OnlyWhatIsWanted ==
  /\ Of("config") =>
       /\ ConfigTasks!RefusedOnlyByName
       /\ ConfigTasks!TakenOnce
  /\ Of("log") =>
       /\ LogTasks!DeclinedNotCopied
       /\ LogTasks!OldLogAlone

\* A result does not hide what failed: every path is collected or named, and a
\* success means that every log that is configured was copied (copy.go:112).
NothingHidden ==
  /\ Of("config") => ConfigTasks!EveryPathAccounted
  /\ Of("log") => LogTasks!ConfiguredLogCopied
  /\ Of("env") =>
       /\ EnvTasks!PartialInfoKept
       /\ EnvTasks!UnknownIsNoFailure
       /\ EnvTasks!ElevatedNotDenied
       /\ EnvTasks!PanicHasCause

\* What a task hands on is well formed and what it found, whatever changed since,
\* and what its dependents assert of it is so (tasks.go:18): app names come from
\* files that were parsed.
HandedOn ==
  /\ Of("config") =>
       /\ ConfigTasks!TypeOK
       /\ ConfigTasks!AssertionsHold
       /\ ConfigTasks!NamesByPrecedence
  /\ Of("log") => LogTasks!TypeOK
  /\ Of("env") => EnvTasks!TypeOK

=============================================================================
