---------------------------- MODULE MCAgentTasks ----------------------------
(***************************************************************************)
(* The tasks of TaskEffects, and those that look at runtimes, at the .NET  *)
(* agents and their profiler, and at java processes.                       *)
(***************************************************************************)
EXTENDS MCTaskEffects, MCRuntimes, MCDotNet, MCJavaTasks

vars == <<effectsVars, ProfilerVars, JvmVars>>

Init ==
  \/ EffectsInit /\ ProfilerIdle /\ JvmIdle
  \/ Of("runtimes") /\ RuntimeTasks!Init /\ EffectsIdle /\ ProfilerIdle /\ JvmIdle
  \/ Of("dotnet") /\ DotNetTasks!Init /\ EffectsIdle /\ ProfilerIdle /\ JvmIdle
  \/ Of("profiler") /\ ProfilerTasks!Init /\ EffectsIdle /\ JvmIdle
  \/ Of("java") /\ JvmTasks!Init /\ EffectsIdle /\ ProfilerIdle

Next ==
  \/ EffectsNext /\ UNCHANGED <<ProfilerVars, JvmVars>>
  \/ Of("runtimes") /\ RuntimeTasks!Next /\ UNCHANGED <<family, OwnVars, ProfilerVars, JvmVars>>
  \/ Of("dotnet") /\ DotNetTasks!Next /\ UNCHANGED <<family, OwnVars, ProfilerVars, JvmVars>>
  \/ Of("profiler") /\ ProfilerTasks!Next /\ UNCHANGED <<family, OwnVars, JvmVars>>
  \/ Of("java") /\ JvmTasks!Next /\ UNCHANGED <<family, OwnVars, ProfilerVars>>

Spec == Init /\ [][Next]_vars

\* What the tasks say of runtimes, .NET and java follows from what they found. A
\* verdict about versions is that of the tables: success exactly for those in their
\* intervals, of several versions every one (versions.go). A failure of one of several
\* commands, sources or workers does not hide the others, nor others it. What is handed
\* on is well formed and agrees with the files it comes from.
VerdictsFollow ==
  /\ Of("runtimes") =>
       /\ RuntimeTasks!TypeOK
       /\ RuntimeTasks!NodeByInterval
       /\ RuntimeTasks!PythonByInterval
       /\ RuntimeTasks!RubyByInterval
       /\ RuntimeTasks!OtherCommandCounts
       /\ RuntimeTasks!CoreErrorMeansNoSource
  /\ Of("dotnet") =>
       /\ DotNetTasks!TypeOK
       /\ DotNetTasks!FrameworkByInterval
       /\ DotNetTasks!RequirementsMet
       /\ DotNetTasks!SameOnWindows
       /\ DotNetTasks!BadDatastoreTold
       /\ DotNetTasks!TargetErrorsTold
  /\ Of("profiler") =>
       /\ ProfilerTasks!TypeOK
       /\ ProfilerTasks!InstrumentationBySettings
       /\ ProfilerTasks!LevelsByFile
       /\ ProfilerTasks!TLSPanicHasCause
       /\ ProfilerTasks!WorkersAccounted
  /\ Of("java") =>
       /\ JvmTasks!TypeOK
       /\ JvmTasks!VendorsByInterval
       /\ JvmTasks!ServersByInterval
       /\ JvmTasks!SettingsInEffect
       /\ JvmTasks!ArgumentsTell
       /\ JvmTasks!DeniedHasCause
       /\ JvmTasks!PanicHasCause

=============================================================================
