---------------------------- MODULE MCTaskQueue ----------------------------
(***************************************************************************)
(* A small registry with the shapes of the real one: a diamond of          *)
(* dependencies, a task that only runs when it is asked for, a dependency  *)
(* spelled in another case, a name no registered task has (the dotnet      *)
(* tasks exist on Windows only) and a suite wildcard.                      *)
(***************************************************************************)
EXTENDS TaskQueue

CONSTANTS collect, validate, key, agent, special

MCTask == {collect, validate, key, agent, special}
MCDefaultTasks == MCTask \ {special}
MCRef == {"collect", "validate", "VALIDATE", "key", "agent", "special", "absent", "Base/*"}
MCWildcards == {"Base/*"}

MCMatches ==
  [r \in MCRef |->
     CASE r = "collect"                  -> {collect}
       [] r \in {"validate", "VALIDATE"} -> {validate}
       [] r = "key"                      -> {key}
       [] r = "agent"                    -> {agent}
       [] r = "special"                  -> {special}
       [] r = "absent"                   -> {}
       [] r = "Base/*"                   -> {validate, key, special}]

MCDependencies ==
  [t \in MCTask |->
     CASE t = collect  -> << >>
       [] t = validate -> <<"absent", "collect">>
       [] t = key      -> <<"collect", "VALIDATE">>
       [] t = agent    -> <<"key", "validate">>
       [] t = special  -> <<"agent", "collect">>]

\* Everything, a suite, single tasks, repeated and unknown names, nothing.
MCRequests ==
  {[all |-> TRUE, refs |-> << >>]} \cup
  [all : {FALSE},
   refs : {<<"Base/*", "agent">>, <<"special", "Base/*">>, <<"agent", "absent", "agent", "special">>,
           <<"VALIDATE", "key">>, << >>}]

=============================================================================
