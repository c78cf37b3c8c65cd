-------------------------- MODULE HostEnvironment ---------------------------
(***************************************************************************)
(* What the host and the user are: the tasks of base/env in src/tasks, and *)
(* Node/Env/OsCheck, which asserts what they hand on. The environment and  *)
(* the properties of java processes are in BaseLog.                        *)
(*                                                                         *)
(* What the library gopsutil, the registry and the commands answer is part *)
(* of the host. On Windows the library is given a deadline.                *)
(***************************************************************************)
EXTENDS TaskFamily, Integers, FiniteSets

CONSTANTS
  Host, None,
  Failed  \* the call ended in an error

Parts == {"host", "cpu", "memory"}  \* in the order they are asked for

HostType ==
  [os : {"linux", "windows", "darwin"},
   timeout : Int \cup {None, Failed},    \* -o Base/Env/HostInfo.timeout, Failed if no number
   takes : [Parts -> Nat],               \* seconds from the start until a part is known
   broken : SUBSET Parts,                \* those the library cannot tell
   nodeAgent : BOOLEAN,                  \* Node/Config/Agent succeeded
   server : BOOLEAN,                     \* "server" is in the family of the platform
   version : {"old", "recent"},          \* for the node agent
   drive : BOOLEAN,                      \* PHYSICALDRIVE0 can be opened
   users : SUBSET {"of Administrator", "other", "no pattern"} \cup {Failed},
                    \* the values of the variables with "username" in their names:
                    \* a part of that name, another text, or no regular expression
   login : {"admin", "user", Failed},    \* the user who is logged in
   current : {"root", "user", Failed},
   environ : SUBSET STRING \cup {None},  \* Base/Env/CollectEnvVars
   aws : Nat \cup {Failed},              \* the status of the metadata endpoint
   init : {"SysV", "Systemd", "Upstart", "OpenRC", "other", Failed},
   sestatus : {"enforcing", "permissive", "not found", Failed},
   iis : {"closed", "no version", "version"}]

\* What the values of the constants must be.
HostEnvironmentAssumption ==
  /\ \A h \in Host : h.os \in {"linux", "windows", "darwin"}
  /\ Failed # {"of Administrator"}

vars == <<host, results, process>>

HostInfo == "Base/Env/HostInfo"
Admin == "Base/Env/CheckWindowsAdmin"
Root == "Base/Env/RootUser"
AWS == "Base/Env/DetectAWS"
Azure == "Base/Env/DetectAzure"
InitSystem == "Base/Env/InitSystem"
SELinux == "Base/Env/SELinux"
IIS == "Base/Env/IisCheck"
NodeOS == "Node/Env/OsCheck"

Tasks ==
  {HostInfo, AWS, Azure, InitSystem, NodeOS}
    \cup (IF host.os = "windows" THEN {Admin, IIS} ELSE {Root})
    \cup (IF host.os = "linux" THEN {SELinux} ELSE {})

Init == host \in Host /\ NothingRun

Chosen(t, dependencies) == t \in Tasks /\ Ready(t, dependencies)

Answers(t, s) == Chosen(t, {}) /\ Return(t, Verdict(s)) /\ UNCHANGED host

-----------------------------------------------------------------------------
(* The host *)

TimeoutMax == 60
TimeoutMin == 1
TimeoutDefault == 3

\* Every number is at least the minimum or at most the maximum.
Timeout ==
  IF host.timeout \notin {None, Failed} /\ (host.timeout >= TimeoutMin \/ host.timeout <= TimeoutMax)
  THEN host.timeout ELSE TimeoutDefault

InTime(p) == host.os = "windows" => host.takes[p] < Timeout

\* The parts known before the deadline. Of the others, the library asks some
\* without the deadline.
Collected ==
  {c \in SUBSET (Parts \ host.broken) : {p \in Parts \ host.broken : InTime(p)} \subseteq c}

OSForgotten(parts) ==
  [os |-> IF "host" \in parts THEN host.os ELSE "", known |-> "host" \in parts, parts |-> parts]
\* Without the host's information its OS is that of the build.
PopulateHostInfo(parts) ==
  [os |-> host.os, known |-> "host" \in parts, parts |-> parts]

FirstErrorEnds(parts) ==
  IF "host" \in parts THEN PopulateHostInfo(parts) ELSE PopulateHostInfo({})
NewHostInfo(parts) == PopulateHostInfo(parts)

NoPayloadOnError ==
  /\ Chosen(HostInfo, {})
  /\ \E parts \in Collected :
       Return(HostInfo, IF parts = Parts THEN With("Info", NewHostInfo(parts))
                        ELSE Verdict("Warning"))
  /\ UNCHANGED host
BaseEnvHostInfo ==
  /\ Chosen(HostInfo, {})
  /\ \E parts \in Collected :
       Return(HostInfo, With(IF parts = Parts THEN "Info" ELSE "Warning", NewHostInfo(parts)))
  /\ UNCHANGED host

NodeSupport(info) ==
  CASE info.os = "linux" -> "Success"
    [] info.os \in {"windows", "darwin"} /\ ~info.known -> "Warning"
    [] info.os = "windows" /\ info.known ->
         IF host.server /\ host.version = "recent" THEN "Success" ELSE "Failure"
    [] info.os = "darwin" /\ info.known ->
         IF host.version = "recent" THEN "Success" ELSE "Failure"
    [] OTHER -> "Failure"

\* The payload is asserted to be a HostInfo without asking.
NodeEnvOsCheck ==
  /\ Chosen(NodeOS, {HostInfo})
  /\ IF host.nodeAgent /\ ~Holds(Upstream(HostInfo)) THEN Panic
     ELSE Return(NodeOS, Verdict(
            IF host.nodeAgent THEN NodeSupport(Upstream(HostInfo).payload) ELSE "None"))
  /\ UNCHANGED host

-----------------------------------------------------------------------------
(* The user *)

\* A variable is searched in the order of a map. Without one the text is empty,
\* which is a part of every name.
FindCaseInsensitive ==
  IF host.users = {} THEN {"of Administrator"} ELSE host.users

ErrorEndsSearch ==
  /\ Chosen(Admin, {})
  /\ Return(Admin, Verdict(IF host.drive THEN "Success" ELSE "Warning"))
  /\ UNCHANGED host
\* Three ways to find out; what one of them cannot tell is left to the next.
BaseEnvCheckWindowsAdmin ==
  LET loggedIn == Verdict(IF host.login = "admin" THEN "Success" ELSE "Warning")
  IN  /\ Chosen(Admin, {})
      /\ \/ host.drive /\ Return(Admin, Verdict("Success"))
         \/ ~host.drive /\ host.users = Failed /\ Return(Admin, loggedIn)
         \/ /\ ~host.drive /\ host.users # Failed
            /\ \E username \in FindCaseInsensitive :
                 CASE username = "no pattern" -> Panic
                   [] username = "of Administrator" -> Return(Admin, Verdict("Success"))
                   [] OTHER -> Return(Admin, loggedIn)
      /\ UNCHANGED host

\* IsUserRoot reads the name of the user also when there is an error, and none.
BaseEnvRootUser ==
  /\ Chosen(Root, {})
  /\ IF host.current = Failed THEN Panic
     ELSE Return(Root, Verdict(IF host.current = "root" THEN "Success" ELSE "Warning"))
  /\ UNCHANGED host

-----------------------------------------------------------------------------
(* What the host is part of, and what it runs *)

BaseEnvDetectAWS == Answers(AWS, IF host.aws = 200 THEN "Success" ELSE "None")

BaseEnvDetectAzure ==
  Answers(Azure, IF host.environ # None /\ "WEBSITE_SITE_NAME" \in host.environ
                 THEN "Info" ELSE "None")

BaseEnvInitSystem ==
  Answers(InitSystem, IF host.os # "linux" \/ host.init \in {"other", Failed}
                      THEN "None" ELSE "Info")

BaseEnvCheckSELinux ==
  Answers(SELinux, CASE host.sestatus = "enforcing" -> "Warning"
                     [] host.sestatus = "permissive" -> "Success"
                     [] OTHER -> "None")

BaseEnvIisCheck ==
  Answers(IIS, CASE host.iis = "closed" -> "None"
                 [] host.iis = "no version" -> "Error"
                 [] OTHER -> "Info")

-----------------------------------------------------------------------------

Done == DOMAIN results = Tasks \/ process = "panicked"
Ended == Done /\ UNCHANGED vars

Next ==
  \/ BaseEnvHostInfo \/ NodeEnvOsCheck
  \/ BaseEnvCheckWindowsAdmin \/ BaseEnvRootUser
  \/ BaseEnvDetectAWS \/ BaseEnvDetectAzure
  \/ BaseEnvInitSystem \/ BaseEnvCheckSELinux \/ BaseEnvIisCheck
  \/ Ended

Spec == Init /\ [][Next]_vars /\ WF_vars(Next)

-----------------------------------------------------------------------------
(* Properties *)

TypeOK ==
  /\ host \in Host /\ process \in {"running", "panicked"}
  /\ DOMAIN results \subseteq Tasks
  /\ \A t \in DOMAIN results : results[t].status \in Status
  /\ HostInfo \in DOMAIN results => Holds(Upstream(HostInfo))

\* Base/Env/HostInfo: "Error collecting complete host information" comes with all
\* parts that were known before the deadline, whichever of them failed.
PartialInfoKept ==
  HostInfo \in DOMAIN results =>
    LET parts == Upstream(HostInfo).payload.parts
    IN  /\ Holds(Upstream(HostInfo))
        /\ {p \in Parts \ host.broken : InTime(p)} \subseteq parts
        /\ Upstream(HostInfo).status = "Info" <=> parts = Parts

\* Node/Env/OsCheck: "This OS is not compatible with the Node Agent." is never said
\* of a host of which the library told nothing, in time or at all
\* ("Supported OS but missing OS version", osCheck.go:78).
UnknownIsNoFailure ==
  Upstream(NodeOS).status = "Failure" => "host" \in Upstream(HostInfo).payload.parts

\* Base/Env/CheckWindowsAdmin: "did not detect having Elevated permissions" only if
\* no way to detect them told so, also when another way ended in an error.
ElevatedNotDenied ==
  Upstream(Admin).status = "Warning" =>
    ~host.drive /\ host.login # "admin" /\ host.users # {"of Administrator"}

\* A task panics only where the user is unknown or bears the name of no pattern;
\* what Base/Env/HostInfo hands on has the type its dependents assert.
PanicHasCause ==
  process = "panicked" =>
    IF host.os = "windows" THEN ~host.drive /\ "no pattern" \in FindCaseInsensitive
    ELSE host.current = Failed

=============================================================================
