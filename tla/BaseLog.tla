------------------------------- MODULE BaseLog -------------------------------
(***************************************************************************)
(* Base/Log: where log files are looked for, which of them are copied into *)
(* the archive (Copy, and Collect when it is asked for by name), what the  *)
(* user is asked first, and the account the copied logs report to.         *)
(*                                                                         *)
(* A value of a setting is a record with a directory and a name, one of    *)
(* them empty when it has none. The iteration order of Go's maps is any.   *)
(***************************************************************************)
EXTENDS TaskFamily, Sequences, SequencesExt, FiniteSets

CONSTANTS
  Dir, Cwd,
  Standard, \* the directories that are always walked
  Below,    \* those a walk of a directory comes to
  Name,
  Kind,     \* "agent", "profiler", "secure" or "other"
  Like,     \* the names that one matches as a regular expression
  Invalid,  \* the names that are no regular expression
  Host, Empty

Value == [dir : Dir \cup {""}, name : Name \cup {"", "stdout"}]
Path == [dir : Dir, name : Name]

EnvVar == {"NRIA_LOG_FILE", "NEW_RELIC_LOG", "NEW_RELIC_LOG_FILE_PATH", "NEW_RELIC_LOG_FILE_NAME"}
SysProp == {"-Dnewrelic.logfile", "-Dnewrelic.config.log_file_path",
            "-Dnewrelic.config.log_file_name", "-Dnewrelic.other"}

File == [days : 0..30, open : BOOLEAN, reports : BOOLEAN]

HostType ==
  [files : UNION {[p -> File] : p \in SUBSET Path},
   env : UNION {[e -> Value] : e \in SUBSET EnvVar}, shell : BOOLEAN, \* any variable at all
   java : Seq(Seq([key : SysProp, val : Value])),     \* Empty: without "="
   configs : Seq([full : Value, dir : Value, name : Value, net : BOOLEAN]),
   slash : BOOLEAN,              \* directories are written with a slash
   logpath : Value, limit : Nat, \* the overrides, in days
   yes : BOOLEAN,
   rotates : BOOLEAN]            \* logs disappear while they are looked at

\* What the values of the constants must be.
BaseLogAssumption ==
  /\ Empty = [dir |-> "", name |-> ""]
  /\ \A h \in Host :
       /\ h.java \in Seq(Seq([key : SysProp, val : Value]))
       /\ h.configs \in Seq([full : Value, dir : Value, name : Value, net : BOOLEAN])
       /\ h.limit \in Nat /\ \A p \in DOMAIN h.files : h.files[p] \in File
  /\ Cwd \in Standard /\ Standard \subseteq Dir
  /\ \A d \in Dir : d \in Below[d]
  /\ \A n \in Name \ Invalid : n \in Like[n]
  /\ \A n \in Invalid : Like[n] = {}

VARIABLES
  declined, \* the files the user did not want in the archive
  copied    \* for each task its FilesToCopy

vars == <<host, declined, copied, results, process>>

Sources == {"CollectEnvVars", "CollectSysProps", "Validate"}
Tasks == Sources \cup {"Copy", "Collect", "ReportingTo"}

Init ==
  /\ host \in Host
  /\ declined = {} /\ copied = [t \in {"Copy", "Collect"} |-> {}]
  /\ NothingRun

-----------------------------------------------------------------------------
(* What is read first *)

GetShellEnvVars ==
  /\ Ready("CollectEnvVars", {})
  /\ Return("CollectEnvVars", IF host.shell THEN With("Info", host.env) ELSE Verdict("Error"))
  /\ UNCHANGED <<host, declined, copied>>

\* Of several processes the last one gives the value of a property.
Properties(processes) ==
  LET args == FlattenSeq(processes)
      LastOf(k) == args[CHOOSE i \in DOMAIN args :
                        args[i].key = k /\ \A j \in DOMAIN args : args[j].key = k => j <= i].val
  IN  [k \in {a.key : a \in Range(args)} |-> LastOf(k)]

\* An argument without "=" has no second part to read.
GetNewRelicSystemProps ==
  /\ Ready("CollectSysProps", {})
  /\ CASE \E p \in Range(host.java) : \E a \in Range(p) : a.val = Empty -> Panic
       [] FlattenSeq(host.java) = <<>> -> Return("CollectSysProps", Verdict("None"))
       [] OTHER -> Return("CollectSysProps", With("Info", Properties(host.java)))
  /\ UNCHANGED <<host, declined, copied>>

\* Base/Config/Validate, as far as log settings go (see ConfigFiles).
Validate ==
  /\ Ready("Validate", {})
  /\ Return("Validate", IF host.configs = <<>> THEN Verdict("None") ELSE With("Success", host.configs))
  /\ UNCHANGED <<host, declined, copied>>

Given(t, none) == IF Holds(Upstream(t)) THEN Upstream(t).payload ELSE none
NoSettings == [k \in {} |-> Empty]
EnvVars == Given("CollectEnvVars", NoSettings)
SysProps == Given("CollectSysProps", NoSettings)
Configs == Given("Validate", <<>>)

-----------------------------------------------------------------------------
(* Files *)

Real(v) == IF v.dir = "" THEN [v EXCEPT !.dir = Cwd] ELSE v
IsDir(v) == v.name = "" /\ v.dir # ""
Exists(v) == v.name # "" /\ Real(v) \in DOMAIN host.files
FileExists(v) == IsDir(v) \/ Exists(v)
ExistingPath(v) == Exists(v)
ValidatePath(v) == Exists(v) /\ host.files[Real(v)].open

\* tasks.FindFiles walks, findLogFiles stays in its directory.
FindFiles(names, dirs) ==
  {p \in DOMAIN host.files : p.name \in names /\ \E d \in dirs : p.dir \in Below[d]}
FindLogFiles(names, d) == {p \in DOMAIN host.files : p.name \in names /\ p.dir = d}

OfKind(kinds) == {n \in Name : Kind[n] \in kinds}
LogNames == OfKind({"agent", "profiler"})

Days(p) == host.files[p].days
IsProfiler(p) == Kind[p.name] = "profiler"

\* determineFilesDate: once a log of the profiler has come up, one day is the
\* limit for all that follow; those before it are any that are not of its kind.
RecentFiles(logs) ==
  LET profiler == {p \in logs : IsProfiler(p)}
  IN  {{p \in logs : Days(p) < IF p \in before THEN host.limit ELSE 1} :
         before \in IF profiler = {} THEN {logs} ELSE SUBSET (logs \ profiler)}

AllOldLogs(old) == {old}
SelectMostRecentOldLogs(old) ==
  {{p} : p \in {q \in old : \A r \in old : Days(q) <= Days(r)}}

-----------------------------------------------------------------------------
(* collectFilePaths *)

\* A log: its path, and the directory and the name it is said to have. A full
\* path is split, a directory and a name of their own stay as they were given.
Element(path, named, whole) ==
  [path |-> path, named |-> named, whole |-> whole, secure |-> FALSE, can |-> TRUE]
Split(p) == Element(p, p, TRUE)
Joined(d, n) ==
  Element([dir |-> d.dir, name |-> n.name], [dir |-> d.dir, name |-> n.name], FALSE)

SecureElements == {[Split(p) EXCEPT !.secure = TRUE] : p \in FindFiles(OfKind({"secure"}), Standard)}

EnvElements ==
  {IF v.name = "stdout" THEN [Split(v) EXCEPT !.can = FALSE] ELSE Split(v) :
     v \in {w \in Range(EnvVars) : w.name = "stdout" \/ Exists(w)}}

HasProp(k) == k \in DOMAIN SysProps
FullProp == "-Dnewrelic.logfile"
DirProp == "-Dnewrelic.config.log_file_path"
NameProp == "-Dnewrelic.config.log_file_name"

SysPropElements ==
  CASE HasProp(FullProp) -> {Split(SysProps[FullProp])}
    [] ~HasProp(FullProp) /\ HasProp(DirProp) /\ HasProp(NameProp) ->
         {Joined(SysProps[DirProp], SysProps[NameProp])}
    [] OTHER -> {}

ConfigElements(c) ==
  <<IF c.full # Empty THEN {Split(c.full)} ELSE {},
    IF c.dir # Empty /\ c.name # Empty THEN {Joined(c.dir, c.name)} ELSE {}>>

\* A directory without a name and a name without a directory are kept under
\* the key of their setting: a later file replaces what an earlier one said.
Lone(field, other) ==
  LET lone(i, net) == Configs[i][field] # Empty /\ Configs[i][other] = Empty /\ Configs[i].net = net
  IN  {Configs[i][field] : i \in {j \in DOMAIN Configs : \E net \in BOOLEAN :
         lone(j, net) /\ \A k \in DOMAIN Configs : lone(k, net) => k <= j}}

LoneProp(k, other) ==
  IF HasProp(k) /\ ~HasProp(other) /\ ~HasProp(FullProp) THEN {SysProps[k]} ELSE {}

UnmatchedDirs ==
  {v \in Range(EnvVars) : IsDir(v)} \cup LoneProp(DirProp, NameProp) \cup Lone("dir", "name")
UnmatchedNames ==
  {v \in Range(EnvVars) : ~IsDir(v) /\ ~Exists(v) /\ v.name # "stdout"}
  \cup LoneProp(NameProp, DirProp) \cup Lone("name", "dir")

Matching(v) == IF v.dir = "" THEN Like[v.name] ELSE {}

\* Such an element has the name of the setting, not that of the file.
Combined ==
  UNION {{Element(p, [dir |-> d.dir, name |-> v.name], FALSE) :
            p \in FindLogFiles(Matching(v), d.dir)} : d \in UnmatchedDirs, v \in UnmatchedNames}

\* With a recent log in the directory all its logs are taken.
FromDir(d) ==
  LET logs == FindLogFiles(LogNames, d.dir)
  IN  UNION {IF recent # {} THEN {logs}
             ELSE IF logs = {} THEN {{Empty}} ELSE SelectMostRecentOldLogs(logs) :
               recent \in RecentFiles(logs)}

\* The unions of one choice of each of the sets of choices.
Unions(choices) ==
  {UNION {pick[c] : c \in choices} :
     pick \in {f \in [choices -> UNION choices] : \A c \in choices : f[c] \in c}}

CurrentDirOrNamePatterns ==
  {{Split(p) : p \in fromDirs \cup FindFiles(UNION {Matching(v) : v \in UnmatchedNames}, {Cwd})} :
     fromDirs \in Unions({FromDir(d) : d \in UnmatchedDirs})}

UnmatchedElements ==
  IF Combined # {} THEN {Combined} ELSE CurrentDirOrNamePatterns

StandardElements ==
  LET logs == FindFiles(LogNames, Standard)
  IN  {{Split(p) : p \in taken} :
         taken \in UNION {IF recent # {} \/ logs = {} THEN {recent}
                          ELSE SelectMostRecentOldLogs(logs) : recent \in RecentFiles(logs)}}

\* Groups of elements, in their order. The standard locations come last.
Groups(unmatched, standard) ==
  <<SecureElements, EnvElements, SysPropElements>>
  \o FlattenSeq([i \in DOMAIN Configs |-> ConfigElements(Configs[i])])
  \o <<unmatched, standard>>
CollectFilePaths ==
  {Groups(unmatched, standard) : unmatched \in UnmatchedElements, standard \in StandardElements}

\* A name that is no regular expression is compiled for each file of a directory.
BadName ==
  \E v \in UnmatchedNames, d \in UnmatchedDirs :
    v.name \in Invalid /\ \E p \in DOMAIN host.files : p.dir = d.dir

\* A log that disappears before its age is asked again has none.
GoneLog ==
  LET logs == FindFiles(LogNames, Standard)
  IN  host.rotates /\ logs # {} /\ {} \in RecentFiles(logs)

-----------------------------------------------------------------------------
(* Base/Log/Copy *)

OnePer(S, Key(_)) ==
  {k \in SUBSET S : \A e \in S : Cardinality({x \in k : Key(x) = Key(e)}) = 1}

\* Of the elements with one path the first is kept, of one group any.
LastWins(groups) ==
  LET Later(i) == UNION {{e.path : e \in groups[j]} : j \in (i + 1)..Len(groups)}
  IN  OnePer(UNION {{e \in groups[i] : e.path \notin Later(i)} : i \in DOMAIN groups},
             LAMBDA e : e.path)
DedupeLogPaths(groups) ==
  LET Earlier(i) == UNION {{e.path : e \in groups[j]} : j \in 1..(i - 1)}
  IN  OnePer(UNION {{e \in groups[i] : e.path \notin Earlier(i)} : i \in DOMAIN groups},
             LAMBDA e : e.path)

AskedFor(group, refused) == {IF e.path \in refused THEN [e EXCEPT !.can = FALSE] ELSE e : e \in group}

\* One log of the profiler is listed for each directory, as one that was collected.
FilterDotnetLogElements(elements) ==
  LET profiler == {e \in elements : e.named.name \in OfKind({"profiler"})}
  IN  {(elements \ profiler) \cup {[e EXCEPT !.can = TRUE] : e \in kept} :
         kept \in OnePer(profiler, LAMBDA e : <<e.named.dir, e.whole>>)}

WithoutWarning(valid, invalid) == IF valid # {} THEN "Success" ELSE "Failure"
CopyStatus(valid, invalid) ==
  CASE valid # {} /\ invalid # {} -> "Warning"
    [] valid # {} /\ invalid = {} -> "Success"
    [] OTHER -> "Failure"

CopyElements(elements) ==
  LET valid == {e \in elements : e.can /\ ValidatePath(e.path)}
      marked == {[e EXCEPT !.can = e \in valid] : e \in elements}
      status == CopyStatus(valid, elements \ valid)
  IN  /\ copied' = [copied EXCEPT !["Copy"] = {e.path : e \in valid}]
      /\ IF valid = {} THEN Return("Copy", With(status, marked))
         ELSE \E payload \in FilterDotnetLogElements(marked) : Return("Copy", With(status, payload))

BaseLogCopy ==
  /\ Ready("Copy", Sources)
  /\ \/ /\ host.logpath # Empty
        /\ CopyElements({Split(host.logpath)})
        /\ UNCHANGED declined
     \/ host.logpath = Empty /\ (BadName \/ GoneLog) /\ Panic /\ UNCHANGED <<declined, copied>>
     \/ /\ host.logpath = Empty /\ ~BadName
        /\ \E groups \in CollectFilePaths,
              refused \in SUBSET IF host.yes THEN {} ELSE {e.path : e \in SecureElements} :
             /\ declined' = declined \cup refused
             /\ IF UNION Range(groups) = {} THEN Return("Copy", Verdict("Failure")) /\ UNCHANGED copied
                ELSE \E elements \in DedupeLogPaths([groups EXCEPT ![1] = AskedFor(@, refused)]) :
                       CopyElements(elements)
  /\ UNCHANGED host

-----------------------------------------------------------------------------
(* Base/Log/Collect *)

\* The element of -logpath has no path here, and nobody is asked.
BaseLogCollect ==
  /\ Ready("Collect", Sources)
  /\ \/ /\ host.logpath # Empty
        /\ Return("Collect", With("Success", {}))
        /\ UNCHANGED copied
     \/ host.logpath = Empty /\ (BadName \/ GoneLog) /\ Panic /\ UNCHANGED copied
     \/ /\ host.logpath = Empty /\ ~BadName
        /\ \E groups \in CollectFilePaths :
             LET elements == UNION Range(groups)
                 found == {e \in elements : FileExists(e.path)}
             IN  /\ Return("Collect",
                      IF elements = {} THEN Verdict("Failure") ELSE With("Success", found))
                 /\ copied' = [copied EXCEPT !["Collect"] = {e.path : e \in found}]
  /\ UNCHANGED <<host, declined>>

-----------------------------------------------------------------------------
(* Base/Log/ReportingTo *)

\* The directory and the name are written one after the other.
FindReportingToLine(e) ==
  /\ e.whole \/ host.slash
  /\ ValidatePath(e.named) /\ host.files[Real(e.named)].reports

BaseLogReportingTo ==
  /\ Ready("ReportingTo", {"Copy"})
  /\ LET elements == Given("Copy", {})
         logs == {e \in elements : e.can /\ ~e.secure /\ e.named.dir # "" /\ e.named.name # ""}
         found == {e.path : e \in {l \in logs : FindReportingToLine(l)}}
     IN  Return("ReportingTo", IF found = {} THEN Verdict("None") ELSE With("Success", found))
  /\ UNCHANGED <<host, declined, copied>>

Done ==
  /\ Tasks \subseteq DOMAIN results \/ process = "panicked"
  /\ UNCHANGED vars

Next ==
  \/ GetShellEnvVars \/ GetNewRelicSystemProps \/ Validate
  \/ BaseLogCopy \/ BaseLogCollect \/ BaseLogReportingTo \/ Done

Spec == Init /\ [][Next]_vars

-----------------------------------------------------------------------------
(* Properties *)

Ran(t) == t \in DOMAIN results

\* Every task ends with one of its statuses, and what Copy hands to the archive
\* can be read.
TypeOK ==
  /\ host \in Host /\ DOMAIN results \subseteq Tasks /\ process \in {"running", "panicked"}
  /\ \A t \in DOMAIN results : results[t].status \in Status
  /\ DOMAIN copied = {"Copy", "Collect"}
  /\ \A p \in copied["Copy"] : Exists(p) /\ host.files[Real(p)].open

\* A file that the user kept back is not in the archive through Copy, even if
\* a setting names it too: its element comes first and the others with its path
\* are dropped (logHelpers.go:555, copy.go:223).
DeclinedNotCopied == declined \cap copied["Copy"] = {}

\* A success means that every log a JVM argument or a configuration file names
\* with its directory is in the archive; one that is missing, a directory or
\* closed to this user makes it a warning (copy.go:112).
ConfiguredLogCopied ==
  Ran("Copy") /\ results["Copy"].status = "Success" /\ host.logpath = Empty =>
    \A e \in SysPropElements \cup UNION {UNION Range(ConfigElements(c)) : c \in Range(Configs)} :
      e.path \in copied["Copy"]

\* Where no setting names a directory, an old log of the standard locations is
\* collected only when there is none that is recent, and then only one, however
\* the logs are ordered (logHelpers.go:336).
OldLogAlone ==
  UnmatchedDirs = {} /\ UnmatchedNames = {} /\ host.logpath = Empty =>
    LET named == {e.path : e \in EnvElements \cup SysPropElements} \cup
                 UNION {{e.path : e \in UNION Range(ConfigElements(c))} : c \in Range(Configs)}
        unnamed == {p \in copied["Copy"] \ named : Kind[p.name] # "secure"}
    IN  \A p \in unnamed : Days(p) >= 1 /\ Days(p) >= host.limit => unnamed = {p}

-----------------------------------------------------------------------------
(* What the messages say *)

\* "Include this file in nrdiag-output.zip?" (copy.go:220): a file the user kept
\* back is not collected by the other task, which says "ignoring secure logs for
\* now" (collect.go:85).
DeclinedNotCollected == declined \cap copied["Collect"] = {}

=============================================================================
