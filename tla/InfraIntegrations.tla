-------------------------- MODULE InfraIntegrations --------------------------
(***************************************************************************)
(* The on-host integrations of the Infrastructure agent (Linux): their yml *)
(* files are collected, parsed, paired, and then the JMX server and the    *)
(* brokers of Kafka are asked as the integrations would ask them.          *)
(***************************************************************************)
EXTENDS TaskFamily, Naturals, Sequences, SequencesExt, FiniteSets

CONSTANTS
  Host,  \* see HostType
  None

Integration == {"jmx", "kafka", "redis"}
Script == {"zookeeper-shell.sh", "zkCli.sh"}
Address == [host : STRING, port : STRING, auth : BOOLEAN]

\* A file of integrations, with the keys that were parsed from it.
FileType ==
  [kind : {"config", "definition", "other"}, of : Integration,
   place : BOOLEAN,                   \* where files of its kind belong
   yaml : BOOLEAN,                    \* can be read and parsed
   v4 : BOOLEAN,                      \* has "integrations" and no "instances"
   name : STRING \cup {None},         \* integration_name, or name
   json : {"none", "array", "other", "invalid"}, \* the values meant to be JSON
   twice : BOOLEAN,                   \* a key that is needed occurs twice
   jmx : [address : Address, collection : {"", "unreadable", "none", "queries"}],
   zookeeper : [path : STRING, hosts : Seq([host : STRING, port : Nat] \cup {None})]]

HostType ==
  [agent : BOOLEAN, files : Seq(FileType),
   version : {Verdict("Failure"), Verdict("Warning")} \cup {With("Info", n) : n \in Nat},
   java : {"Info", "Warning"},        \* the status of Java/Env/Version
   server : SUBSET Address,           \* where a JMX server answers
   query : [STRING -> {"metrics", "nothing", "error"}],
   shell : BOOLEAN,                   \* the environment is known
   home : Seq([bin : BOOLEAN, here : SUBSET Script, below : SUBSET Script]),
   brokers : SUBSET (STRING \X Nat \X STRING)]

\* What the values of the constants must be: None is no file, and not the empty name.
InfraIntegrationsAssumption ==
  None \notin FileType \cup {""} /\ \A h \in Host : h.files \in Seq(FileType)

VARIABLES
  declined, copied,  \* files the user kept back, files in the archive
  tested, asked,     \* addresses: of the connection test, of the queries
  listed             \* addresses asked for the list of brokers

vars == <<host, declined, copied, tested, asked, listed, results, process>>
contacts == <<tested, asked, listed>>
unchanged == <<host, declined, copied, contacts>>

Collect == "Infra/Config/IntegrationsCollect"
Validate == "Infra/Config/IntegrationsValidate"
Json == "Infra/Config/IntegrationsValidateJson"
Match == "Infra/Config/IntegrationsMatch"
Jmx == "Infra/Config/ValidateJMX"
Mbeans == "Infra/Env/NrjmxMbeans"
Zookeeper == "Infra/Env/ValidateZookeeperPath"
Tasks == {Collect, Validate, Json, Match, Jmx, Mbeans, Zookeeper}

Init ==
  /\ host \in Host
  /\ declined = {} /\ copied = {} /\ tested = {} /\ asked = {} /\ listed = {}
  /\ NothingRun

-----------------------------------------------------------------------------
(* The files *)

CopyEverything(kept) == ToSet(host.files)
FilesToCopy(kept) == ToSet(host.files) \ kept

\* PromptUser for every file; a file that is kept back is parsed all the same.
IntegrationsCollect ==
  /\ Ready(Collect, {})
  /\ IF host.agent /\ host.files # <<>>
     THEN \E kept \in SUBSET ToSet(host.files) :
            /\ declined' = kept /\ copied' = FilesToCopy(kept)
            /\ Return(Collect, With("Success", host.files))
     ELSE Return(Collect, Verdict("None")) /\ UNCHANGED <<declined, copied>>
  /\ UNCHANGED <<host, contacts>>

\* One file that cannot be parsed takes all the others with it.
IntegrationsValidate ==
  /\ Ready(Validate, {Collect})
  /\ Return(Validate,
       IF Upstream(Collect).status # "Success" THEN Verdict("None")
       ELSE LET files == Upstream(Collect).payload
            IN  IF \E f \in ToSet(files) : ~f.yaml THEN Verdict("Failure") ELSE With("Success", files))
  /\ UNCHANGED unchanged

AnyJson(files) == \E f \in files : f.json # "invalid"
IsValidJson(files) == \A f \in files : f.json # "invalid"

IntegrationsValidateJson ==
  /\ Ready(Json, {Validate})
  /\ LET upstream == Upstream(Validate)
         files == IF Holds(upstream) THEN ToSet(upstream.payload) ELSE {}
         known == {f \in files : f.kind = "config" /\ f.of \in {"kafka", "redis"}}
     IN  Return(Json, Verdict(CASE known = {} -> "None"
                                [] OTHER -> IF IsValidJson(known) THEN "Success" ELSE "Failure"))
  /\ UNCHANGED unchanged

-----------------------------------------------------------------------------
(* Infra/Config/IntegrationsMatch *)

NoPair == [config |-> None, definition |-> None]

\* The files of an integration in their places. A second file of one kind replaces
\* the first.
Places(files, i, kind) ==
  {n \in DOMAIN files : files[n].of = i /\ files[n].kind = kind /\ files[n].place}
LastFile(files, i, kind) ==
  IF Places(files, i, kind) = {} THEN None ELSE files[Max(Places(files, i, kind))]

MatchFilePairs(files) ==
  [i \in {f.of : f \in {f \in ToSet(files) : f.kind # "other" /\ f.place}} |->
     [config |-> LastFile(files, i, "config"), definition |-> LastFile(files, i, "definition")]]
MatchErrors(files) == {f \in ToSet(files) : f.kind # "other" /\ ~f.place}

\* An empty name is there and matches every other.
ValidateConfigPairNames(pair) ==
  /\ pair.definition.name # None
  /\ \/ pair.config.v4
     \/ /\ pair.config.name # None
        /\ "" \in {pair.config.name, pair.definition.name} \/ pair.config.name = pair.definition.name

NamesOnly(pair, newer) ==
  pair.config # None /\ (pair.definition # None => ValidateConfigPairNames(pair))
ValidateIntegrationPair(pair, newer) ==
  /\ pair.config # None
  /\ \/ pair.definition = None /\ newer /\ pair.config.v4
     \/ pair.definition # None /\ ValidateConfigPairNames(pair)

MatchResult(files, newer) ==
  LET found == MatchFilePairs(files)
      valid == {i \in DOMAIN found : ValidateIntegrationPair(found[i], newer)}
      errors == MatchErrors(files) # {} \/ valid # DOMAIN found
  IN  With(IF valid # {} /\ ~errors THEN "Success" ELSE "Failure", [i \in valid |-> found[i]])

NewConfigFormat == 8

IntegrationsMatch ==
  /\ Ready(Match, {Validate})
  /\ Return(Match,
       CASE Upstream(Validate).status # "Success" -> Verdict("None")
         [] Upstream(Validate).status = "Success" /\ ~Holds(host.version) -> Verdict("Error")
         [] OTHER -> MatchResult(Upstream(Validate).payload, host.version.payload >= NewConfigFormat))
  /\ UNCHANGED unchanged

Pairs == IF Holds(Upstream(Match)) THEN Upstream(Match).payload ELSE [i \in {} |-> NoPair]

\* What the tasks that follow do when there is nothing for them.
Unmatched(t, i) ==
  \/ Upstream(Match).status = "None" /\ Return(t, Verdict("None"))
  \/ Upstream(Match).status # "None" /\ ~Holds(Upstream(Match)) /\ Return(t, Verdict("Error"))
  \/ Holds(Upstream(Match)) /\ i \notin DOMAIN Pairs /\ Return(t, Verdict("None"))

-----------------------------------------------------------------------------
(* JMX *)

AsWritten(address) == address

\* What is not set is localhost, 9999.
BuildNrjmxArgs(address) ==
  [address EXCEPT !.host = IF @ = "" THEN "localhost" ELSE @, !.port = IF @ = "" THEN "9999" ELSE @]

\* Java/Env/Version succeeds with Info.
JavaVersion == IF host.java = "Success" THEN "version" ELSE "unable to find"

JmxConfig(file) == [address |-> file.jmx.address, collection |-> file.jmx.collection, java |-> JavaVersion]

NoTest(file) == With("Warning", JmxConfig(file))
ConnectionResult(file) ==
  With(CASE BuildNrjmxArgs(file.jmx.address) \notin host.server -> "Failure"
         [] OTHER -> IF "" \in {file.jmx.address.host, file.jmx.address.port} THEN "Warning" ELSE "Success",
       JmxConfig(file))

ValidateJMX ==
  /\ Ready(Jmx, {Match})
  /\ \/ Unmatched(Jmx, "jmx") /\ UNCHANGED tested
     \/ /\ "jmx" \in DOMAIN Pairs
        /\ LET file == Pairs["jmx"].config
           IN  IF file.twice \/ file.jmx.collection = ""
               THEN Return(Jmx, Verdict("Failure")) /\ UNCHANGED tested
               ELSE /\ Return(Jmx, ConnectionResult(file))
                    /\ tested' = {BuildNrjmxArgs(file.jmx.address)}
  /\ UNCHANGED <<host, declined, copied, asked, listed>>

\* The address as it is written, and no user.
QueryAddress(address) == [address EXCEPT !.auth = FALSE]
Answer(q, address) == IF address \in host.server THEN host.query[q] ELSE "error"

\* summaryErr is still empty when it is tested: the errors are not told.
QueriesResult(address) ==
  Verdict(IF \E q \in DOMAIN host.query : Answer(q, address) = "nothing" THEN "Failure" ELSE "Success")

NrjmxMbeans ==
  /\ Ready(Mbeans, {Jmx})
  /\ LET upstream == Upstream(Jmx)
     IN  CASE upstream.status \in {"None", "Failure"} -> Return(Mbeans, Verdict("None")) /\ UNCHANGED asked
           [] upstream.status = "Error" -> Return(Mbeans, Verdict("Error")) /\ UNCHANGED asked
           [] OTHER ->
                CASE upstream.payload.collection = "unreadable" -> Return(Mbeans, Verdict("Error")) /\ UNCHANGED asked
                  [] upstream.payload.collection = "none" -> Return(Mbeans, Verdict("None")) /\ UNCHANGED asked
                  [] OTHER -> LET address == QueryAddress(upstream.payload.address)
                              IN  Return(Mbeans, QueriesResult(address)) /\ asked' = {address}
  /\ UNCHANGED <<host, declined, copied, tested, listed>>

-----------------------------------------------------------------------------
(* Kafka *)

\* KAFKA_HOME, ZOOKEEPER_HOME or PATH: the first that is set is the only one
\* that is looked at, and "bin" is added unless it is somewhere in it.
GetZookeeperShellScriptPath ==
  IF host.home = <<>> THEN {} ELSE IF Head(host.home).bin THEN Head(host.home).here ELSE Head(host.home).below

\* The last port that is not 0, of whatever host; 2181 unless there is one.
GetZookeeperPort(hosts) == FoldLeft(LAMBDA port, h : IF h.port # 0 THEN h.port ELSE port, 2181, hosts)

AnyPath(port, path) == \E p \in {path, ""} : <<"localhost", port, p>> \in host.brokers
GetKafkaBrokersList(port, path) == <<"localhost", port, path>> \in host.brokers

ValidateZookeeperPath ==
  /\ Ready(Zookeeper, {Match})
  /\ \/ Upstream(Match).status # "None" /\ ~host.shell /\ Return(Zookeeper, Verdict("None")) /\ UNCHANGED listed
     \/ (host.shell \/ Upstream(Match).status = "None") /\ Unmatched(Zookeeper, "kafka") /\ UNCHANGED listed
     \/ /\ host.shell /\ "kafka" \in DOMAIN Pairs
        /\ LET file == Pairs["kafka"].config
               hosts == file.zookeeper.hosts
               port == GetZookeeperPort(hosts)
           IN  CASE file.twice \/ file.json # "array" -> Return(Zookeeper, Verdict("Error")) /\ UNCHANGED listed
                 [] ~file.twice /\ file.json = "array" /\ None \in ToSet(hosts) -> Panic /\ UNCHANGED listed
                 [] OTHER ->
                      IF GetZookeeperShellScriptPath = {} THEN Return(Zookeeper, Verdict("Error")) /\ UNCHANGED listed
                      ELSE /\ listed' = {[host |-> "localhost", port |-> port]}
                           /\ Return(Zookeeper, Verdict(
                                IF GetKafkaBrokersList(port, file.zookeeper.path) THEN "Success" ELSE "Failure"))
  /\ UNCHANGED <<host, declined, copied, tested, asked>>

Done == (Tasks \subseteq DOMAIN results \/ process = "panicked") /\ UNCHANGED vars

Next ==
  \/ IntegrationsCollect \/ IntegrationsValidate \/ IntegrationsValidateJson \/ IntegrationsMatch
  \/ ValidateJMX \/ NrjmxMbeans \/ ValidateZookeeperPath \/ Done

Spec == Init /\ [][Next]_vars

-----------------------------------------------------------------------------
(* Properties *)

Succeeded(t) == Upstream(t).status = "Success"
Files == ToSet(host.files)

\* Results have the statuses of the tasks, and a task leaves one only when the
\* process goes on; a connection was tested at an address that is complete.
TypeOK ==
  /\ process \in {"running", "panicked"}
  /\ DOMAIN results \subseteq Tasks
  /\ \A t \in DOMAIN results : results[t].status \in Status
  /\ declined \cup copied \subseteq Files
  /\ \A a \in tested : "" \notin {a.host, a.port}

\* A file that the user was asked for and kept back (integrationsCollect.go:74)
\* is used by the other tasks and never part of the archive, nor is any other
\* file left out.
DeclinedNotCopied == Succeeded(Collect) => declined \cap copied = {} /\ declined \cup copied = Files

\* The files of an integration in their places, and that there is no double.
Placed(i, kind) == {f \in Files : f.of = i /\ f.kind = kind /\ f.place}
Sole(i, kind) == \A m, n \in Places(host.files, i, kind) : m = n

\* Where no file has a double, the pairs that Match hands on are those of the
\* files (integrationsMatch.go:104-106): a configuration that is new enough to do
\* without a definition, or one whose definition has its name.
MatchAgrees ==
  Holds(Upstream(Match)) =>
    \A i \in {j \in Integration : Sole(j, "config") /\ Sole(j, "definition")} :
      i \in DOMAIN Pairs <=>
        \E c \in Placed(i, "config") :
          \/ Placed(i, "definition") = {} /\ c.v4 /\ host.version.payload >= NewConfigFormat
          \/ \E d \in Placed(i, "definition") :
               d.name # None /\ (c.v4 \/ c.name = "" \/ (c.name # None /\ d.name \in {c.name, ""}))

\* Queries are sent only after an answer to the connection test, with the keys
\* of the same file (nrjmxMbeans.go:53), and a connection that failed leaves
\* them out.
QueriesAfterConnection == asked # {} => tested # {} /\ tested \subseteq host.server

\* Success means that the path of the settings has brokers, although the
\* default path is tried as well (validateZookeeperPath_linux.go:220).
ConfiguredPathWorks ==
  Succeeded(Zookeeper) =>
    \E p \in listed : <<"localhost", p.port, Pairs["kafka"].config.zookeeper.path>> \in host.brokers

\* JSON that the integration cannot read is not passed as valid
\* (integrationsValidateJson.go:85), whichever file it is in.
JsonChecked ==
  Succeeded(Json) => \A f \in Files : f.kind = "config" /\ f.of \in {"kafka", "redis"} => f.json # "invalid"

=============================================================================
