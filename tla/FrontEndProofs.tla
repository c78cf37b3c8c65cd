--------------------------- MODULE FrontEndProofs ---------------------------
(***************************************************************************)
(* Proofs about a run of nrdiag around its tasks, for every set of command *)
(* lines and environments, every suite and every task: where the requests  *)
(* go, which suites are run, what a panic is about and where the files of  *)
(* a script are left.                                                      *)
(***************************************************************************)
EXTENDS FrontEnd, TLAPS

Early == {"flags", "proxy", "overrides", "client"}
Places == Early \cup {"modes", "script", "output", "start", "dispatch",
                      "archive", "uploads", "usage", "check"}
AfterTasks == {"archive", "uploads", "usage", "check"}

OnlyCatalog == \A r \in requests : r.to = "catalog"

\* Until the tasks run, the requests are for a script; there is none before the
\* client exists.
RequestsByPlace ==
  /\ pc \in Early => requests = {}
  /\ exit = "running" /\ pc \in Places \ AfterTasks => OnlyCatalog

\* The proxy is in HTTP_PROXY before anything is sent, and it is of use.
ProxyInPlace ==
  /\ pc \notin {"flags", "proxy"} => ValidateHTTPProxy(Proxy) = "good" /\ httpProxy = Proxy
  /\ PlainRequestsProxied

\* Each kind of request has its region before it is sent.
RegionsInPlace ==
  /\ pc # "flags" =>
       /\ {"usage", "upload"} \subseteq DOMAIN region
       /\ region["usage"] = ParseRegionFlagAndEnv
       /\ region["upload"] \in {ParseRegionFlagAndEnv, "given"}
  /\ pc \notin Early =>
       "haberdasher" \in DOMAIN region /\ region["haberdasher"] = ParseRegionFlagAndEnv
  /\ \A r \in requests : r.to \in Services => r.region \in {ParseRegionFlagAndEnv, "given"}

\* The goroutine starts late, and the tasks wait for its end.
RegistrarInPlace ==
  /\ pc \in Places \ (AfterTasks \cup {"dispatch"}) <=> registrar = "off"
  /\ pc \in AfterTasks => registrar = "done"

\* What it has selected, when -suites tells.
SuitesSelected ==
  registrar = "done" /\ TasksFlag = <<>> /\ inv.suites # <<>> =>
    /\ SuiteIdentifiers # {} /\ UnmatchedSuites = {} /\ CaptureOutOfPlaceArgs = {}
    /\ queue = UNION {TasksOf[s] : s \in MatchedSuites}

\* The files of a script: what it made is on the disk, and the archive is filled
\* when nothing is written any more.
ScriptFiles ==
  /\ script = None \/ script.found \subseteq DOMAIN disk \ {"script"}
  /\ pc \notin {"uploads", "usage", "check"} => DOMAIN zip = {}

FrontInv ==
  /\ TypeOK /\ pc \in Places
  /\ RequestsByPlace
  /\ ProxyInPlace
  /\ RegionsInPlace
  /\ RegistrarInPlace
  /\ SuitesSelected
  /\ ScriptFiles
  /\ PanicHasCause
  /\ FilesAccounted

-----------------------------------------------------------------------------
(* Invocations and regions *)

\* What a sequence is made of.
LEMMA Elements ==
  ASSUME NEW S, NEW s \in Seq(S)
  PROVE  /\ Range(s) \subseteq S
         /\ \A n \in DOMAIN s : s[n] \in S
         /\ \A T : S \subseteq T => s \in Seq(T)
<1>1. \A n \in DOMAIN s : s[n] \in S
  OBVIOUS
<1>2. Range(s) \subseteq S
  BY <1>1 DEF Range
<1>3. ASSUME NEW T, S \subseteq T PROVE s \in Seq(T)
  BY <1>3, <1>1
<1> QED
  BY <1>1, <1>2, <1>3

\* What the steps use of a command line.
LEMMA InvocationTypes ==
  ASSUME TypeOK
  PROVE  /\ inv \in InvocationType
         /\ OverrideFlag = <<>> \/ OverrideFlag \in Seq(Overrides) \ {<<>>}
         /\ ProcessFlagsTasks \subseteq AllTasks
         /\ CaptureOutOfPlaceArgs \subseteq Suite
         /\ UNION {TasksOf[s] : s \in MatchedSuites} \subseteq AllTasks
<1>1. inv \in InvocationType
  BY FrontEndAssumption DEF TypeOK
<1>2. OverrideFlag = <<>> \/ OverrideFlag \in Seq(Overrides) \ {<<>>}
  <2>1. inv.override \in Seq(Overrides)
    BY <1>1 DEF InvocationType
  <2> DEFINE first == [form |-> IF inv.browserURL = "plain" THEN "pair" ELSE "equals", value |-> "url"]
             rest == IF inv.override = <<>> THEN <<[form |-> "", value |-> "set"]>> ELSE inv.override
  <2>2. first \in Overrides /\ [form |-> "", value |-> "set"] \in Overrides
    BY DEF Overrides
  <2>3. ASSUME NEW o \in Overrides PROVE <<o>> \in Seq(Overrides) /\ Len(<<o>>) = 1
    OBVIOUS
  <2>4. rest \in Seq(Overrides) /\ <<first>> \in Seq(Overrides) /\ Len(<<first>>) = 1
    BY <2>1, <2>2, <2>3
  <2> HIDE DEF first, rest
  <2>5. <<first>> \o rest \in Seq(Overrides) \ {<<>>}
    BY <2>4
  <2> QED
    BY <2>1, <2>5 DEF OverrideFlag, first, rest
<1>3. ProcessFlagsTasks \subseteq AllTasks
  <2>1. inv.tasks \in Seq([id : Task \cup {""}, spaced : BOOLEAN])
    BY <1>1 DEF InvocationType
  <2>2. TasksFlag \in Seq([id : Task \cup {"", BrowserTask}, spaced : BOOLEAN])
    <3> DEFINE S == [id : Task \cup {""}, spaced : BOOLEAN]
               T == [id : Task \cup {"", BrowserTask}, spaced : BOOLEAN]
    <3>1. S \subseteq T /\ inv.tasks \in Seq(S)
      BY <2>1
    <3>2. inv.tasks \in Seq(T)
      <4> HIDE DEF S, T
      <4> QED
        BY <3>1, Elements
    <3>3. [id |-> BrowserTask, spaced |-> FALSE] \in T
      OBVIOUS
    <3> HIDE DEF T
    <3>4. <<[id |-> BrowserTask, spaced |-> FALSE]>> \o inv.tasks \in Seq(T)
      BY <3>2, <3>3
    <3>5. TasksFlag \in Seq(T)
      BY <3>2, <3>4 DEF TasksFlag
    <3> QED
      BY <3>5 DEF T
  <2>3. Range(TasksFlag) \subseteq [id : Task \cup {"", BrowserTask}, spaced : BOOLEAN]
    BY <2>2, Elements
  <2>4. \A j \in Range(TasksFlag) : j.id # "" => j.id \in Task \cup {BrowserTask}
    BY <2>3
  <2> QED
    BY <2>4 DEF ProcessFlagsTasks, AllTasks
<1>4. CaptureOutOfPlaceArgs \subseteq Suite
  <2>1. inv.args \in Seq([suite : Suite \cup {None}, holds : SUBSET Suite])
    BY <1>1 DEF InvocationType
  <2>2. \A n \in DOMAIN inv.args : inv.args[n].suite \in Suite \cup {None}
    <3> DEFINE S == [suite : Suite \cup {None}, holds : SUBSET Suite]
    <3>1. inv.args \in Seq(S)
      BY <2>1
    <3>2. \A n \in DOMAIN inv.args : inv.args[n] \in S
      <4> HIDE DEF S
      <4> QED
        BY <3>1, Elements
    <3> QED
      BY <3>2
  <2> QED
    BY <2>2 DEF CaptureOutOfPlaceArgs
<1>5. UNION {TasksOf[s] : s \in MatchedSuites} \subseteq AllTasks
  BY FrontEndAssumption DEF MatchedSuites
<1> QED
  BY <1>1, <1>2, <1>3, <1>4, <1>5

\* What the command line and the environment say stays as it is.
LEMMA SameInvocation ==
  ASSUME inv' = inv
  PROVE  /\ Proxy' = Proxy /\ ParseRegionFlagAndEnv' = ParseRegionFlagAndEnv
         /\ OverrideFlag' = OverrideFlag /\ TasksFlag' = TasksFlag
         /\ SuiteIdentifiers' = SuiteIdentifiers
         /\ UnmatchedSuites' = UnmatchedSuites /\ MatchedSuites' = MatchedSuites
         /\ CaptureOutOfPlaceArgs' = CaptureOutOfPlaceArgs
         /\ NamesOf(inv)' = NamesOf(inv) /\ \A k : Scheme(k)' = Scheme(k)
BY DEF Proxy, Scheme, NamesOf, ParseRegionFlagAndEnv, OverrideFlag, TasksFlag, UnmatchedSuites, MatchedSuites,
       SuiteIdentifiers, CaptureOutOfPlaceArgs

Kinds == Services \cup {"version", "download", "catalog"}

\* What may be true of every request.
GoodRequest(r) ==
  /\ r.to \in Kinds
  /\ Proxy # None /\ Scheme(r.to) = "http" => r.via = "proxied"
  /\ r.to \in Services => r.region \in {ParseRegionFlagAndEnv, "given"}

\* Once the client exists, what is sent goes the way and to the region it should.
LEMMA SentGood ==
  ASSUME FrontInv, pc \notin Early, inv' = inv,
         NEW kinds \in SUBSET Kinds, requests' = requests \/ Sent(kinds)
  PROVE  \A r \in requests' : GoodRequest(r)'
<1>1. \A r \in requests : GoodRequest(r)
  BY DEF FrontInv, TypeOK, ProxyInPlace, PlainRequestsProxied, RegionsInPlace, GoodRequest, Kinds
<1>2. ASSUME NEW k \in kinds
      PROVE  GoodRequest([to |-> k,
                          via |-> IF ProxyFromEnvironment(k) = None THEN "direct" ELSE "proxied",
                          region |-> IF k \in DOMAIN region THEN region[k] ELSE None])
  BY DEF FrontInv, ProxyInPlace, ProxyFromEnvironment, RegionsInPlace, GoodRequest, Kinds, Services, Early
<1>3. \A r \in requests' : GoodRequest(r)
  BY <1>1, <1>2 DEF Sent
<1>4. \A r : GoodRequest(r)' <=> GoodRequest(r)
  BY SameInvocation DEF GoodRequest
<1> QED
  BY <1>3, <1>4

\* Good requests are what the invariants ask of requests, and they are as asked.
LEMMA GoodRequestsSuffice ==
  ASSUME \A r \in requests : GoodRequest(r)
  PROVE  /\ \A r \in requests : r.to \in Services \cup {"version", "download", "catalog"}
         /\ PlainRequestsProxied
         /\ \A r \in requests : r.to \in Services => r.region \in {ParseRegionFlagAndEnv, "given"}
BY DEF GoodRequest, Kinds, PlainRequestsProxied

LEMMA FrontInitially == Init => FrontInv
<1> SUFFICES ASSUME Init PROVE FrontInv
  OBVIOUS
<1>1. inv.before \subseteq {"out", "file"}
  BY FrontEndAssumption DEF Init, InvocationType
<1>2. Range(disk) \subseteq {"old", "new"} /\ DOMAIN disk = inv.before /\ DOMAIN zip = {}
  BY DEF Init, Range
<1>3. TypeOK
  <2>1. inv.http_proxy \in Proxies
    BY FrontEndAssumption DEF Init, InvocationType
  <2> QED
    BY <1>2, <2>1 DEF Init, TypeOK
<1>4. FilesAccounted
  BY <1>1, <1>2 DEF Init, FilesAccounted, ScriptLeftByFailureOnly, ScriptFilesAccounted
<1> QED
  BY <1>2, <1>3, <1>4
     DEF Init, FrontInv, Places, Early, AfterTasks, RequestsByPlace, OnlyCatalog, ProxyInPlace, PlainRequestsProxied,
         RegionsInPlace, RegistrarInPlace, SuitesSelected, ScriptFiles, PanicHasCause

-----------------------------------------------------------------------------
(* The steps up to the modes *)

LEMMA ParseFlagsKeeps ==
  ASSUME FrontInv, ParseFlags
  PROVE  FrontInv'
<1> USE SameInvocation
<1>1. /\ UNCHANGED <<inv, registrar, queue, orphans, httpProxy, applied, requests, disk, script, zip, told>>
      /\ pc = "flags" /\ pc' = "proxy" /\ exit = "running" /\ exit' = "running"
      /\ region' = Endpoints /\ requests = {}
  BY DEF ParseFlags, At, Goto, files, FrontInv, RequestsByPlace, Early
<1>2. TypeOK'
  BY <1>1 DEF FrontInv, TypeOK
<1>3. RegionsInPlace'
  BY <1>1 DEF RegionsInPlace, Endpoints, Early
<1>4. FilesAccounted'
  BY <1>1 DEF FrontInv, FilesAccounted, ScriptLeftByFailureOnly, ScriptFilesAccounted
<1> QED
  BY <1>1, <1>2, <1>3, <1>4
     DEF FrontInv, Places, Early, AfterTasks, RequestsByPlace, OnlyCatalog, ProxyInPlace, PlainRequestsProxied,
         RegistrarInPlace, SuitesSelected, ScriptFiles, PanicHasCause

LEMMA ProcessHTTPProxyKeeps ==
  ASSUME FrontInv, ProcessHTTPProxy
  PROVE  FrontInv'
<1> USE SameInvocation
<1>1. /\ UNCHANGED <<inv, registrar, queue, orphans, region, applied, requests, disk, script, zip, told>>
      /\ pc = "proxy" /\ exit = "running" /\ requests = {}
      /\ \/ pc' = "proxy" /\ exit' \in {"1", "3"} /\ httpProxy' = httpProxy
         \/ /\ pc' = "overrides" /\ exit' = "running"
            /\ httpProxy' = Proxy /\ ValidateHTTPProxy(Proxy) = "good"
  BY DEF ProcessHTTPProxy, ValidateHTTPProxy, At, Goto, Exit, files, FrontInv, RequestsByPlace, Early
<1>2. TypeOK'
  <2>1. Proxy \in Proxies
    BY InvocationTypes DEF FrontInv, InvocationType, Proxy
  <2> QED
    BY <1>1, <2>1 DEF FrontInv, TypeOK
<1>3. FilesAccounted'
  <2>1. "script" \notin DOMAIN disk
    BY <1>1 DEF FrontInv, FilesAccounted, ScriptLeftByFailureOnly
  <2> QED
    BY <1>1, <2>1 DEF FilesAccounted, ScriptLeftByFailureOnly, ScriptFilesAccounted
<1> QED
  BY <1>1, <1>2, <1>3
     DEF FrontInv, Places, Early, AfterTasks, RequestsByPlace, OnlyCatalog, ProxyInPlace, PlainRequestsProxied,
         RegionsInPlace, RegistrarInPlace, SuitesSelected, ScriptFiles, PanicHasCause

LEMMA ProcessOverridesKeeps ==
  ASSUME FrontInv, ProcessOverrides
  PROVE  FrontInv'
<1> USE SameInvocation
<1>1. /\ UNCHANGED <<inv, registrar, queue, orphans, httpProxy, region, requests, disk, script, zip, told>>
      /\ pc = "overrides" /\ exit = "running" /\ requests = {}
      /\ \/ /\ pc' = "overrides" /\ exit' = "panic"
            /\ OverrideFlag # <<>> /\ WellFormed = {}
         \/ pc' = "client" /\ exit' = "running"
  BY DEF ProcessOverrides, At, Goto, Exit, files, FrontInv, RequestsByPlace, Early
<1>2. TypeOK'
  BY <1>1 DEF FrontInv, TypeOK
<1>3. PanicHasCause'
  BY <1>1 DEF PanicHasCause, WellFormed
<1>4. FilesAccounted'
  <2>1. "script" \notin DOMAIN disk
    BY <1>1 DEF FrontInv, FilesAccounted, ScriptLeftByFailureOnly
  <2> QED
    BY <1>1, <2>1 DEF FilesAccounted, ScriptLeftByFailureOnly, ScriptFilesAccounted
<1> QED
  BY <1>1, <1>2, <1>3, <1>4
     DEF FrontInv, Places, Early, AfterTasks, RequestsByPlace, OnlyCatalog, ProxyInPlace, PlainRequestsProxied,
         RegionsInPlace, RegistrarInPlace, SuitesSelected, ScriptFiles

LEMMA InitializeClientKeeps ==
  ASSUME FrontInv, InitializeClient
  PROVE  FrontInv'
<1> USE SameInvocation
<1>1. /\ UNCHANGED <<inv, registrar, queue, orphans, httpProxy, applied, requests, disk, script, zip, told>>
      /\ pc = "client" /\ pc' = "modes" /\ exit = "running" /\ exit' = "running" /\ requests = {}
  BY DEF InitializeClient, At, Goto, files, FrontInv, RequestsByPlace, Early
<1>2. TypeOK'
  BY <1>1 DEF FrontInv, TypeOK
<1>3. RegionsInPlace'
  BY <1>1 DEF FrontInv, RegionsInPlace, InitializeClient, Early
<1>4. FilesAccounted'
  BY <1>1 DEF FrontInv, FilesAccounted, ScriptLeftByFailureOnly, ScriptFilesAccounted
<1> QED
  BY <1>1, <1>2, <1>3, <1>4
     DEF FrontInv, Places, Early, AfterTasks, RequestsByPlace, OnlyCatalog, ProxyInPlace, PlainRequestsProxied,
         RegistrarInPlace, SuitesSelected, ScriptFiles, PanicHasCause

-----------------------------------------------------------------------------
(* The steps of the modes and the scripts *)

LEMMA VersionForCLIKeeps ==
  ASSUME FrontInv, VersionForCLI \/ PrintScriptList
  PROVE  FrontInv'
<1> USE SameInvocation
<1>1. /\ UNCHANGED <<inv, registrar, queue, orphans, httpProxy, region, applied, disk, script, zip, told>>
      /\ pc = "modes" /\ pc' = "modes" /\ exit = "running" /\ exit' \in {"0", "1"}
      /\ Sent({"version"}) \/ Sent({"catalog"})
  BY DEF VersionForCLI, PrintScriptList, At, Exit, files, front
<1>2. \A r \in requests' : GoodRequest(r)'
  BY <1>1, SentGood DEF Kinds, Early
<1>3. TypeOK' /\ ProxyInPlace' /\ RegionsInPlace'
  BY <1>1, <1>2 DEF FrontInv, TypeOK, ProxyInPlace, PlainRequestsProxied, RegionsInPlace, GoodRequest, Kinds, Early
<1>4. FilesAccounted'
  <2>1. "script" \notin DOMAIN disk
    BY <1>1 DEF FrontInv, FilesAccounted, ScriptLeftByFailureOnly
  <2> QED
    BY <1>1, <2>1 DEF FilesAccounted, ScriptLeftByFailureOnly, ScriptFilesAccounted
<1> QED
  BY <1>1, <1>3, <1>4
     DEF FrontInv, Places, Early, AfterTasks, RequestsByPlace, OnlyCatalog,
         RegistrarInPlace, SuitesSelected, ScriptFiles, PanicHasCause

LEMMA ProcessScriptKeeps ==
  ASSUME FrontInv, NoScript \/ ProcessScript
  PROVE  FrontInv'
<1> USE SameInvocation
<1>1. /\ UNCHANGED <<inv, registrar, queue, orphans, httpProxy, region, applied, disk, script, zip, told>>
      /\ pc = "modes" /\ pc' \in {"modes", "script", "start"} /\ exit = "running"
      /\ exit' \in {"running", "0", "1"}
      /\ requests' = requests \/ Sent({"catalog"})
  BY DEF NoScript, ProcessScript, At, Goto, Exit, files, front
<1>2. \A r \in requests' : GoodRequest(r)'
  BY <1>1, SentGood DEF Kinds, Early
<1>3. TypeOK' /\ ProxyInPlace' /\ RegionsInPlace'
  BY <1>1, <1>2 DEF FrontInv, TypeOK, ProxyInPlace, PlainRequestsProxied, RegionsInPlace, GoodRequest, Kinds, Early
<1>4. OnlyCatalog'
  BY <1>1 DEF FrontInv, RequestsByPlace, OnlyCatalog, Places, AfterTasks, Sent
<1>5. FilesAccounted'
  <2>1. "script" \notin DOMAIN disk
    BY <1>1 DEF FrontInv, FilesAccounted, ScriptLeftByFailureOnly
  <2> QED
    BY <1>1, <2>1 DEF FilesAccounted, ScriptLeftByFailureOnly, ScriptFilesAccounted
<1> QED
  BY <1>1, <1>3, <1>4, <1>5
     DEF FrontInv, Places, Early, AfterTasks, RequestsByPlace,
         RegistrarInPlace, SuitesSelected, ScriptFiles, PanicHasCause

\* What a written disk is made of.
LEMMA WrittenDisk ==
  ASSUME NEW d, NEW new, Range(d) \subseteq {"old", "new"}
  PROVE  /\ DOMAIN Written(d, new) = DOMAIN d \cup new
         /\ Range(Written(d, new)) \subseteq {"old", "new"}
         /\ DOMAIN Removed(d) = DOMAIN d \ {"script"}
         /\ Range(Removed(d)) \subseteq {"old", "new"}
BY DEF Written, Removed, Range

LEMMA RunScriptKeeps ==
  ASSUME FrontInv, RunScript
  PROVE  FrontInv'
<1> USE SameInvocation
<1>1. /\ UNCHANGED <<inv, registrar, queue, orphans, httpProxy, region, applied, requests, zip, told>>
      /\ pc = "script" /\ exit = "running"
  BY DEF RunScript, At, front
<1>2. PICK new :
        LET during == Written(disk, new)
        IN \/ /\ pc' = "output" /\ exit' = "running" /\ disk' = Removed(during)
              /\ \E prints \in BOOLEAN :
                   script' = [prints |-> prints, found |-> DOMAIN during \cap {"file"}]
           \/ pc' = "script" /\ exit' = "1" /\ disk' = during /\ script' = script
  <2>1. PICK made \in SUBSET {"file"}, saved \in BOOLEAN, worked \in BOOLEAN, prints \in BOOLEAN :
          LET during == Written(disk, IF saved THEN {"script"} \cup made ELSE {})
          IN  IF saved /\ worked
              THEN /\ Goto("output") /\ disk' = Removed(during)
                   /\ script' = [prints |-> prints, found |-> DOMAIN during \cap {"file"}]
              ELSE Exit("1") /\ disk' = during /\ UNCHANGED script
    BY DEF RunScript
  <2> DEFINE new == IF saved THEN {"script"} \cup made ELSE {}
  <2> HIDE DEF new
  <2>2. IF saved /\ worked
        THEN /\ Goto("output") /\ disk' = Removed(Written(disk, new))
             /\ script' = [prints |-> prints, found |-> DOMAIN Written(disk, new) \cap {"file"}]
        ELSE Exit("1") /\ disk' = Written(disk, new) /\ UNCHANGED script
    BY <2>1 DEF new
  <2> QED
    BY <1>1, <2>2 DEF Goto, Exit
<1> DEFINE during == Written(disk, new)
<1>3. /\ Range(disk) \subseteq {"old", "new"} /\ Range(during) \subseteq {"old", "new"}
      /\ DOMAIN Removed(during) = DOMAIN during \ {"script"}
      /\ Range(Removed(during)) \subseteq {"old", "new"}
      /\ DOMAIN during = DOMAIN disk \cup new
  <2>1. Range(disk) \subseteq {"old", "new"}
    BY DEF FrontInv, TypeOK
  <2>2. Range(during) \subseteq {"old", "new"} /\ DOMAIN during = DOMAIN disk \cup new
    BY <2>1, WrittenDisk
  <2>3. /\ DOMAIN Removed(during) = DOMAIN during \ {"script"}
        /\ Range(Removed(during)) \subseteq {"old", "new"}
    BY <2>2, WrittenDisk
  <2> QED
    BY <2>1, <2>2, <2>3
<1> HIDE DEF during
<1>4. /\ Range(disk') \subseteq {"old", "new"} /\ DOMAIN zip = {}
      /\ OnlyCatalog /\ pc' \in {"script", "output"} /\ exit' \in {"running", "1"}
      /\ "script" \in DOMAIN disk' => exit' = "1"
  BY <1>1, <1>2, <1>3
     DEF FrontInv, ScriptFiles, RequestsByPlace, Places, AfterTasks, during
<1>5. TypeOK'
  BY <1>1, <1>4 DEF FrontInv, TypeOK
<1>6. ScriptFiles'
  <2>1. CASE script' = script
    <3>1. DOMAIN disk \ {"script"} \subseteq DOMAIN disk' \ {"script"}
      BY <1>2, <1>3 DEF during
    <3> QED
      BY <1>1, <1>4, <2>1, <3>1 DEF FrontInv, ScriptFiles
  <2>2. CASE /\ disk' = Removed(during)
             /\ \E prints \in BOOLEAN :
                  script' = [prints |-> prints, found |-> DOMAIN during \cap {"file"}]
    BY <1>1, <1>3, <1>4, <2>2 DEF ScriptFiles
  <2> QED
    BY <1>2, <2>1, <2>2 DEF during
<1>7. FilesAccounted'
  BY <1>1, <1>4 DEF FilesAccounted, ScriptLeftByFailureOnly, ScriptFilesAccounted, OnlyCatalog
<1> QED
  BY <1>1, <1>4, <1>5, <1>6, <1>7
     DEF FrontInv, Places, Early, AfterTasks, RequestsByPlace, OnlyCatalog, ProxyInPlace, PlainRequestsProxied,
         RegionsInPlace, RegistrarInPlace, SuitesSelected, PanicHasCause

LEMMA WriteScriptOutputFileKeeps ==
  ASSUME FrontInv, WriteScriptOutputFile
  PROVE  FrontInv'
<1> USE SameInvocation
<1>1. /\ UNCHANGED <<inv, registrar, queue, orphans, httpProxy, region, applied, requests, script, zip, told>>
      /\ pc = "output" /\ pc' = "start" /\ exit = "running" /\ exit' = "running"
      /\ disk' = disk \/ disk' = Written(disk, {"out"})
  BY DEF WriteScriptOutputFile, At, Goto, front
<1>2. /\ Range(disk') \subseteq {"old", "new"} /\ DOMAIN disk \subseteq DOMAIN disk'
      /\ DOMAIN disk' \subseteq DOMAIN disk \cup {"out"}
  <2>1. Range(disk) \subseteq {"old", "new"}
    BY DEF FrontInv, TypeOK
  <2>2. /\ Range(Written(disk, {"out"})) \subseteq {"old", "new"}
        /\ DOMAIN Written(disk, {"out"}) = DOMAIN disk \cup {"out"}
    BY <2>1, WrittenDisk
  <2> QED
    BY <1>1, <2>1, <2>2
<1>3. "script" \notin DOMAIN disk'
  BY <1>1, <1>2 DEF FrontInv, FilesAccounted, ScriptLeftByFailureOnly
<1>4. DOMAIN zip = {}
  BY <1>1 DEF FrontInv, ScriptFiles
<1>5. TypeOK'
  BY <1>1, <1>2, <1>4 DEF FrontInv, TypeOK
<1>6. FilesAccounted' /\ ScriptFiles'
  BY <1>1, <1>2, <1>3, <1>4
     DEF FilesAccounted, ScriptLeftByFailureOnly, ScriptFilesAccounted, FrontInv, ScriptFiles
<1> QED
  BY <1>1, <1>5, <1>6
     DEF FrontInv, Places, Early, AfterTasks, RequestsByPlace, OnlyCatalog, ProxyInPlace, PlainRequestsProxied,
         RegionsInPlace, RegistrarInPlace, SuitesSelected, PanicHasCause

-----------------------------------------------------------------------------
(* The selection of the tasks *)

LEMMA StartRegistrarKeeps ==
  ASSUME FrontInv, StartRegistrar
  PROVE  FrontInv'
<1> USE SameInvocation
<1>1. /\ UNCHANGED <<inv, queue, orphans, httpProxy, region, applied, requests, disk, script, zip, told>>
      /\ pc = "start" /\ pc' = "dispatch" /\ exit = "running" /\ exit' = "running"
      /\ registrar' = "running"
  BY DEF StartRegistrar, At, Goto, files, front
<1>2. TypeOK'
  BY <1>1 DEF FrontInv, TypeOK
<1>3. FilesAccounted'
  BY <1>1 DEF FrontInv, FilesAccounted, ScriptLeftByFailureOnly, ScriptFilesAccounted
<1> QED
  BY <1>1, <1>2, <1>3
     DEF FrontInv, Places, Early, AfterTasks, RequestsByPlace, OnlyCatalog, ProxyInPlace, PlainRequestsProxied,
         RegionsInPlace, RegistrarInPlace, SuitesSelected, ScriptFiles, PanicHasCause

LEMMA ProcessTasksToRunKeeps ==
  ASSUME FrontInv, ProcessTasksToRun
  PROVE  FrontInv'
<1> USE SameInvocation
<1>1. /\ UNCHANGED <<inv, pc, httpProxy, region, applied, requests, disk, script, zip>>
      /\ exit = "running" /\ registrar = "running" /\ pc = "dispatch"
  BY DEF ProcessTasksToRun, files, front, FrontInv, RegistrarInPlace, Places
<1>2. /\ exit' \in {"running", "1", "panic"} /\ registrar' \in {"running", "done"}
      /\ queue' \subseteq AllTasks /\ orphans' \subseteq Suite
      /\ exit' = "running" \/ registrar' = "running"
  <2>1. /\ ProcessFlagsTasks \subseteq AllTasks /\ CaptureOutOfPlaceArgs \subseteq Suite
        /\ UNION {TasksOf[s] : s \in MatchedSuites} \subseteq AllTasks
        /\ queue \subseteq AllTasks /\ orphans \subseteq Suite
    BY InvocationTypes DEF FrontInv, TypeOK
  <2> HIDE DEF AllTasks, ProcessFlagsTasks, CaptureOutOfPlaceArgs, MatchedSuites
  <2> QED
    BY <1>1, <2>1 DEF ProcessTasksToRun, CompleteTaskRegistration
<1>3. exit' = "panic" => TasksFlag = <<>> /\ inv.suites # <<>> /\ SuiteIdentifiers = {}
  BY <1>1 DEF ProcessTasksToRun
<1>4. SuitesSelected'
  BY <1>1 DEF SuitesSelected, ProcessTasksToRun, Accepted
<1>5. OnlyCatalog
  BY <1>1 DEF FrontInv, RequestsByPlace, Places, AfterTasks
<1>6. PanicHasCause'
  <2> SUFFICES ASSUME exit' = "panic" PROVE Range(inv.suites) = {""}
    BY <1>1, <1>3, <1>5 DEF PanicHasCause, OnlyCatalog
  <2>1. inv.suites \in Seq(Suite \cup {"", "unknown"})
    BY InvocationTypes DEF FrontInv, InvocationType
  <2>2. \A n \in DOMAIN inv.suites : inv.suites[n] = ""
    BY <1>3 DEF SuiteIdentifiers, NamesOf
  <2>3. 1 \in DOMAIN inv.suites
    <3>1. ASSUME NEW S, NEW list \in Seq(S), list # <<>> PROVE 1 \in DOMAIN list
      BY <3>1
    <3> QED
      BY <1>3, <2>1, <3>1
  <2> QED
    BY <2>2, <2>3 DEF Range
<1>7. TypeOK'
  BY <1>1, <1>2 DEF FrontInv, TypeOK
<1>8. FilesAccounted'
  <2>1. "script" \notin DOMAIN disk
    BY <1>1 DEF FrontInv, FilesAccounted, ScriptLeftByFailureOnly
  <2> QED
    BY <1>1, <2>1 DEF FilesAccounted, ScriptLeftByFailureOnly, ScriptFilesAccounted
<1>9. RegistrarInPlace'
  BY <1>1, <1>2 DEF RegistrarInPlace, Places, Early, AfterTasks
<1> QED
  BY <1>1, <1>2, <1>4, <1>5, <1>6, <1>7, <1>8, <1>9
     DEF FrontInv, Places, Early, AfterTasks, RequestsByPlace, OnlyCatalog, ProxyInPlace, PlainRequestsProxied,
         RegionsInPlace, ScriptFiles

-----------------------------------------------------------------------------
(* The steps around and after the tasks *)

LEMMA HelpKeeps ==
  ASSUME FrontInv, Help \/ ProcessVersion
  PROVE  FrontInv'
<1> USE SameInvocation
<1>1. /\ UNCHANGED <<inv, registrar, queue, orphans, httpProxy, region, applied, disk, script, zip, told>>
      /\ pc = "dispatch" /\ pc' = "dispatch" /\ exit = "running" /\ exit' = "0"
      /\ requests' = requests \/ Sent({"version"}) \/ Sent({"version", "download"})
  BY DEF Help, ProcessVersion, At, Exit, files, front
<1>2. \A r \in requests' : GoodRequest(r)'
  BY <1>1, SentGood DEF Kinds, Early
<1>3. TypeOK' /\ ProxyInPlace' /\ RegionsInPlace'
  BY <1>1, <1>2 DEF FrontInv, TypeOK, ProxyInPlace, PlainRequestsProxied, RegionsInPlace, GoodRequest, Kinds, Early
<1>4. FilesAccounted'
  <2>1. "script" \notin DOMAIN disk
    BY <1>1 DEF FrontInv, FilesAccounted, ScriptLeftByFailureOnly
  <2> QED
    BY <1>1, <2>1 DEF FilesAccounted, ScriptLeftByFailureOnly, ScriptFilesAccounted
<1> QED
  BY <1>1, <1>3, <1>4
     DEF FrontInv, Places, Early, AfterTasks, RequestsByPlace,
         RegistrarInPlace, SuitesSelected, ScriptFiles, PanicHasCause

LEMMA RunTasksKeeps ==
  ASSUME FrontInv, RunTasks
  PROVE  FrontInv'
<1> USE SameInvocation
<1>1. /\ UNCHANGED <<inv, registrar, queue, orphans, httpProxy, region, applied, disk, script, zip, told>>
      /\ pc = "dispatch" /\ pc' = "archive" /\ exit = "running" /\ exit' = "running"
      /\ registrar = "done"
      /\ requests' = requests \/ Sent({"haberdasher"})
  BY DEF RunTasks, At, Goto, files, front
<1>2. \A r \in requests' : GoodRequest(r)'
  BY <1>1, SentGood DEF Kinds, Services, Early
<1>3. TypeOK' /\ ProxyInPlace' /\ RegionsInPlace'
  BY <1>1, <1>2 DEF FrontInv, TypeOK, ProxyInPlace, PlainRequestsProxied, RegionsInPlace, GoodRequest, Kinds, Early
<1>4. FilesAccounted'
  <2>1. "script" \notin DOMAIN disk
    BY <1>1 DEF FrontInv, FilesAccounted, ScriptLeftByFailureOnly
  <2> QED
    BY <1>1, <2>1 DEF FilesAccounted, ScriptLeftByFailureOnly, ScriptFilesAccounted
<1> QED
  BY <1>1, <1>3, <1>4
     DEF FrontInv, Places, Early, AfterTasks, RequestsByPlace,
         RegistrarInPlace, SuitesSelected, ScriptFiles, PanicHasCause

LEMMA CopyScriptOutputsToZipKeeps ==
  ASSUME FrontInv, CopyScriptOutputsToZip
  PROVE  FrontInv'
<1> USE SameInvocation
<1>1. /\ UNCHANGED <<inv, registrar, queue, orphans, httpProxy, region, applied, requests, disk, script>>
      /\ pc = "archive" /\ pc' = "uploads" /\ exit = "running" /\ exit' = "running"
      /\ \/ zip' = zip /\ (script = None \/ "scriptFiles" \in told')
         \/ /\ script # None /\ "out" \in DOMAIN disk
            /\ zip' = [f \in {"out"} \cup script.found |-> disk[f]]
  BY DEF CopyScriptOutputsToZip, At, Goto, front
<1>2. DOMAIN zip = {} /\ (script = None \/ script.found \subseteq DOMAIN disk)
  BY <1>1 DEF FrontInv, ScriptFiles
<1>3. TypeOK'
  <2>1. \A f \in DOMAIN zip' : f \in DOMAIN disk /\ zip'[f] = disk[f]
    BY <1>1, <1>2
  <2> QED
    BY <1>1, <2>1 DEF FrontInv, TypeOK
<1>4. FilesAccounted'
  BY <1>1 DEF FrontInv, FilesAccounted, ScriptLeftByFailureOnly, ScriptFilesAccounted
<1> QED
  BY <1>1, <1>3, <1>4
     DEF FrontInv, Places, Early, AfterTasks, RequestsByPlace, OnlyCatalog, ProxyInPlace, PlainRequestsProxied,
         RegionsInPlace, RegistrarInPlace, SuitesSelected, ScriptFiles, PanicHasCause

LEMMA ProcessUploadsKeeps ==
  ASSUME FrontInv, ProcessUploads
  PROVE  FrontInv'
<1> USE SameInvocation
<1>1. /\ UNCHANGED <<inv, registrar, queue, orphans, httpProxy, region, applied, disk, script, zip>>
      /\ pc = "uploads" /\ pc' = "usage" /\ exit = "running" /\ exit' = "running"
      /\ requests' = requests \/ Sent({"upload"})
      /\ told \subseteq told'
  BY DEF ProcessUploads, CheckAttachmentFlags, At, Goto, files, front
<1>2. \A r \in requests' : GoodRequest(r)'
  BY <1>1, SentGood DEF Kinds, Services, Early
<1>3. TypeOK' /\ ProxyInPlace' /\ RegionsInPlace'
  BY <1>1, <1>2 DEF FrontInv, TypeOK, ProxyInPlace, PlainRequestsProxied, RegionsInPlace, GoodRequest, Kinds, Early
<1>4. FilesAccounted'
  <2>1. "script" \notin DOMAIN disk
    BY <1>1 DEF FrontInv, FilesAccounted, ScriptLeftByFailureOnly
  <2> QED
    BY <1>1, <2>1 DEF FrontInv, FilesAccounted, ScriptLeftByFailureOnly, ScriptFilesAccounted
<1> QED
  BY <1>1, <1>3, <1>4
     DEF FrontInv, Places, Early, AfterTasks, RequestsByPlace,
         RegistrarInPlace, SuitesSelected, ScriptFiles, PanicHasCause

LEMMA SendUsageDataKeeps ==
  ASSUME FrontInv, SendUsageData \/ AutoVersionCheck
  PROVE  FrontInv'
<1> USE SameInvocation
<1>1. /\ UNCHANGED <<inv, registrar, queue, orphans, httpProxy, region, applied, disk, script, zip, told>>
      /\ pc \in {"usage", "check"} /\ pc' = "check" /\ exit = "running" /\ exit' \in {"running", "0"}
      /\ requests' = requests \/ Sent({"usage"}) \/ Sent({"version"})
  BY DEF SendUsageData, AutoVersionCheck, At, Goto, Exit, files, front
<1>2. \A r \in requests' : GoodRequest(r)'
  BY <1>1, SentGood DEF Kinds, Services, Early
<1>3. TypeOK' /\ ProxyInPlace' /\ RegionsInPlace'
  BY <1>1, <1>2 DEF FrontInv, TypeOK, ProxyInPlace, PlainRequestsProxied, RegionsInPlace, GoodRequest, Kinds, Early
<1>4. FilesAccounted'
  <2>1. "script" \notin DOMAIN disk
    BY <1>1 DEF FrontInv, FilesAccounted, ScriptLeftByFailureOnly
  <2> QED
    BY <1>1, <2>1 DEF FrontInv, FilesAccounted, ScriptLeftByFailureOnly, ScriptFilesAccounted
<1> QED
  BY <1>1, <1>3, <1>4
     DEF FrontInv, Places, Early, AfterTasks, RequestsByPlace,
         RegistrarInPlace, SuitesSelected, ScriptFiles, PanicHasCause

LEMMA FrontStays ==
  ASSUME FrontInv, UNCHANGED vars
  PROVE  FrontInv'
<1> USE SameInvocation DEF vars, front, files
<1>1. TypeOK' /\ pc' \in Places
  BY DEF FrontInv, TypeOK
<1>2. RequestsByPlace' /\ ProxyInPlace' /\ RegionsInPlace'
  BY DEF FrontInv, RequestsByPlace, OnlyCatalog, ProxyInPlace, PlainRequestsProxied, RegionsInPlace
<1>3. RegistrarInPlace' /\ SuitesSelected' /\ ScriptFiles'
  BY DEF FrontInv, RegistrarInPlace, SuitesSelected, ScriptFiles
<1>4. PanicHasCause'
  BY DEF FrontInv, PanicHasCause
<1>5. FilesAccounted'
  BY DEF FrontInv, FilesAccounted, ScriptLeftByFailureOnly, ScriptFilesAccounted
<1> QED
  BY <1>1, <1>2, <1>3, <1>4, <1>5 DEF FrontInv

LEMMA FrontStep == FrontInv /\ [Next]_vars => FrontInv'
<1> SUFFICES ASSUME FrontInv, [Next]_vars PROVE FrontInv'
  OBVIOUS
<1>1. CASE ParseFlags \/ ProcessHTTPProxy \/ ProcessOverrides \/ InitializeClient
  BY <1>1, ParseFlagsKeeps, ProcessHTTPProxyKeeps, ProcessOverridesKeeps, InitializeClientKeeps
<1>2. CASE VersionForCLI \/ PrintScriptList
  BY <1>2, VersionForCLIKeeps
<1>3. CASE NoScript \/ ProcessScript
  BY <1>3, ProcessScriptKeeps
<1>4. CASE RunScript \/ WriteScriptOutputFile \/ StartRegistrar
  BY <1>4, RunScriptKeeps, WriteScriptOutputFileKeeps, StartRegistrarKeeps
<1>5. CASE Help \/ ProcessVersion
  BY <1>5, HelpKeeps
<1>6. CASE RunTasks \/ CopyScriptOutputsToZip \/ ProcessUploads
  BY <1>6, RunTasksKeeps, CopyScriptOutputsToZipKeeps, ProcessUploadsKeeps
<1>7. CASE SendUsageData \/ AutoVersionCheck
  BY <1>7, SendUsageDataKeeps
<1>8. CASE ProcessTasksToRun
  BY <1>8, ProcessTasksToRunKeeps
<1>9. CASE Exited \/ UNCHANGED vars
  BY <1>9, FrontStays DEF Exited
<1> QED
  BY <1>1, <1>2, <1>3, <1>4, <1>5, <1>6, <1>7, <1>8, <1>9 DEF Next, Main

LEMMA FrontInvariant == Spec => []FrontInv
<1>1. Init => FrontInv
  BY FrontInitially
<1>2. FrontInv /\ [Next]_vars => FrontInv'
  BY FrontStep
<1> QED
  BY <1>1, <1>2, PTL DEF Spec

-----------------------------------------------------------------------------
(* What follows *)

\* A proxy that is of no use ends the run before anything is sent, one that is of
\* use takes what goes by plain http, and the usage data, the files and the
\* questions about license keys go to one region, unless -attachment-endpoint gives
\* another place for the files.
THEOREM RequestsGoAsAsked == Spec => []RequestsAsAsked
<1>1. FrontInv => RequestsAsAsked
  <2> SUFFICES ASSUME FrontInv PROVE RequestsAsAsked
    OBVIOUS
  <2>1. UnusableProxyStops
    BY DEF FrontInv, UnusableProxyStops, ProxyInPlace, RequestsByPlace, Early
  <2>2. OneRegion
    BY DEF FrontInv, OneRegion, RegionsInPlace
  <2> QED
    BY <2>1, <2>2 DEF FrontInv, RequestsAsAsked, ProxyInPlace
<1> QED
  BY <1>1, FrontInvariant, PTL

\* processFlagsSuites: tasks that -suites selects run only when every name in it was
\* understood and no argument after it names a suite. What stands before it, as
\* another -suites, is left out by the code and not covered.
THEOREM SuitesUnderstood == Spec => []MisplacedSuitesTold
<1>1. ASSUME FrontInv PROVE MisplacedSuitesTold
  <2> SUFFICES ASSUME pc \in AfterTasks, TasksFlag = <<>>, inv.suites # <<>>
               PROVE  /\ \A n \in NamesOf(inv) :
                           inv.suites[n] \in Suite /\ TasksOf[inv.suites[n]] \subseteq queue
                      /\ \A n \in DOMAIN inv.args : n > inv.at => inv.args[n].suite = None
    BY DEF MisplacedSuitesTold, AfterTasks
  <2>1. /\ SuiteIdentifiers # {} /\ UnmatchedSuites = {} /\ CaptureOutOfPlaceArgs = {}
        /\ queue = UNION {TasksOf[s] : s \in MatchedSuites}
    BY <1>1 DEF FrontInv, RegistrarInPlace, SuitesSelected
  <2>2. inv \in Invocation
    BY <1>1 DEF FrontInv, TypeOK
  <2>3. \A n \in NamesOf(inv) : inv.suites[n] \in Suite
    BY <2>1 DEF UnmatchedSuites, SuiteIdentifiers
  <2>4. \A n \in NamesOf(inv) : TasksOf[inv.suites[n]] \subseteq queue
    BY <2>1, <2>3 DEF MatchedSuites, SuiteIdentifiers
  <2>5. Range(inv.suites) \subseteq Suite \cup {""}
    BY <2>3 DEF NamesOf, Range
  <2>6. inv.at \in DOMAIN inv.args /\ LastOf(inv) \in inv.args[inv.at].holds
    BY <2>1, <2>2, <2>5, FrontEndAssumption DEF SuiteIdentifiers, ValueInArgs
  <2>7. ASSUME NEW n \in DOMAIN inv.args, n > inv.at
        PROVE  inv.args[n].suite = None
    BY <2>1, <2>6, <2>7 DEF CaptureOutOfPlaceArgs
  <2> QED
    BY <2>3, <2>4, <2>7
<1>2. FrontInv => MisplacedSuitesTold
  BY <1>1
<1> QED
  BY <1>2, FrontInvariant, PTL

\* Main panics only over overrides without a pair, the goroutine only over -suites
\* of blank parts, and neither with more sent than requests for a script.
THEOREM PanicsHaveCause == Spec => []PanicHasCause
<1>1. FrontInv => PanicHasCause
  BY DEF FrontInv
<1> QED
  BY <1>1, FrontInvariant, PTL

\* RunScript and CopyScriptOutputsToZip: a file stays behind only when its script
\* failed, and the files found are in the archive or the user is told.
THEOREM FilesAreAccounted == Spec => []FilesAccounted
<1>1. FrontInv => FilesAccounted
  BY DEF FrontInv
<1> QED
  BY <1>1, FrontInvariant, PTL

=============================================================================
