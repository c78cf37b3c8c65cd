---------------------------- MODULE Diagnostics ----------------------------
(***************************************************************************)
(* One run of nrdiag, from the start of the registrar (core.go:97) to the  *)
(* end of the process: the goroutines that main starts, the channels       *)
(* between them, and what they leave in nrdiag-output.zip.                 *)
(*                                                                         *)
(*   registrar  -- WorkQueue (unbuffered) -->  worker                      *)
(*   worker     -- ResultsChannel (2) -->      main                        *)
(*   worker     -- FilesChannel (2) -->        collector                   *)
(*   producers  -- streams (unbuffered) -->    collector                   *)
(*                                                                         *)
(* A task's Execute is a choice among the results the constant Outcomes    *)
(* gives it; what tasks look for on the host is not modelled here.         *)
(***************************************************************************)
EXTENDS TaskQueue, FileNames, Functions

CONSTANTS
  Key,             \* Key[ref]: the task whose identifier is spelled exactly so
  Outcomes,        \* Outcomes[task]: the results Execute may return
  Trusts,          \* Trusts[task]: the names whose payload Execute asserts the
                   \* type of, without a check, when their status is a success
  HsmTask,         \* Base/Config/ValidateHSM
  OverrideChoices, \* what -override may set: task -> [status, text]
  FlagChoices,     \* the other flags of a run
  FolderOf,        \* FolderOf[task]: its category/subcategory
  FileKind,        \* FileKind[path]: "plain", "executable" or "missing"
  Chunks,          \* Chunks[stream]: how many strings its producer sends
  Capacity,        \* of ResultsChannel and FilesChannel (2)
  DiskFaults,      \* whether reads and writes of files may fail
  JsonPath,        \* nrdiag-output.json
  FilelistPath,    \* nrdiag-filelist.txt
  NoReport         \* nrdiag-output.json has not been written by this run

Status == {"None", "Success", "Warning", "Failure", "Error", "Info"}

\* A payload is a value of the type its task documents, a string set by an
\* override, or nil. starts: the streams Execute starts a producer for.
Result == [status : Status, payload : {"typed", "text", "nil"}, files : Seq(Envelope),
           starts : SUBSET Stream, override : BOOLEAN]

\* The zero Result: what a Go map returns for a key it does not hold.
ZeroResult == [status |-> "None", payload |-> "nil", files |-> << >>, starts |-> {},
               override |-> FALSE]

\* An override of a task: the status to report ("" when none) and whether the
\* payload is set, to a string.
Override == [status : Status \cup {""}, text : BOOLEAN]

ASSUME DiagnosticsAssumption ==
  /\ Key \in [Ref -> Task \cup {NoTask}]
  /\ Outcomes \in [Task -> SUBSET Result]
  /\ \A t \in Task : Outcomes[t] # {}
  /\ Trusts \in [Task -> SUBSET Ref]
  /\ OverrideChoices \subseteq [Task -> Override]
  /\ FlagChoices \subseteq [info : BOOLEAN, badSuite : BOOLEAN, include : Seq(Path),
                            huge : BOOLEAN, script : Seq(Path), shown : SUBSET Status,
                            upload : BOOLEAN]
  /\ FolderOf \in [Task -> Folder]
  /\ FileKind \in [Path -> {"plain", "executable", "missing"}]
  /\ Chunks \in [Stream -> Nat]
  /\ Capacity \in Nat \ {0}
  /\ DiskFaults \in BOOLEAN
  /\ {JsonPath, FilelistPath} \subseteq Path
  /\ NoReport \notin Seq(Task)

\* The files a task may return.
Returned(t) == UNION {Range(r.files) : r \in Outcomes[t]}

NoRepeats(s) == \A i, j \in DOMAIN s : i # j => s[i] # s[j]

\* No task counts duplicates, none has the category Include or ScriptOutput, and
\* -include walks to each path once.
ASSUME NamesAssumption ==
  /\ {"Include", "ScriptOutput"} \cap Folder = {}
  /\ \A t \in Task : \A e \in Returned(t) : e.instance = 0
  /\ BaseName[JsonPath] # BaseName[FilelistPath]
  /\ \A choice \in FlagChoices : NoRepeats(choice.include)

VARIABLES
  walk,         \* the files -include or the script still has to add to the archive
  flags,        \* the flags of this run, -override aside
  overrides,    \* what -override set
  process,      \* "running", or how the process ended
  main,         \* where main is
  worker,       \* processTasks: [pc, task]
  results,      \* registration.Work.Results
  given,        \* the dependentResults each task was executed with
  resultsCh,    \* ResultsChannel: [buf, closed], the tasks of the results
  filesCh,      \* FilesChannel, likewise
  wg,           \* the wait group's counter
  collector,    \* ProcessFilesChannel: [pc, folder, todo, names, paths, files]
  stream,       \* the producers: [state, sent]
  zip,          \* the archive: [state, broken, entries]
  filelist,     \* nrdiag-filelist.txt: [name, path] lines
  archivedList, \* the filelist as copied to the archive
  outputResults,\* what WriteLineResults has gathered, as tasks
  json,         \* the results in nrdiag-output.json
  uploaded,     \* processUploads has sent the files
  faults        \* what has failed to be written: "archive", "filelist", "report"

procVars == <<walk, flags, overrides, process, main, worker, results, given, resultsCh, filesCh, wg,
              collector, stream, zip, filelist, archivedList, outputResults, json, uploaded,
              faults>>
vars == <<queueVars, procVars>>

WorkerPc == {"off", "receive", "execute", "publish", "files", "closeResults", "closeFiles",
             "done", "returned"}
CollectorPc == {"off", "receive", "copy", "stream", "noWriter", "done", "returned"}
MainPc == {"start", "info", "zip", "filelist", "include", "results", "wait", "json",
           "copyOutput", "copyScript", "closeZip", "upload", "end"}
ProcessState == {"running", "ok", "failed", "crashed", "setupError"}
Chan == [buf : Seq(Task), closed : BOOLEAN]
Line == [name : StoredName, path : Path]
Entry == [name : StoredName, path : Path, whole : BOOLEAN]

TypeOK ==
  /\ QueueTypeOK
  /\ flags \in FlagChoices /\ overrides \in OverrideChoices
  /\ process \in ProcessState
  /\ main \in MainPc /\ walk \in Seq(Path)
  /\ worker \in [pc : WorkerPc, task : Task \cup {NoTask}]
  /\ results \in [Task -> Result]
  /\ DOMAIN given \subseteq Task
  /\ \A t \in DOMAIN given : DOMAIN given[t] \subseteq Ref /\ Range(given[t]) \subseteq Result
  /\ resultsCh \in Chan /\ Len(resultsCh.buf) <= Capacity
  /\ filesCh \in Chan /\ Len(filesCh.buf) <= Capacity
  /\ wg \in 0 .. 2
  /\ collector \in [pc : CollectorPc, folder : Folder \cup {NoFolder}, todo : Seq(Envelope),
                    names : SUBSET StoredName, paths : SUBSET Path, files : Seq(Envelope)]
  /\ stream \in [Stream -> [state : {"idle", "open", "closed"}, sent : Nat]]
  /\ zip \in [state : {"none", "open", "closed"}, broken : BOOLEAN, entries : Seq(Entry)]
  /\ filelist \in Seq(Line) /\ archivedList \in Seq(Line)
  /\ outputResults \in Seq(Task)
  /\ json \in Seq(Task) \cup {NoReport}
  /\ uploaded \in BOOLEAN /\ faults \subseteq {"archive", "filelist", "report"}

Init ==
  /\ QueueInit
  /\ flags \in FlagChoices /\ overrides \in OverrideChoices
  /\ process = "running"
  /\ main = "start" /\ walk = << >>
  /\ worker = [pc |-> "off", task |-> NoTask]
  /\ results = [t \in Task |-> ZeroResult]
  /\ given = << >>
  /\ resultsCh = [buf |-> << >>, closed |-> FALSE]
  /\ filesCh = [buf |-> << >>, closed |-> FALSE]
  /\ wg = 0
  /\ collector = [pc |-> "off", folder |-> NoFolder, todo |-> << >>,
                  names |-> {}, paths |-> {}, files |-> << >>]
  /\ stream = [s \in Stream |-> [state |-> "idle", sent |-> 0]]
  /\ zip = [state |-> "none", broken |-> FALSE, entries |-> << >>]
  /\ filelist = << >> /\ archivedList = << >>
  /\ outputResults = << >>
  /\ json = NoReport
  /\ uploaded = FALSE /\ faults = {}

----------------------------------------------------------------------------
(***************************************************************************)
(* The registrar goroutine, started just before main looks at its flags.   *)
(***************************************************************************)

Registering == process = "running" /\ main # "start"

\* processFlagsSuites found a suite nobody defined: os.Exit(1), whatever the
\* other goroutines are doing.
SuiteError ==
  /\ Registering
  /\ flags.badSuite
  /\ process' = "failed"
  /\ UNCHANGED <<queueVars, walk, flags, overrides, main, worker, results, given, resultsCh,
                 filesCh, wg, collector, stream, zip, filelist, archivedList, outputResults,
                 json, uploaded, faults>>

\* Mutant: the error is printed and registration goes on.
RegisterAnyway ==
  /\ Registering
  /\ RegistrarStep
  /\ UNCHANGED procVars

Register ==
  /\ Registering
  /\ ~flags.badSuite
  /\ RegistrarStep
  /\ UNCHANGED procVars

----------------------------------------------------------------------------
(***************************************************************************)
(* The worker goroutine.                                                   *)
(***************************************************************************)

workerElse == <<walk, flags, overrides, main, collector, zip, filelist, archivedList, outputResults,
                json, uploaded, faults>>

WorkerAt(pc) == process = "running" /\ worker.pc = pc

\* The send of the registrar and the receive of the worker happen together.
ReceiveTask ==
  /\ WorkerAt("receive")
  /\ Deliver
  /\ worker' = [pc |-> "execute", task |-> sending]
  /\ UNCHANGED <<process, results, given, resultsCh, filesCh, wg, stream, workerElse>>

WorkQueueClosed ==
  /\ WorkerAt("receive")
  /\ closed
  /\ worker' = [pc |-> "closeResults", task |-> NoTask]
  /\ UNCHANGED <<queueVars, process, results, given, resultsCh, filesCh, wg, stream, workerElse>>

\* Mutant: the result is stored when main has taken it off the channel.
ResultMainHas(ref) ==
  IF Key[ref] \in Range(outputResults) THEN results[Key[ref]] ELSE ZeroResult

\* registration.Work.Results[depIdent].Result: the name has to be spelled as
\* the task spells its own identifier.
ResultOf(ref) == IF Key[ref] = NoTask THEN ZeroResult ELSE results[Key[ref]]

\* dependentResults.
Upstream(task) == [ref \in Range(Dependencies[task]) |-> ResultOf(ref)]

Overridden(task) == overrides[task].status # "" \/ overrides[task].text

OverrideResult(o) ==
  [ZeroResult EXCEPT !.status = IF o.status = "" THEN @ ELSE o.status,
                     !.payload = IF o.text THEN "text" ELSE @,
                     !.override = TRUE]

\* Mutant: the status is not looked at before the payload.
PanicsOnAnyStatus(task, upstream) ==
  \E ref \in Trusts[task] \cap DOMAIN upstream : upstream[ref].payload # "typed"

\* Execute asserts the type of a payload that does not have it.
Panics(task, upstream) ==
  \E ref \in Trusts[task] \cap DOMAIN upstream :
    upstream[ref].status = "Success" /\ upstream[ref].payload # "typed"

\* The body of the loop up to the send: what the task depends on is looked up,
\* the task is executed unless overridden, and the result is stored.
ProcessTask ==
  /\ WorkerAt("execute")
  /\ LET t == worker.task
         upstream == Upstream(t)
     IN \/ /\ Overridden(t)
           /\ results' = [results EXCEPT ![t] = OverrideResult(overrides[t])]
           /\ given' = [u \in DOMAIN given \cup {t} |-> IF u = t THEN upstream ELSE given[u]]
           /\ worker' = [worker EXCEPT !.pc = "publish"]
           /\ UNCHANGED <<process, stream>>
        \/ /\ ~Overridden(t)
           /\ ~Panics(t, upstream)
           /\ \E r \in Outcomes[t] :
                /\ results' = [results EXCEPT ![t] = r]
                /\ stream' = [s \in Stream |-> IF s \in r.starts
                                               THEN [state |-> "open", sent |-> 0]
                                               ELSE stream[s]]
           /\ given' = [u \in DOMAIN given \cup {t} |-> IF u = t THEN upstream ELSE given[u]]
           /\ worker' = [worker EXCEPT !.pc = "publish"]
           /\ UNCHANGED process
        \/ /\ ~Overridden(t)
           /\ Panics(t, upstream)
           /\ process' = "crashed"
           /\ UNCHANGED <<worker, results, given, stream>>
  /\ UNCHANGED <<queueVars, resultsCh, filesCh, wg, workerElse>>

\* Mutant: the channel has no limit.
PublishUnbounded ==
  /\ WorkerAt("publish")
  /\ resultsCh' = [resultsCh EXCEPT !.buf = Append(@, worker.task)]
  /\ worker' = IF results[worker.task].files # << >>
               THEN [worker EXCEPT !.pc = "files"]
               ELSE [pc |-> "receive", task |-> NoTask]
  /\ UNCHANGED <<queueVars, process, results, given, filesCh, wg, stream, workerElse>>

PublishResult ==
  /\ WorkerAt("publish")
  /\ Len(resultsCh.buf) < Capacity
  /\ resultsCh' = [resultsCh EXCEPT !.buf = Append(@, worker.task)]
  /\ worker' = IF results[worker.task].files # << >>
               THEN [worker EXCEPT !.pc = "files"]
               ELSE [pc |-> "receive", task |-> NoTask]
  /\ UNCHANGED <<queueVars, process, results, given, filesCh, wg, stream, workerElse>>

PublishFiles ==
  /\ WorkerAt("files")
  /\ Len(filesCh.buf) < Capacity
  /\ filesCh' = [filesCh EXCEPT !.buf = Append(@, worker.task)]
  /\ worker' = [pc |-> "receive", task |-> NoTask]
  /\ UNCHANGED <<queueVars, process, results, given, resultsCh, wg, stream, workerElse>>

CloseResults ==
  /\ WorkerAt("closeResults")
  /\ resultsCh' = [resultsCh EXCEPT !.closed = TRUE]
  /\ worker' = [worker EXCEPT !.pc = "closeFiles"]
  /\ UNCHANGED <<queueVars, process, results, given, filesCh, wg, stream, workerElse>>

CloseFiles ==
  /\ WorkerAt("closeFiles")
  /\ filesCh' = [filesCh EXCEPT !.closed = TRUE]
  /\ worker' = [worker EXCEPT !.pc = "done"]
  /\ UNCHANGED <<queueVars, process, results, given, resultsCh, wg, stream, workerElse>>

WorkerDone ==
  /\ WorkerAt("done")
  /\ wg' = wg - 1
  /\ worker' = [worker EXCEPT !.pc = "returned"]
  /\ UNCHANGED <<queueVars, process, results, given, resultsCh, filesCh, stream, workerElse>>

Worker ==
  \/ ReceiveTask
  \/ WorkQueueClosed
  \/ ProcessTask
  \/ PublishResult
  \/ PublishFiles
  \/ CloseResults
  \/ CloseFiles
  \/ WorkerDone

----------------------------------------------------------------------------
(***************************************************************************)
(* The archive.  A read or a write that fails is logged and the run goes   *)
(* on.  The zip.Writer remembers a failed write: from then on CreateHeader *)
(* returns an error (broken).                                              *)
(***************************************************************************)

WithEntry(name, path, whole) ==
  [zip EXCEPT !.entries = Append(@, [name |-> name, path |-> path, whole |-> whole])]

Break(z) == [z EXCEPT !.broken = TRUE]

\* The archive after a file has been copied to it: with the file; as it was,
\* when the file cannot be read or the archive is broken; or broken by this
\* write, with or without a part of the file.
AfterCopy(name, path) ==
  (IF zip.broken THEN {zip} ELSE {WithEntry(name, path, TRUE)}) \cup
  (IF DiskFaults /\ ~zip.broken
   THEN {zip, Break(zip), Break(WithEntry(name, path, FALSE))} ELSE {})

\* One file copied, or not.
CopyEntry(name, path) == zip' \in AfterCopy(name, path)

\* Mutant: a stream has no path to list.
AddPathOnly(list, e) ==
  IF e.stream = NoStream THEN Append(list, [name |-> StoreName(e), path |-> e.path]) ELSE list

\* addFileToFileList.
AddLine(list, e) == Append(list, [name |-> StoreName(e), path |-> e.path])
AddFileToFileList(e) == filelist' \in {AddLine(filelist, e)} \cup (IF DiskFaults THEN {filelist} ELSE {})

\* What failed when an envelope was to be listed and copied under a name.
FaultsOf(name, e) ==
  faults \cup (IF zip' = WithEntry(name, e.path, TRUE) THEN {} ELSE {"archive"})
         \cup (IF filelist' = AddLine(filelist, e) THEN {} ELSE {"filelist"})

\* The envelope of a file that main copies itself.
PlainFile(path) ==
  [path |-> path, stream |-> NoStream, folder |-> NoFolder, instance |-> 0]

\* Where -include and a script's files are stored: under their whole path, which
\* is not the name that addFileToFileList writes for them.
NameUnder(folder, path) == [folder |-> folder, stem |-> path, numbers |-> << >>]

----------------------------------------------------------------------------
(***************************************************************************)
(* The collector goroutine.                                                *)
(***************************************************************************)

collectorElse == <<walk, flags, overrides, main, worker, results, given, resultsCh, archivedList,
                   outputResults, json, uploaded>>

CollectorAt(pc) == process = "running" /\ collector.pc = pc


ReceiveFiles ==
  /\ CollectorAt("receive")
  /\ collector.todo = << >>
  /\ filesCh.buf # << >>
  /\ LET t == Head(filesCh.buf)
     IN collector' = [collector EXCEPT !.folder = FolderOf[t], !.todo = results[t].files]
  /\ filesCh' = [filesCh EXCEPT !.buf = Tail(@)]
  /\ UNCHANGED <<queueVars, process, wg, stream, zip, filelist, faults, collectorElse>>

\* The file does not exist, is executable, or its path has been taken already.
Unwanted(e) ==
  /\ e.stream = NoStream
  /\ FileKind[e.path] # "plain" \/ e.path \in collector.paths

\* Mutant: the names that are taken are not remembered.
ForgetNames ==
  /\ CollectorAt("receive")
  /\ collector.todo # << >>
  /\ LET e == Head(collector.todo)
         rest == [collector EXCEPT !.todo = Tail(@)]
     IN collector' = IF Unwanted(e) THEN rest
                     ELSE [rest EXCEPT !.paths = @ \cup {e.path},
                                       !.files = Append(@, WithFolder(e, collector.folder))]
  /\ UNCHANGED <<queueVars, process, filesCh, wg, stream, zip, filelist, faults, collectorElse>>

\* One iteration over FilesToCopy. The first free name is reserved, and only
\* then the folder is set; without a free name the envelope is dropped.
ProcessEnvelope ==
  /\ CollectorAt("receive")
  /\ collector.todo # << >>
  /\ LET e == Head(collector.todo)
         free == FreeInstances(e, collector.names)
         rest == [collector EXCEPT !.todo = Tail(@)]
     IN \/ /\ Unwanted(e) \/ free = {}
           /\ collector' = rest
        \/ /\ ~Unwanted(e)
           /\ \E n \in free :
                /\ \A m \in free : n <= m
                /\ collector' = [rest EXCEPT
                     !.names = @ \cup {StoreName(Instance(e, n))},
                     !.paths = @ \cup {e.path},
                     !.files = Append(@, WithFolder(Instance(e, n), collector.folder))]
  /\ UNCHANGED <<queueVars, process, filesCh, wg, stream, zip, filelist, faults, collectorElse>>

\* Mutant: a channel that is closed is taken to be empty.
ClosedIsEmpty ==
  /\ CollectorAt("receive")
  /\ collector.todo = << >>
  /\ filesCh.closed
  /\ collector' = [collector EXCEPT !.pc = "copy"]
  /\ UNCHANGED <<queueVars, process, filesCh, wg, stream, zip, filelist, faults, collectorElse>>

\* Mutant: copying starts when the channel is empty.
EmptyIsClosed ==
  /\ CollectorAt("receive")
  /\ collector.todo = << >>
  /\ filesCh.buf = << >>
  /\ collector' = [collector EXCEPT !.pc = "copy"]
  /\ UNCHANGED <<queueVars, process, filesCh, wg, stream, zip, filelist, faults, collectorElse>>

FilesChannelClosed ==
  /\ CollectorAt("receive")
  /\ collector.todo = << >>
  /\ filesCh.buf = << >>
  /\ filesCh.closed
  /\ collector' = [collector EXCEPT !.pc = "copy"]
  /\ UNCHANGED <<queueVars, process, filesCh, wg, stream, zip, filelist, faults, collectorElse>>

\* copyFilesToZip on a file.
CopyFile ==
  /\ CollectorAt("copy")
  /\ collector.files # << >>
  /\ LET e == Head(collector.files)
     IN /\ e.stream = NoStream
        /\ AddFileToFileList(e)
        /\ CopyEntry(StoreName(e), e.path)
        /\ faults' = FaultsOf(StoreName(e), e)
  /\ collector' = [collector EXCEPT !.files = Tail(@)]
  /\ UNCHANGED <<queueVars, process, filesCh, wg, stream, collectorElse>>

\* copyFilesToZip on a stream: the error of CreateHeader is not looked at, so a
\* broken archive leaves a nil writer.
OpenStream ==
  /\ CollectorAt("copy")
  /\ collector.files # << >>
  /\ LET e == Head(collector.files)
     IN /\ e.stream # NoStream
        /\ AddFileToFileList(e)
        /\ \/ /\ ~zip.broken
              /\ zip' = WithEntry(StoreName(e), e.path, FALSE)
              /\ collector' = [collector EXCEPT !.pc = "stream"]
           \/ /\ zip.broken \/ DiskFaults
              /\ zip' = Break(zip)
              /\ collector' = [collector EXCEPT !.pc = "noWriter"]
        /\ faults' = faults \cup (IF zip'.broken THEN {"archive"} ELSE {})
                           \cup (IF filelist' = AddLine(filelist, e) THEN {} ELSE {"filelist"})
  /\ UNCHANGED <<queueVars, process, filesCh, wg, stream, collectorElse>>

CurrentStream == Head(collector.files).stream

\* The producer's send and the collector's receive of one string.
ReadChunk ==
  /\ process = "running"
  /\ collector.pc \in {"stream", "noWriter"}
  /\ stream[CurrentStream].state = "open"
  /\ stream[CurrentStream].sent < Chunks[CurrentStream]
  /\ stream' = [stream EXCEPT ![CurrentStream].sent = @ + 1]
  /\ IF collector.pc = "noWriter"
     THEN process' = "crashed" /\ UNCHANGED <<zip, faults>>
     ELSE /\ zip' \in {zip} \cup (IF DiskFaults THEN {Break(zip)} ELSE {})
          /\ faults' = faults \cup (IF zip'.broken THEN {"archive"} ELSE {})
          /\ UNCHANGED process
  /\ UNCHANGED <<queueVars, collector, filesCh, wg, filelist, collectorElse>>

\* The range over the stream ends when the producer has closed it.
EndStream ==
  /\ process = "running"
  /\ collector.pc \in {"stream", "noWriter"}
  /\ stream[CurrentStream].state = "closed"
  /\ zip' = IF collector.pc = "noWriter" THEN zip
            ELSE [zip EXCEPT !.entries[Len(zip.entries)].whole = ~zip.broken]
  /\ collector' = [collector EXCEPT !.pc = "copy", !.files = Tail(@)]
  /\ UNCHANGED <<queueVars, process, filesCh, wg, stream, filelist, faults, collectorElse>>

FilesCopied ==
  /\ CollectorAt("copy")
  /\ collector.files = << >>
  /\ collector' = [collector EXCEPT !.pc = "done"]
  /\ UNCHANGED <<queueVars, process, filesCh, wg, stream, zip, filelist, faults, collectorElse>>

CollectorDone ==
  /\ CollectorAt("done")
  /\ wg' = wg - 1
  /\ collector' = [collector EXCEPT !.pc = "returned"]
  /\ UNCHANGED <<queueVars, process, filesCh, stream, zip, filelist, faults, collectorElse>>

Collector ==
  \/ ReceiveFiles
  \/ ProcessEnvelope
  \/ FilesChannelClosed
  \/ CopyFile
  \/ OpenStream
  \/ ReadChunk
  \/ EndStream
  \/ FilesCopied
  \/ CollectorDone

\* A producer has nothing more to send. (Its sends are ReadChunk.)
CloseStream(s) ==
  /\ process = "running"
  /\ stream[s].state = "open"
  /\ stream[s].sent = Chunks[s]
  /\ stream' = [stream EXCEPT ![s].state = "closed"]
  /\ UNCHANGED <<queueVars, process, collector, filesCh, wg, zip, filelist, faults, collectorElse>>

----------------------------------------------------------------------------
(***************************************************************************)
(* main, from the start of the registrar on.                               *)
(***************************************************************************)

mainElse == <<flags, overrides, results, given, filesCh, stream>>

MainAt(pc) == process = "running" /\ main = pc

\* "go processTasksToRun()", then -help, -version and -i leave main at once.
StartRegistrar ==
  /\ MainAt("start")
  /\ main' = IF flags.info THEN "info" ELSE "zip"
  /\ UNCHANGED <<queueVars, process, walk, worker, resultsCh, wg, collector, zip, filelist,
                 archivedList, outputResults, json, uploaded, faults, mainElse>>

\* main returns while the registrar may be in the middle of its work.
ReturnEarly ==
  /\ MainAt("info")
  /\ process' = "ok"
  /\ UNCHANGED <<queueVars, main, walk, worker, resultsCh, wg, collector, zip, filelist,
                 archivedList, outputResults, json, uploaded, faults, mainElse>>

\* Truncates the zip of an earlier run. A file that cannot be created is logged,
\* and the writer that buffers what goes to it fails at some later write.
CreateZip ==
  /\ MainAt("zip")
  /\ main' = "filelist"
  /\ zip' = [zip EXCEPT !.state = "open"]
  /\ faults' \in {faults} \cup (IF DiskFaults THEN {{"archive"}} ELSE {})
  /\ UNCHANGED <<queueVars, process, walk, worker, resultsCh, wg, collector, filelist,
                 archivedList, outputResults, json, uploaded, mainElse>>

\* Without a filelist there is no run. -include of 4GB or more ends it too.
CreateFileList ==
  /\ MainAt("filelist")
  /\ \/ /\ ~flags.huge
        /\ main' = "include"
        /\ walk' = flags.include
        /\ UNCHANGED process
     \/ /\ flags.huge
        /\ process' = "failed"
        /\ UNCHANGED <<main, walk>>
     \/ /\ DiskFaults
        /\ process' = "setupError"
        /\ UNCHANGED <<main, walk>>
  /\ filelist' = << >>
  /\ UNCHANGED <<queueVars, worker, resultsCh, wg, collector, zip, archivedList,
                 outputResults, json, uploaded, faults, mainElse>>

\* An executable under -include (a name ending in .exe), a script's file that is
\* not there.
Refused(path) == FileKind[path] = "missing" \/ (main = "include" /\ FileKind[path] = "executable")

\* Mutant: an executable is refused again and again.
StayOnRefused(folder, path) ==
  IF Refused(path) THEN UNCHANGED <<walk, zip, filelist, faults>>
  ELSE /\ zip' = WithEntry(NameUnder(folder, path), path, TRUE)
       /\ filelist' = AddLine(filelist, PlainFile(path))
       /\ walk' = Tail(walk)
       /\ UNCHANGED faults

\* A file that -include or a script named: it is listed once it is copied. The
\* first error ends the walk.
CopyWalked(folder, path) ==
  LET e == WithFolder(PlainFile(path), IF main = "include" THEN NoFolder ELSE folder)
      name == NameUnder(folder, path)
  IN \/ /\ Refused(path)
        /\ walk' = << >>
        /\ UNCHANGED <<zip, filelist, faults>>
     \/ /\ ~Refused(path)
        /\ CopyEntry(name, path)
        /\ zip' = WithEntry(name, path, TRUE)
        /\ AddFileToFileList(e)
        /\ faults' = FaultsOf(name, e)
        /\ walk' = Tail(walk)
     \/ /\ ~Refused(path)
        /\ CopyEntry(name, path)
        /\ zip' # WithEntry(name, path, TRUE)
        /\ faults' = faults \cup {"archive"}
        /\ walk' = << >>
        /\ UNCHANGED filelist

IncludeFile ==
  /\ MainAt("include")
  /\ walk # << >>
  /\ CopyWalked("Include", Head(walk))
  /\ UNCHANGED <<queueVars, process, main, worker, resultsCh, wg, collector, archivedList,
                 outputResults, json, uploaded, mainElse>>

\* Mutant: the collector is not counted.
CountWorkerOnly ==
  /\ MainAt("include")
  /\ walk = << >>
  /\ main' = "results"
  /\ wg' = 1
  /\ worker' = [worker EXCEPT !.pc = "receive"]
  /\ collector' = [collector EXCEPT !.pc = "receive"]
  /\ UNCHANGED <<queueVars, process, walk, resultsCh, zip, filelist, archivedList,
                 outputResults, json, uploaded, faults, mainElse>>

\* wg.Add(1), go processTasks, wg.Add(1), go ProcessFilesChannel.
StartTasks ==
  /\ MainAt("include")
  /\ walk = << >>
  /\ main' = "results"
  /\ wg' = 2
  /\ worker' = [worker EXCEPT !.pc = "receive"]
  /\ collector' = [collector EXCEPT !.pc = "receive"]
  /\ UNCHANGED <<queueVars, process, walk, resultsCh, zip, filelist, archivedList,
                 outputResults, json, uploaded, faults, mainElse>>

\* WriteLineResults on one result. The payload of ValidateHSM is asserted to
\* be a map when the result is shown, and an override may have made it a string.
WriteLineResult ==
  /\ MainAt("results")
  /\ resultsCh.buf # << >>
  /\ resultsCh' = [resultsCh EXCEPT !.buf = Tail(@)]
  /\ LET t == Head(resultsCh.buf)
     IN IF t = HsmTask /\ results[t].payload = "text" /\ results[t].status \in flags.shown
        THEN process' = "crashed" /\ UNCHANGED outputResults
        ELSE outputResults' = Append(outputResults, t) /\ UNCHANGED process
  /\ UNCHANGED <<queueVars, main, walk, worker, wg, collector, zip, filelist, archivedList,
                 json, uploaded, faults, mainElse>>

\* Mutant: the range over the results ends when the channel is closed.
LeaveWhenClosed ==
  /\ MainAt("results")
  /\ resultsCh.closed
  /\ main' = "wait"
  /\ UNCHANGED <<queueVars, process, walk, worker, resultsCh, wg, collector, zip, filelist,
                 archivedList, outputResults, json, uploaded, faults, mainElse>>

ResultsWritten ==
  /\ MainAt("results")
  /\ resultsCh.buf = << >>
  /\ resultsCh.closed
  /\ main' = "wait"
  /\ UNCHANGED <<queueVars, process, walk, worker, resultsCh, wg, collector, zip, filelist,
                 archivedList, outputResults, json, uploaded, faults, mainElse>>

\* Mutant: main waits for one of its goroutines.
WaitForOne ==
  /\ MainAt("wait")
  /\ wg <= 1
  /\ main' = "json"
  /\ UNCHANGED <<queueVars, process, walk, worker, resultsCh, wg, collector, zip, filelist,
                 archivedList, outputResults, json, uploaded, faults, mainElse>>

WaitGroup ==
  /\ MainAt("wait")
  /\ wg = 0
  /\ main' = "json"
  /\ UNCHANGED <<queueVars, process, walk, worker, resultsCh, wg, collector, zip, filelist,
                 archivedList, outputResults, json, uploaded, faults, mainElse>>

\* The error of os.WriteFile is dropped.
WriteOutputFile ==
  /\ MainAt("json")
  /\ main' = "copyOutput"
  /\ \/ json' = outputResults /\ UNCHANGED faults
     \/ DiskFaults /\ faults' = faults \cup {"report"} /\ UNCHANGED json
  /\ UNCHANGED <<queueVars, process, walk, worker, resultsCh, wg, collector, zip, filelist,
                 archivedList, outputResults, uploaded, mainElse>>

\* Copied if it exists; when this run could not write it, an earlier run may have.
CopyOutputToZip ==
  /\ MainAt("copyOutput")
  /\ main' = "copyScript"
  /\ walk' = flags.script
  /\ \/ /\ AddFileToFileList(PlainFile(JsonPath))
        /\ CopyEntry(StoreName(PlainFile(JsonPath)), JsonPath)
        /\ faults' = FaultsOf(StoreName(PlainFile(JsonPath)), PlainFile(JsonPath))
     \/ json = NoReport /\ UNCHANGED <<filelist, zip, faults>>
  /\ UNCHANGED <<queueVars, process, worker, resultsCh, wg, collector, archivedList,
                 outputResults, json, uploaded, mainElse>>

CopyScriptOutput ==
  /\ MainAt("copyScript")
  /\ walk # << >>
  /\ CopyWalked("ScriptOutput", Head(walk))
  /\ UNCHANGED <<queueVars, process, main, worker, resultsCh, wg, collector, archivedList,
                 outputResults, json, uploaded, mainElse>>

\* The list gets its own line first, so the copy has it.
CopyFileListToZip ==
  /\ MainAt("copyScript")
  /\ walk = << >>
  /\ main' = "closeZip"
  /\ AddFileToFileList(PlainFile(FilelistPath))
  /\ CopyEntry(StoreName(PlainFile(FilelistPath)), FilelistPath)
  /\ faults' = FaultsOf(StoreName(PlainFile(FilelistPath)), PlainFile(FilelistPath))
  /\ archivedList' = filelist'
  /\ UNCHANGED <<queueVars, process, walk, worker, resultsCh, wg, collector, outputResults,
                 json, uploaded, mainElse>>

CloseZip ==
  /\ MainAt("closeZip")
  /\ main' = "upload"
  /\ zip' \in [state : {"closed"}, broken : {zip.broken, zip.broken \/ DiskFaults},
              entries : {zip.entries}]
  /\ faults' = faults \cup (IF zip'.broken THEN {"archive"} ELSE {})
  /\ UNCHANGED <<queueVars, process, walk, worker, resultsCh, wg, collector, filelist,
                 archivedList, outputResults, json, uploaded, mainElse>>

\* processUploads: an upload that fails is fatal.
ProcessUploads ==
  /\ MainAt("upload")
  /\ main' = "end"
  /\ \/ uploaded' = flags.upload /\ UNCHANGED process
     \/ flags.upload /\ process' = "failed" /\ UNCHANGED uploaded
  /\ UNCHANGED <<queueVars, walk, worker, resultsCh, wg, collector, zip, filelist,
                 archivedList, outputResults, json, faults, mainElse>>

\* Usage data and the version check, whose errors are ignored; main returns.
ReturnFromMain ==
  /\ MainAt("end")
  /\ process' = "ok"
  /\ UNCHANGED <<queueVars, main, walk, worker, resultsCh, wg, collector, zip, filelist,
                 archivedList, outputResults, json, uploaded, faults, mainElse>>

Main ==
  \/ StartRegistrar
  \/ ReturnEarly
  \/ CreateZip
  \/ CreateFileList
  \/ IncludeFile
  \/ StartTasks
  \/ WriteLineResult
  \/ ResultsWritten
  \/ WaitGroup
  \/ WriteOutputFile
  \/ CopyOutputToZip
  \/ CopyScriptOutput
  \/ CopyFileListToZip
  \/ CloseZip
  \/ ProcessUploads
  \/ ReturnFromMain

----------------------------------------------------------------------------

\* The process is over.
Ended == process # "running" /\ UNCHANGED vars

Next ==
  \/ SuiteError
  \/ Register
  \/ Worker
  \/ Collector
  \/ \E s \in Stream : CloseStream(s)
  \/ Main
  \/ Ended

\* The Go scheduler runs every goroutine that can run; Execute returns, the
\* commands behind the streams end, and the user answers the prompts.
Fairness ==
  /\ WF_vars(SuiteError)
  /\ WF_vars(Register)
  /\ WF_vars(Worker)
  /\ WF_vars(Collector)
  /\ \A s \in Stream : WF_vars(CloseStream(s))
  /\ WF_vars(Main)

Spec == Init /\ [][Next]_vars /\ Fairness

----------------------------------------------------------------------------

\* The property the comment of infra/agent/debug.go states of every task: "the
\* results from that dependency [are] passed in to the downstream task". The
\* result a task is executed with, under a name that stands for a registered
\* task, is the result that task has left.
DependencyResultsPassed ==
  \A t \in DOMAIN given : \A ref \in DOMAIN given[t] :
    \A d \in TasksForIdentifierString(ref) : given[t][ref] = results[d]

\* The report holds every task that was asked for and, transitively, what they
\* depend on, each once: no result is lost between the worker and main.
ReportComplete ==
  json # NoReport =>
    /\ IsClosureOf(Range(json), request)
    /\ \A i, j \in DOMAIN json : i # j => json[i] # json[j]

\* The zip.Writer is not safe for concurrent use: while the collector copies,
\* main is between StartTasks and the wait group.
ZipUsers == {"zip", "filelist", "include", "copyOutput", "copyScript", "closeZip"}
OneZipUser ==
  collector.pc \in {"copy", "stream", "noWriter"} => main \notin ZipUsers

\* A file a task asked for and that can be copied.
Wanted(e) == e.stream # NoStream \/ FileKind[e.path] = "plain"

\* Once the archive is closed, and unless a read or a write has failed, every
\* file a task returned is in it, whole, and every string of every stream was
\* copied, unless no free name was found for it: no file is lost between a
\* task's result, the full channel and the collector.
ArchiveComplete ==
  zip.state = "closed" /\ "archive" \notin faults =>
    \A t \in Range(outputResults) : \A i \in DOMAIN results[t].files :
      LET e == results[t].files[i]
      IN Wanted(e) =>
           \/ /\ \E k \in DOMAIN zip.entries :
                   zip.entries[k].path = e.path /\ zip.entries[k].whole
              /\ e.stream # NoStream => stream[e.stream].sent = Chunks[e.stream]
           \/ FreeInstances(e, collector.names) = {}

\* What the collector cannot tell apart, as it reserves names before it sets
\* folders: a name that ends in a number as those of duplicates do, and a file
\* whose envelope names its folder.
OddPaths ==
  {e.path : e \in {d \in UNION {Returned(t) : t \in Task} :
                     d.folder # NoFolder \/ BaseName[d.path].numbers # << >>}}

\* Two entries have one name only if one of them is such a file of a task, or if
\* two patterns of a script have matched one file: not because files of any tasks,
\* the report, -include and a script meet in some order.
SharedNamesHaveCause ==
  \A i, j \in DOMAIN zip.entries :
    LET x == zip.entries[i]
        y == zip.entries[j]
    IN  i # j /\ x.name = y.name =>
          \/ x.name.folder \in Folder /\ {x.path, y.path} \cap OddPaths # {}
          \/ x.name.folder = "ScriptOutput" /\ x.path = y.path

\* "copy the file list to the zip file last to ensure it's up to date": unless a
\* line could not be written, the list that is copied to the archive names every
\* file that is in it whole.
ArchiveListed ==
  zip.state = "closed" /\ "filelist" \notin faults =>
    \A i \in DOMAIN zip.entries : zip.entries[i].whole =>
      \E k \in DOMAIN archivedList : archivedList[k].path = zip.entries[i].path

\* A run asked for a suite that does not exist ends before it can report, close
\* its archive or upload, however far the other goroutines are.
SuiteErrorStopsRun ==
  flags.badSuite => json = NoReport /\ zip.state # "closed" /\ ~uploaded

\* What is uploaded is final: the archive is closed and nothing is still to be
\* written by any goroutine.
UploadIsFinal ==
  uploaded => /\ zip.state = "closed"
              /\ worker.pc = "returned" /\ collector.pc = "returned"

\* Only an override, or an archive that cannot be written, makes the run panic.
CrashHasCause ==
  process = "crashed" => zip.broken \/ \E t \in Task : Overridden(t)

\* "These streams are then consumed after all tasks have completed."
StreamsAfterTasks ==
  [][\A s \in Stream : stream'[s].sent > stream[s].sent =>
       closed /\ filesCh.closed /\ worker.pc \in {"done", "returned"}]_vars

\* No task goroutine outlives the wait: the run ends, in one way or another,
\* whatever the full channels, the streams nobody reads and the errors.
RunEnds == <>(process # "running")

----------------------------------------------------------------------------
(***************************************************************************)
(* What a run promises, whatever the goroutines: DiagnosticRun.            *)
(***************************************************************************)

\* The phase of the run main is in.
PhaseOfRun ==
  CASE process # "running" -> "ended"
    [] process = "running" /\ main \in {"start", "info", "zip", "filelist", "include"} -> "setup"
    [] process = "running" /\ main = "results" -> "executing"
    [] process = "running" /\ main \in {"wait", "json", "copyOutput", "copyScript", "closeZip"}
         -> "reporting"
    [] process = "running" /\ main \in {"upload", "end"} -> "closed"

Run == INSTANCE DiagnosticRun WITH
  Needs <- [t \in Task |-> DependenciesOf(t)],
  wanted <- Selected(request),
  phase <- PhaseOfRun,
  executed <- DOMAIN given,
  reported <- IF main \in {"start", "info", "zip", "filelist", "include", "results"}
              THEN {} ELSE Range(outputResults),
  published <- uploaded

\* Four goroutines and three channels run the tasks in the order, and with the
\* outcome, of one loop.
ImplementsRun == Run!Spec

=============================================================================
