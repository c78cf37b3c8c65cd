--------------------------- MODULE ContainerLogs ---------------------------
(***************************************************************************)
(* Synthetics/Minion/CollectLogs: one goroutine per container runs         *)
(* "docker logs" and passes its output, line by line, to a stream the      *)
(* collector reads long after the task has returned.                       *)
(*                                                                         *)
(*   docker   -- stdout, stderr (pipes) -->  producer (StreamContainerLogs)*)
(*   producer -- errStream (unbuffered) -->  collectErrorsFromStream       *)
(*   producer -- stream (unbuffered) -->     copyFilesToZip                *)
(*                                                                         *)
(* Execute waits until every command has been started or has failed.       *)
(* Output is counted in parts of a line or more; "long" is a line longer   *)
(* than what bufio.Scanner takes (64 KB).                                  *)
(***************************************************************************)
EXTENDS Integers, Sequences, Functions

CONSTANTS
  Container,   \* the containers of DetectCPM
  NoContainer, \* the absence of a container
  Order,       \* the sequence they come in
  Outputs,     \* what docker logs may write: sequences of "out", "err", "long"
  Failing,     \* the containers whose docker logs may fail to start
  PipeSize     \* what a pipe holds

ASSUME ContainerLogsAssumption ==
  /\ NoContainer \notin Container
  /\ Order \in Seq(Container) /\ Range(Order) = Container
  /\ \A i, j \in DOMAIN Order : i # j => Order[i] # Order[j]
  /\ Outputs \subseteq Seq({"out", "err", "long"})
  /\ Failing \subseteq Container
  /\ PipeSize \in Nat \ {0}

VARIABLES
  output,    \* output[c]: what docker logs writes for the container, all of it
  caller,    \* initStreamsForFileCopy: "starting", "waiting", "returned"
  pending,   \* the containers that have no goroutine yet
  producer,  \* the goroutines
  written,   \* written[c]: how much of the output docker has written
  pipe,      \* pipe[c]: what is in the two pipes, as places in the output
  errWg,     \* the wait group's counter
  errClosed, \* close(errStream) has happened
  errors,    \* cmdErrors: the containers whose error is in it
  reader,    \* collectErrorsFromStream: [pc, container]
  result,    \* "none", then "files" or "error"
  copying,   \* the files the collector still has to copy
  copied     \* copied[c]: what is in the archive, as places in the output

errorVars == <<errWg, errClosed, errors, reader>>
vars == <<output, caller, pending, producer, written, pipe, errorVars, result, copying, copied>>

ProducerPc == {"off", "exec", "error", "stdout", "stderr", "closed"}

TypeOK ==
  /\ output \in [Container -> Outputs]
  /\ caller \in {"starting", "waiting", "returned"}
  /\ pending \in Seq(Container)
  /\ producer \in [Container -> ProducerPc]
  /\ written \in [Container -> Nat]
  /\ \A c \in Container : written[c] <= Len(output[c])
  /\ pipe \in [Container -> [out : Seq(Nat), err : Seq(Nat)]]
  /\ \A c \in Container : Len(pipe[c].out) <= PipeSize /\ Len(pipe[c].err) <= PipeSize
  /\ errWg \in 0 .. Len(Order) /\ errClosed \in BOOLEAN
  /\ errors \in Seq(Failing)
  /\ reader \in [pc : {"off", "receive", "append", "count", "done"},
                 container : Container \cup {NoContainer}]
  /\ result \in {"none", "files", "error"}
  /\ copying \in Seq(Container)
  /\ copied \in [Container -> Seq(Nat)]

Init ==
  /\ output \in [Container -> Outputs]
  /\ caller = "starting" /\ pending = Order
  /\ producer = [c \in Container |-> "off"]
  /\ written = [c \in Container |-> 0]
  /\ pipe = [c \in Container |-> [out |-> << >>, err |-> << >>]]
  /\ errWg = 0 /\ errClosed = FALSE /\ errors = << >>
  /\ reader = [pc |-> "off", container |-> NoContainer]
  /\ result = "none" /\ copying = << >>
  /\ copied = [c \in Container |-> << >>]

----------------------------------------------------------------------------
(***************************************************************************)
(* initStreamsForFileCopy and Execute.                                     *)
(***************************************************************************)

callerElse == <<output, written, pipe, errors, copied>>

\* Mutant: the goroutine counts itself, when it gets to run.
StartUncounted ==
  /\ caller = "starting"
  /\ pending # << >>
  /\ producer' = [producer EXCEPT ![Head(pending)] = "exec"]
  /\ pending' = Tail(pending)
  /\ UNCHANGED <<caller, errWg, errClosed, reader, result, copying, callerElse>>

\* errWg.Add(1), go StreamContainerLogsById, for the next container.
StartProducer ==
  /\ caller = "starting"
  /\ pending # << >>
  /\ errWg' = errWg + 1
  /\ producer' = [producer EXCEPT ![Head(pending)] = "exec"]
  /\ pending' = Tail(pending)
  /\ UNCHANGED <<caller, errClosed, reader, result, copying, callerElse>>

StartReader ==
  /\ caller = "starting"
  /\ pending = << >>
  /\ caller' = "waiting"
  /\ reader' = [reader EXCEPT !.pc = "receive"]
  /\ UNCHANGED <<pending, producer, errWg, errClosed, result, copying, callerElse>>

\* Mutant: nobody waits for the commands to start.
ReturnAtOnce ==
  /\ caller = "waiting"
  /\ caller' = "returned"
  /\ errClosed' = TRUE
  /\ result' = IF errors = << >> THEN "files" ELSE "error"
  /\ copying' = IF errors = << >> THEN Order ELSE << >>
  /\ UNCHANGED <<pending, producer, errWg, reader, callerElse>>

\* Mutant: the wait goes on as long as there is an error.
WaitAgain ==
  /\ caller = "waiting"
  /\ errWg = 0
  /\ IF errors # << >> THEN UNCHANGED vars
     ELSE /\ caller' = "returned"
          /\ errClosed' = TRUE
          /\ result' = "files"
          /\ copying' = Order
          /\ UNCHANGED <<pending, producer, errWg, reader, callerElse>>

\* errWg.Wait(), close(errStream); a single error costs the files of every
\* container, and nobody is going to read their streams.
Return ==
  /\ caller = "waiting"
  /\ errWg = 0
  /\ caller' = "returned"
  /\ errClosed' = TRUE
  /\ result' = IF errors = << >> THEN "files" ELSE "error"
  /\ copying' = IF errors = << >> THEN Order ELSE << >>
  /\ UNCHANGED <<pending, producer, errWg, reader, callerElse>>

----------------------------------------------------------------------------
(***************************************************************************)
(* The producers and the reader of their errors.                           *)
(***************************************************************************)

producerElse == <<output, caller, pending, result, copying>>

\* docker has been started, and the goroutine reports that; or it has not.
ExecCommand(c) ==
  /\ producer[c] = "exec"
  /\ \/ /\ producer' = [producer EXCEPT ![c] = "stdout"]
        /\ errWg' = errWg - 1
     \/ /\ c \in Failing
        /\ producer' = [producer EXCEPT ![c] = "error"]
        /\ UNCHANGED errWg
  /\ UNCHANGED <<written, pipe, errClosed, errors, reader, copied, producerElse>>

\* The send of an error and its receive; the producer closes its stream.
SendError(c) ==
  /\ producer[c] = "error"
  /\ reader.pc = "receive"
  /\ producer' = [producer EXCEPT ![c] = "closed"]
  /\ reader' = [pc |-> "append", container |-> c]
  /\ UNCHANGED <<written, pipe, errWg, errClosed, errors, copied, producerElse>>

\* Mutant: the error is counted before it is stored.
CountThenAppend ==
  \/ /\ reader.pc = "append"
     /\ errWg' = errWg - 1
     /\ reader' = [reader EXCEPT !.pc = "count"]
     /\ UNCHANGED <<errors, producer, written, pipe, errClosed, copied, producerElse>>
  \/ /\ reader.pc = "count"
     /\ errors' = Append(errors, reader.container)
     /\ reader' = [pc |-> "receive", container |-> NoContainer]
     /\ UNCHANGED <<errWg, producer, written, pipe, errClosed, copied, producerElse>>

\* append, then errWg.Done().
StoreError ==
  \/ /\ reader.pc = "append"
     /\ errors' = Append(errors, reader.container)
     /\ reader' = [reader EXCEPT !.pc = "count"]
     /\ UNCHANGED <<errWg, producer, written, pipe, errClosed, copied, producerElse>>
  \/ /\ reader.pc = "count"
     /\ errWg' = errWg - 1
     /\ reader' = [pc |-> "receive", container |-> NoContainer]
     /\ UNCHANGED <<errors, producer, written, pipe, errClosed, copied, producerElse>>

ReaderDone ==
  /\ reader.pc = "receive"
  /\ errClosed
  /\ reader' = [reader EXCEPT !.pc = "done"]
  /\ UNCHANGED <<errWg, errors, producer, written, pipe, errClosed, copied, producerElse>>

----------------------------------------------------------------------------
(***************************************************************************)
(* The output: io.MultiReader reads stdout to its end before stderr, and   *)
(* docker blocks on a pipe that is full.                                   *)
(***************************************************************************)

Started(c) == /\ producer[c] \in {"stdout", "stderr", "closed"}
              /\ c \notin Range(errors) /\ c # reader.container

DockerWrites(c) ==
  /\ Started(c)
  /\ written[c] < Len(output[c])
  /\ LET place == written[c] + 1
     IN \/ /\ output[c][place] = "err" /\ Len(pipe[c].err) < PipeSize
           /\ pipe' = [pipe EXCEPT ![c].err = Append(@, place)]
        \/ /\ output[c][place] # "err" /\ Len(pipe[c].out) < PipeSize
           /\ pipe' = [pipe EXCEPT ![c].out = Append(@, place)]
  /\ written' = [written EXCEPT ![c] = @ + 1]
  /\ UNCHANGED <<producer, errorVars, copied, producerElse>>

\* docker has written everything and closed both pipes.
DockerDone(c) == written[c] = Len(output[c])

\* Mutant: an empty pipe is taken for the end of stdout.
NextPipeEarly(c) ==
  /\ producer[c] = "stdout"
  /\ pipe[c].out = << >>
  /\ producer' = [producer EXCEPT ![c] = "stderr"]
  /\ UNCHANGED <<written, pipe, errorVars, copied, producerElse>>

\* The end of stdout.
NextPipe(c) ==
  /\ producer[c] = "stdout"
  /\ pipe[c].out = << >>
  /\ DockerDone(c)
  /\ producer' = [producer EXCEPT ![c] = "stderr"]
  /\ UNCHANGED <<written, pipe, errorVars, copied, producerElse>>

\* The producer has a line before it that Scan does not take.
AtLongLine(c) ==
  producer[c] = "stdout" /\ pipe[c].out # << >> /\ output[c][Head(pipe[c].out)] = "long"

\* Scan returns false, at the end of stderr or at a line that is too long, and
\* the producer closes its stream.
CloseStream(c) ==
  /\ \/ producer[c] = "stderr" /\ pipe[c].err = << >> /\ DockerDone(c)
     \/ AtLongLine(c)
  /\ producer' = [producer EXCEPT ![c] = "closed"]
  /\ UNCHANGED <<written, pipe, errorVars, copied, producerElse>>

\* The send of a line and its receive, by the collector.
CopyLine ==
  /\ copying # << >>
  /\ LET c == Head(copying)
     IN \/ /\ producer[c] = "stdout" /\ pipe[c].out # << >> /\ ~AtLongLine(c)
           /\ copied' = [copied EXCEPT ![c] = Append(@, Head(pipe[c].out))]
           /\ pipe' = [pipe EXCEPT ![c].out = Tail(@)]
        \/ /\ producer[c] = "stderr" /\ pipe[c].err # << >>
           /\ copied' = [copied EXCEPT ![c] = Append(@, Head(pipe[c].err))]
           /\ pipe' = [pipe EXCEPT ![c].err = Tail(@)]
  /\ UNCHANGED <<producer, written, errorVars, producerElse>>

\* Mutant: a stream that has ended stays in the round.
NextFileRound ==
  /\ copying # << >>
  /\ producer[Head(copying)] = "closed"
  /\ copying' = Append(Tail(copying), Head(copying))
  /\ UNCHANGED <<output, caller, pending, producer, written, pipe, errorVars, result, copied>>

NextFile ==
  /\ copying # << >>
  /\ producer[Head(copying)] = "closed"
  /\ copying' = Tail(copying)
  /\ UNCHANGED <<output, caller, pending, producer, written, pipe, errorVars, result, copied>>

\* The task has returned and its files have been copied.
Finished == caller = "returned" /\ copying = << >> /\ UNCHANGED vars

Next ==
  \/ StartProducer
  \/ StartReader
  \/ Return
  \/ \E c \in Container : \/ ExecCommand(c)
                          \/ SendError(c)
                          \/ DockerWrites(c)
                          \/ NextPipe(c)
                          \/ CloseStream(c)
  \/ StoreError
  \/ ReaderDone
  \/ CopyLine
  \/ NextFile
  \/ Finished

\* Every goroutine that can run is scheduled, and every docker ends.
Fairness ==
  /\ WF_vars(StartProducer \/ StartReader \/ Return)
  /\ WF_vars(StoreError \/ ReaderDone)
  /\ WF_vars(CopyLine \/ NextFile)
  /\ \A c \in Container : /\ WF_vars(ExecCommand(c) \/ NextPipe(c) \/ CloseStream(c))
                          /\ WF_vars(SendError(c))
                          /\ WF_vars(DockerWrites(c))

Spec == Init /\ [][Next]_vars /\ Fairness

----------------------------------------------------------------------------

\* The containers whose command could not be started.
Failed == {c \in Container : producer[c] = "error"} \cup Range(errors) \cup ({reader.container} \ {NoContainer})

\* When initStreamsForFileCopy returns, the errors of all its goroutines are in
\* the slice, each once, although another goroutine appends them.
AllErrorsCollected ==
  caller = "returned" =>
    /\ \A c \in Container : producer[c] # "exec"
    /\ Failed = Range(errors)
    /\ \A i, j \in DOMAIN errors : i # j => errors[i] # errors[j]

\* Nobody is left to send to the error stream when it is closed, which would
\* end the process.
NoSendAfterClose ==
  errClosed => \A c \in Container : producer[c] \notin {"off", "exec", "error"}

\* No error gets lost on its way from a producer to the task, nor ends the run.
ErrorsAccounted == TypeOK /\ AllErrorsCollected /\ NoSendAfterClose

\* The places that can be read of an output: all of it, or its stdout up to the
\* first line that is too long.
Readable(parts) ==
  {n \in DOMAIN parts : \A m \in DOMAIN parts : parts[m] = "long" => parts[n] # "err" /\ n < m}

\* The order of a log: stdout goes before stderr, and each in the order it was
\* written in.
Before(parts, m, n) ==
  \/ parts[m] # "err" /\ parts[n] = "err"
  \/ (parts[m] = "err" <=> parts[n] = "err") /\ m < n

\* A log that has been copied holds all that can be read of it, each line once
\* and in its order, although docker, the producer and the collector run at
\* their own pace.
LogsComplete ==
  result = "files" =>
    \A c \in Container : c \notin Range(copying) =>
      /\ Range(copied[c]) = Readable(output[c])
      /\ \A i, j \in DOMAIN copied[c] : i < j => Before(output[c], copied[c][i], copied[c][j])

\* Execute returns, whichever containers fail.
ExecuteReturns == <>(result # "none")

\* docker waits until somebody reads its stderr, the producer for more of stdout.
StderrFull(c) ==
  /\ producer[c] = "stdout" /\ pipe[c].out = << >>
  /\ ~DockerDone(c) /\ output[c][written[c] + 1] = "err" /\ Len(pipe[c].err) = PipeSize

\* Neither the task nor those that read its streams wait without end, but for a
\* docker that fills the pipe of its stderr before its stdout ends.
LogsEnd ==
  /\ ExecuteReturns
  /\ result = "files" ~> copying = << >> \/ StderrFull(Head(copying))

=============================================================================
