------------------------ MODULE ContainerLogsProofs ------------------------
(***************************************************************************)
(* Proofs about the logs of containers, for every set of containers in any *)
(* order, whatever docker writes, whichever commands fail and however much *)
(* a pipe holds.                                                           *)
(***************************************************************************)
EXTENDS ContainerLogs, FiniteSets, FiniteSetTheorems, SequenceTheorems, TLAPS

(***************************************************************************)
(* The errors.                                                             *)
(***************************************************************************)

\* The containers whose goroutine errWg still waits for.
Awaited == {c \in Container : producer[c] \in {"exec", "error"} \/ c = reader.container}

WaitGroupCounts == errWg = Cardinality(Awaited)

\* The containers without a goroutine are those still to come, each once.
PendingAreOff ==
  /\ \A c \in Container : producer[c] = "off" <=> c \in Range(pending)
  /\ \A i, j \in DOMAIN pending : i # j => pending[i] # pending[j]
  /\ caller # "starting" => pending = << >>

\* The reader runs from when everything is started, and holds a container while
\* it stores its error.
ReaderState ==
  /\ caller = "starting" => reader.pc = "off"
  /\ reader.container # NoContainer <=> reader.pc \in {"append", "count"}
  /\ reader.container # NoContainer => producer[reader.container] = "closed" /\ reader.container \in Failing

\* An error is stored once, when its producer is through.
ErrorsStored ==
  /\ \A c \in Range(errors) : producer[c] = "closed"
  /\ \A i, j \in DOMAIN errors : i # j => errors[i] # errors[j]
  /\ reader.pc = "append" => reader.container \notin Range(errors)
  /\ reader.pc = "count" => reader.container \in Range(errors)

OnlyFailingFail == \A c \in Container : producer[c] = "error" => c \in Failing

ClosedOnReturn ==
  /\ errClosed <=> caller = "returned"
  /\ caller = "returned" => errWg = 0
  /\ reader.pc = "done" => errClosed

ErrorsInv ==
  /\ TypeOK
  /\ WaitGroupCounts
  /\ PendingAreOff
  /\ ReaderState
  /\ ErrorsStored
  /\ OnlyFailingFail
  /\ ClosedOnReturn

(***************************************************************************)
(* The logs.                                                               *)
(***************************************************************************)

Increasing(s) == \A i, j \in DOMAIN s : i < j => s[i] < s[j]

\* Every place that has been written is in a pipe or in the archive.
Kept(c) == Range(copied[c]) \cup Range(pipe[c].out) \cup Range(pipe[c].err) = 1 .. written[c]

\* Each pipe holds its own parts, in their order, later ones than the archive.
PipesOrdered(c) ==
  /\ \A n \in Range(pipe[c].out) : output[c][n] # "err"
  /\ \A n \in Range(pipe[c].err) : output[c][n] = "err"
  /\ Increasing(pipe[c].out) /\ Increasing(pipe[c].err)
  /\ \A n \in Range(copied[c]) :
       /\ output[c][n] # "err" => \A m \in Range(pipe[c].out) : n < m
       /\ output[c][n] = "err" => \A m \in Range(pipe[c].err) : n < m

\* What is in the archive is in order, and a line too long is not.
CopiedOrdered(c) ==
  /\ \A i, j \in DOMAIN copied[c] : i < j => Before(output[c], copied[c][i], copied[c][j])
  /\ \A n \in Range(copied[c]) : output[c][n] # "long"

\* How far the producer is tells what has been read.
ReadSoFar(c) ==
  /\ ~Started(c) => written[c] = 0
  /\ producer[c] = "stdout" => \A n \in Range(copied[c]) : output[c][n] # "err"
  /\ producer[c] = "stderr" => pipe[c].out = << >> /\ DockerDone(c)
  /\ producer[c] = "closed" /\ Started(c) =>
       \/ pipe[c].out = << >> /\ pipe[c].err = << >> /\ DockerDone(c)
       \/ /\ pipe[c].out # << >> /\ output[c][Head(pipe[c].out)] = "long"
          /\ \A n \in Range(copied[c]) : output[c][n] # "err"

LogInv(c) == Kept(c) /\ PipesOrdered(c) /\ CopiedOrdered(c) /\ ReadSoFar(c)

\* The collector is through with a stream only when it is closed, and copies
\* only if no command has failed.
CopyingInv ==
  /\ result # "none" => caller = "returned"
  /\ result = "files" =>
       /\ errors = << >>
       /\ \A c \in Container : c \in Range(copying) \/ producer[c] = "closed"

LogsInv == CopyingInv /\ \A c \in Container : LogInv(c)

-----------------------------------------------------------------------------
(* Sequences and the containers *)

LEMMA RangeIn ==
  ASSUME NEW S, NEW s \in Seq(S)
  PROVE  /\ Range(s) \subseteq S
         /\ Range(s) = {} <=> s = << >>
         /\ \A x : x \in Range(s) <=> \E i \in 1 .. Len(s) : s[i] = x
<1>1. DOMAIN s = 1 .. Len(s) /\ Len(s) \in Nat /\ \A i \in 1 .. Len(s) : s[i] \in S
  OBVIOUS
<1>2. s # << >> => 1 \in 1 .. Len(s)
  OBVIOUS
<1>3. s = << >> => Len(s) = 0
  OBVIOUS
<1>4. Range(s) = {s[i] : i \in 1 .. Len(s)}
  BY <1>1 DEF Range
<1>5. Range(s) \subseteq S
  BY <1>1, <1>4
<1>6. Range(s) = {} <=> s = << >>
  BY <1>1, <1>2, <1>3, <1>4
<1>7. \A x : x \in Range(s) <=> \E i \in 1 .. Len(s) : s[i] = x
  BY <1>4
<1> QED
  BY <1>5, <1>6, <1>7

LEMMA RangeOfAppend ==
  ASSUME NEW S, NEW s \in Seq(S), NEW e \in S
  PROVE  Range(Append(s, e)) = Range(s) \cup {e}
BY DEF Range

\* The head comes before the rest.
LEMMA RangeOfTail ==
  ASSUME NEW S, NEW s \in Seq(S), s # << >>
  PROVE  /\ Tail(s) \in Seq(S) /\ Head(s) \in S /\ Head(s) = s[1] /\ Len(s) >= 1
         /\ DOMAIN Tail(s) = 1 .. Len(s) - 1
         /\ \A i \in 1 .. Len(s) - 1 : Tail(s)[i] = s[i + 1]
         /\ Range(s) = Range(Tail(s)) \cup {Head(s)}
<1>1. /\ Tail(s) \in Seq(S) /\ Head(s) \in S /\ Head(s) = s[1] /\ Len(s) >= 1
      /\ DOMAIN Tail(s) = 1 .. Len(s) - 1
      /\ \A i \in 1 .. Len(s) - 1 : Tail(s)[i] = s[i + 1]
  OBVIOUS
<1>2. Range(s) \subseteq Range(Tail(s)) \cup {Head(s)}
  <2> SUFFICES ASSUME NEW i \in 1 .. Len(s), i # 1 PROVE s[i] \in Range(Tail(s))
    BY <1>1 DEF Range
  <2>1. i - 1 \in 1 .. Len(s) - 1 /\ Tail(s)[i - 1] = s[i]
    BY <1>1
  <2> QED
    BY <1>1, <2>1 DEF Range
<1>3. Range(Tail(s)) \cup {Head(s)} \subseteq Range(s)
  <2>1. ASSUME NEW i \in 1 .. Len(s) - 1 PROVE Tail(s)[i] \in Range(s)
    BY <1>1 DEF Range
  <2> QED
    BY <1>1, <2>1 DEF Range
<1> QED
  BY <1>1, <1>2, <1>3

LEMMA OrderType ==
  /\ Order \in Seq(Container) /\ Range(Order) = Container
  /\ NoContainer \notin Container /\ PipeSize \in Nat
BY ContainerLogsAssumption

\* There are as many containers as Order lists, at most.
LEMMA ContainersFinite ==
  IsFiniteSet(Container) /\ Cardinality(Container) <= Len(Order)
<1>1. Order \in Surjection(1 .. Len(Order), Container)
  BY OrderType DEF Surjection, Range
<1>2. IsFiniteSet(1 .. Len(Order)) /\ Cardinality(1 .. Len(Order)) = Len(Order)
  <2>1. Len(Order) \in Nat
    BY OrderType, LenProperties
  <2> QED
    BY <2>1, FS_Interval
<1> QED
  BY <1>1, <1>2, FS_Surjection

LEMMA AwaitedFinite ==
  /\ IsFiniteSet(Awaited)
  /\ Cardinality(Awaited) \in 0 .. Len(Order)
<1>1. Awaited \subseteq Container
  BY DEF Awaited
<1>2. IsFiniteSet(Awaited) /\ Cardinality(Awaited) <= Cardinality(Container)
  BY <1>1, ContainersFinite, FS_Subset
<1>3. Cardinality(Awaited) \in Nat /\ Cardinality(Container) \in Nat
  BY <1>2, ContainersFinite, FS_CardinalityType
<1> QED
  BY <1>2, <1>3, ContainersFinite, OrderType

\* The bound of the counter follows from what it counts.
LEMMA CounterBound ==
  WaitGroupCounts' => (errWg \in 0 .. Len(Order))'
<1>1. WaitGroupCounts => errWg \in 0 .. Len(Order)
  BY AwaitedFinite DEF WaitGroupCounts
<1> QED
  BY <1>1, PTL

-----------------------------------------------------------------------------
(* The errors *)

LEMMA ErrorsInitially == Init => ErrorsInv
<1> SUFFICES ASSUME Init PROVE ErrorsInv
  OBVIOUS
<1>1. Awaited = {}
  BY OrderType DEF Init, Awaited
<1>2. WaitGroupCounts
  BY <1>1, FS_EmptySet DEF WaitGroupCounts, Init
<1>3. TypeOK
  <2>1. /\ pending \in Seq(Container) /\ errors \in Seq(Failing) /\ copying \in Seq(Container)
        /\ errWg \in 0 .. Len(Order)
    BY OrderType DEF Init
  <2>2. producer \in [Container -> ProducerPc]
    BY DEF Init, ProducerPc
  <2>3. /\ output \in [Container -> Outputs] /\ written \in [Container -> Nat]
        /\ \A c \in Container : written[c] <= Len(output[c])
    <3>1. \A c \in Container : output[c] \in Seq({"out", "err", "long"})
      BY ContainerLogsAssumption DEF Init
    <3> QED
      BY <3>1 DEF Init
  <2>4. << >> \in Seq(Nat) /\ << >> \in Seq({"out", "err"}) /\ Len(<< >>) = 0
    OBVIOUS
  <2>5. pipe \in [Container -> [out : Seq(Nat), err : Seq(Nat)]]
    BY <2>4 DEF Init
  <2>6. \A c \in Container : Len(pipe[c].out) <= PipeSize /\ Len(pipe[c].err) <= PipeSize
    BY <2>4, OrderType DEF Init
  <2>7. copied \in [Container -> Seq(Nat)]
    BY <2>4 DEF Init
  <2>8. reader \in [pc : {"off", "receive", "append", "count", "done"},
                    container : Container \cup {NoContainer}]
    BY DEF Init
  <2> QED
    BY <2>1, <2>2, <2>3, <2>5, <2>6, <2>7, <2>8 DEF Init, TypeOK
<1>4. PendingAreOff
  BY ContainerLogsAssumption DEF Init, PendingAreOff
<1>5. ErrorsStored
  <2>1. errors = << >> /\ << >> \in Seq(Failing) /\ DOMAIN << >> = {}
    BY DEF Init
  <2>2. Range(errors) = {}
    BY <2>1, RangeIn
  <2> QED
    BY <2>1, <2>2 DEF Init, ErrorsStored
<1> QED
  BY <1>2, <1>3, <1>4, <1>5 DEF ErrorsInv, ReaderState, OnlyFailingFail, ClosedOnReturn, Init

\* Types of what the steps use.
LEMMA StateTypes ==
  ASSUME TypeOK, NEW c \in Container
  PROVE  /\ output[c] \in Seq({"out", "err", "long"})
         /\ written[c] \in Nat /\ written[c] <= Len(output[c])
         /\ pipe[c].out \in Seq(Nat) /\ pipe[c].err \in Seq(Nat) /\ copied[c] \in Seq(Nat)
BY ContainerLogsAssumption DEF TypeOK

LEMMA StartProducerKeeps ==
  ASSUME ErrorsInv, StartProducer
  PROVE  ErrorsInv'
<1> PICK h : h = Head(pending)
  OBVIOUS
<1>1. pending \in Seq(Container) /\ pending # << >>
  BY DEF ErrorsInv, TypeOK, StartProducer
<1>2. /\ h \in Container /\ pending' \in Seq(Container) /\ h \notin Range(pending')
      /\ Range(pending) = Range(pending') \cup {h}
      /\ \A i, j \in DOMAIN pending' : i # j => pending'[i] # pending'[j]
  <2>1. /\ h \in Container /\ pending' \in Seq(Container) /\ h = pending[1] /\ Len(pending) >= 1
        /\ DOMAIN pending' = 1 .. Len(pending) - 1
        /\ \A i \in 1 .. Len(pending) - 1 : pending'[i] = pending[i + 1]
        /\ Range(pending) = Range(pending') \cup {h}
    BY <1>1, RangeOfTail DEF StartProducer
  <2>2. \A i, j \in 1 .. Len(pending) : i # j => pending[i] # pending[j]
    BY <1>1 DEF ErrorsInv, PendingAreOff
  <2>3. h \notin Range(pending')
    BY <2>1, <2>2 DEF Range
  <2>4. \A i, j \in DOMAIN pending' : i # j => pending'[i] # pending'[j]
    BY <1>1, <2>1, <2>2
  <2> QED
    BY <2>1, <2>3, <2>4
<1>3. /\ producer' = [producer EXCEPT ![h] = "exec"] /\ errWg' = errWg + 1
      /\ caller = "starting" /\ caller' = "starting"
      /\ UNCHANGED <<errClosed, reader, errors, result, copying, output, written, pipe, copied>>
  BY DEF StartProducer, callerElse
<1>4. producer \in [Container -> ProducerPc] /\ producer[h] = "off"
  BY <1>2 DEF ErrorsInv, TypeOK, PendingAreOff
<1>5. WaitGroupCounts'
  <2>1. h \notin Awaited
    BY <1>4, OrderType DEF Awaited, ErrorsInv, ReaderState
  <2>2. Awaited' = Awaited \cup {h}
    BY <1>2, <1>3, <1>4 DEF Awaited
  <2>3. Cardinality(Awaited') = Cardinality(Awaited) + 1
    BY <2>1, <2>2, AwaitedFinite, FS_AddElement
  <2> QED
    BY <1>3, <2>3 DEF WaitGroupCounts, ErrorsInv
<1>6. TypeOK'
  <2>1. producer' \in [Container -> ProducerPc]
    BY <1>3, <1>4 DEF ProducerPc
  <2> QED
    BY <1>2, <1>3, <1>5, <2>1, CounterBound DEF ErrorsInv, TypeOK
<1>7. PendingAreOff'
  BY <1>2, <1>3, <1>4 DEF ErrorsInv, PendingAreOff
<1>8. ReaderState' /\ ClosedOnReturn'
  BY <1>3, <1>4, OrderType DEF ErrorsInv, ReaderState, ClosedOnReturn
<1>9. ErrorsStored'
  <2>1. \A c \in Range(errors) : c # h
    BY <1>4 DEF ErrorsInv, ErrorsStored
  <2>2. \A c \in Range(errors) : producer'[c] = "closed"
    BY <1>3, <1>4, <2>1 DEF ErrorsInv, ErrorsStored
  <2> QED
    BY <1>3, <2>2 DEF ErrorsInv, ErrorsStored
<1>10. OnlyFailingFail'
  BY <1>3, <1>4 DEF ErrorsInv, OnlyFailingFail
<1> QED
  BY <1>5, <1>6, <1>7, <1>8, <1>9, <1>10 DEF ErrorsInv

LEMMA StartReaderKeeps ==
  ASSUME ErrorsInv, StartReader
  PROVE  ErrorsInv'
<1>1. /\ caller = "starting" /\ caller' = "waiting" /\ pending' = << >> /\ pending = << >>
      /\ reader' = [reader EXCEPT !.pc = "receive"]
      /\ UNCHANGED <<producer, errWg, errClosed, errors, result, copying, output, written, pipe, copied>>
  BY DEF StartReader, callerElse
<1>2. /\ reader.pc = "off" /\ reader.container = NoContainer
      /\ reader' = [pc |-> "receive", container |-> NoContainer]
  BY <1>1 DEF ErrorsInv, TypeOK, ReaderState
<1>3. TypeOK'
  BY <1>1, <1>2 DEF ErrorsInv, TypeOK
<1>4. Awaited' = Awaited
  BY <1>1, <1>2 DEF Awaited
<1> QED
  BY <1>1, <1>2, <1>3, <1>4 DEF ErrorsInv, WaitGroupCounts, PendingAreOff, ReaderState, ErrorsStored,
                                OnlyFailingFail, ClosedOnReturn

LEMMA ReturnKeeps ==
  ASSUME ErrorsInv, Return
  PROVE  ErrorsInv'
<1>1. /\ caller = "waiting" /\ caller' = "returned" /\ errWg = 0 /\ errClosed' = TRUE
      /\ UNCHANGED <<pending, producer, errWg, reader, errors, output, written, pipe, copied>>
      /\ result' \in {"files", "error"}
      /\ copying' \in {Order, << >>}
  BY DEF Return, callerElse
<1>2. copying' \in Seq(Container)
  <2>1. << >> \in Seq(Container)
    OBVIOUS
  <2> QED
    BY <1>1, <2>1, OrderType
<1>3. TypeOK'
  BY <1>1, <1>2 DEF ErrorsInv, TypeOK
<1>4. Awaited' = Awaited
  BY <1>1 DEF Awaited
<1> QED
  BY <1>1, <1>3, <1>4 DEF ErrorsInv, WaitGroupCounts, PendingAreOff, ReaderState, ErrorsStored,
                          OnlyFailingFail, ClosedOnReturn

LEMMA ExecCommandKeeps ==
  ASSUME ErrorsInv, NEW c \in Container, ExecCommand(c)
  PROVE  ErrorsInv'
<1>1. /\ producer[c] = "exec"
      /\ UNCHANGED <<written, pipe, errClosed, errors, reader, copied, output, caller, pending,
                     result, copying>>
      /\ producer \in [Container -> ProducerPc]
  BY DEF ExecCommand, producerElse, ErrorsInv, TypeOK
<1>2. /\ producer'[c] \in {"stdout", "error"}
      /\ producer' = [producer EXCEPT ![c] = producer'[c]]
      /\ producer'[c] = "stdout" => errWg' = errWg - 1
      /\ producer'[c] = "error" => errWg' = errWg /\ c \in Failing
  BY <1>1 DEF ExecCommand
<1>3. c # reader.container
  BY <1>1, OrderType DEF ErrorsInv, ReaderState
<1>4. WaitGroupCounts'
  <2>1. CASE producer'[c] = "stdout"
    <3>1. c \in Awaited
      BY <1>1 DEF Awaited
    <3>2. Awaited' = Awaited \ {c}
      BY <1>1, <1>2, <1>3, <2>1 DEF Awaited
    <3>3. Cardinality(Awaited') = Cardinality(Awaited) - 1
      BY <3>1, <3>2, AwaitedFinite, FS_RemoveElement
    <3> QED
      BY <1>2, <2>1, <3>3 DEF WaitGroupCounts, ErrorsInv
  <2>2. CASE producer'[c] = "error"
    <3>1. Awaited' = Awaited
      BY <1>1, <1>2, <2>2 DEF Awaited
    <3> QED
      BY <1>2, <2>2, <3>1 DEF WaitGroupCounts, ErrorsInv
  <2> QED
    BY <1>2, <2>1, <2>2
<1>5. TypeOK'
  <2>1. producer' \in [Container -> ProducerPc]
    BY <1>1, <1>2 DEF ProducerPc
  <2> QED
    BY <1>1, <1>4, <2>1, CounterBound DEF ErrorsInv, TypeOK
<1>6. PendingAreOff'
  BY <1>1, <1>2 DEF ErrorsInv, PendingAreOff
<1>7. ReaderState'
  <2>1. reader.container # NoContainer => producer'[reader.container] = producer[reader.container]
    BY <1>1, <1>2, <1>3 DEF ErrorsInv, TypeOK
  <2> QED
    BY <1>1, <2>1 DEF ErrorsInv, ReaderState
<1>8. ErrorsStored'
  <2>1. \A d \in Range(errors) : d # c
    BY <1>1 DEF ErrorsInv, ErrorsStored
  <2>2. Range(errors) \subseteq Container
    BY RangeIn, ContainerLogsAssumption DEF ErrorsInv, TypeOK
  <2>3. \A d \in Range(errors) : producer'[d] = "closed"
    BY <1>1, <1>2, <2>1, <2>2 DEF ErrorsInv, ErrorsStored
  <2> QED
    BY <1>1, <2>3 DEF ErrorsInv, ErrorsStored
<1>9. OnlyFailingFail'
  BY <1>1, <1>2 DEF ErrorsInv, OnlyFailingFail
<1>10. ClosedOnReturn'
  <2>1. caller # "returned"
    <3>1. Cardinality(Awaited) # 0
      <4>1. c \in Awaited
        BY <1>1 DEF Awaited
      <4> QED
        BY <4>1, AwaitedFinite, FS_EmptySet
    <3> QED
      BY <3>1 DEF ErrorsInv, WaitGroupCounts, ClosedOnReturn
  <2> QED
    BY <1>1, <2>1 DEF ErrorsInv, ClosedOnReturn
<1> QED
  BY <1>4, <1>5, <1>6, <1>7, <1>8, <1>9, <1>10 DEF ErrorsInv

LEMMA SendErrorKeeps ==
  ASSUME ErrorsInv, NEW c \in Container, SendError(c)
  PROVE  ErrorsInv'
<1>1. /\ producer[c] = "error" /\ reader.pc = "receive"
      /\ producer' = [producer EXCEPT ![c] = "closed"]
      /\ reader' = [pc |-> "append", container |-> c]
      /\ UNCHANGED <<written, pipe, errWg, errClosed, errors, copied, output, caller, pending,
                     result, copying>>
      /\ producer \in [Container -> ProducerPc]
  BY DEF SendError, producerElse, ErrorsInv, TypeOK
<1>2. reader.container = NoContainer /\ c \in Failing /\ c # NoContainer
  BY <1>1, OrderType DEF ErrorsInv, ReaderState, OnlyFailingFail
<1>3. WaitGroupCounts'
  <2>1. Awaited' = Awaited
    BY <1>1, <1>2, OrderType DEF Awaited
  <2> QED
    BY <1>1, <2>1 DEF WaitGroupCounts, ErrorsInv
<1>4. TypeOK'
  <2>1. producer' \in [Container -> ProducerPc]
    BY <1>1 DEF ProducerPc
  <2> QED
    BY <1>1, <2>1 DEF ErrorsInv, TypeOK
<1>5. PendingAreOff' /\ OnlyFailingFail'
  BY <1>1 DEF ErrorsInv, PendingAreOff, OnlyFailingFail
<1>6. ReaderState' /\ ClosedOnReturn'
  BY <1>1, <1>2 DEF ErrorsInv, ReaderState, ClosedOnReturn
<1>7. ErrorsStored'
  <2>1. c \notin Range(errors)
    BY <1>1 DEF ErrorsInv, ErrorsStored
  <2>2. \A d \in Range(errors) : producer'[d] = "closed"
    BY <1>1, <2>1 DEF ErrorsInv, ErrorsStored
  <2> QED
    BY <1>1, <2>1, <2>2 DEF ErrorsInv, ErrorsStored
<1> QED
  BY <1>3, <1>4, <1>5, <1>6, <1>7 DEF ErrorsInv

LEMMA StoreErrorKeeps ==
  ASSUME ErrorsInv, StoreError
  PROVE  ErrorsInv'
<1> PICK c : c = reader.container
  OBVIOUS
<1>1. /\ UNCHANGED <<producer, written, pipe, errClosed, copied, output, caller, pending,
                     result, copying>>
      /\ reader.pc \in {"append", "count"}
  BY DEF StoreError, producerElse
<1>2. /\ c \in Container /\ c \in Failing /\ producer[c] = "closed" /\ c # NoContainer
      /\ errors \in Seq(Failing)
  BY <1>1 DEF ErrorsInv, TypeOK, ReaderState
<1>3. CASE reader.pc = "append"
  <2>1. errors' = Append(errors, c) /\ reader' = [pc |-> "count", container |-> c] /\ errWg' = errWg
    BY <1>3 DEF StoreError, ErrorsInv, TypeOK
  <2>2. errors' \in Seq(Failing) /\ Range(errors') = Range(errors) \cup {c} /\ c \notin Range(errors)
    BY <1>2, <1>3, <2>1, RangeOfAppend DEF ErrorsInv, ErrorsStored
  <2>3. TypeOK'
    BY <1>1, <1>2, <2>1, <2>2 DEF ErrorsInv, TypeOK
  <2>4. WaitGroupCounts'
    <3>1. Awaited' = Awaited
      BY <1>1, <2>1 DEF Awaited
    <3> QED
      BY <2>1, <3>1 DEF WaitGroupCounts, ErrorsInv
  <2>5. PendingAreOff' /\ OnlyFailingFail' /\ ReaderState' /\ ClosedOnReturn'
    BY <1>1, <1>2, <1>3, <2>1 DEF ErrorsInv, PendingAreOff, OnlyFailingFail, ReaderState, ClosedOnReturn
  <2>6. ErrorsStored'
    <3>1. \A d \in Range(errors') : producer'[d] = "closed"
      BY <1>1, <1>2, <2>2 DEF ErrorsInv, ErrorsStored
    <3>2. ASSUME NEW i \in DOMAIN errors', NEW j \in DOMAIN errors', i # j
          PROVE  errors'[i] # errors'[j]
      <4>1. \A m \in 1 .. Len(errors) : errors[m] # c
        BY <1>2, <2>2 DEF Range
      <4>2. \A m, n \in 1 .. Len(errors) : m # n => errors[m] # errors[n]
        BY <1>2 DEF ErrorsInv, ErrorsStored
      <4> QED
        BY <1>2, <2>1, <3>2, <4>1, <4>2
    <3> QED
      BY <2>1, <2>2, <3>1, <3>2 DEF ErrorsStored
  <2> QED
    BY <2>3, <2>4, <2>5, <2>6 DEF ErrorsInv
<1>4. CASE reader.pc = "count"
  <2>1. /\ errors' = errors /\ reader' = [pc |-> "receive", container |-> NoContainer]
        /\ errWg' = errWg - 1
    BY <1>4 DEF StoreError
  <2>2. WaitGroupCounts' /\ Cardinality(Awaited) # 0
    <3>1. c \in Awaited
      BY <1>2 DEF Awaited
    <3>2. Awaited' = Awaited \ {c}
      BY <1>1, <1>2, <2>1, OrderType DEF Awaited
    <3>3. Cardinality(Awaited') = Cardinality(Awaited) - 1
      BY <3>1, <3>2, AwaitedFinite, FS_RemoveElement
    <3> QED
      BY <2>1, <3>1, <3>3, AwaitedFinite, FS_EmptySet DEF WaitGroupCounts, ErrorsInv
  <2>3. TypeOK'
    BY <1>1, <2>1, <2>2, CounterBound DEF ErrorsInv, TypeOK
  <2>4. PendingAreOff' /\ OnlyFailingFail' /\ ReaderState' /\ ErrorsStored'
    BY <1>1, <1>4, <2>1 DEF ErrorsInv, PendingAreOff, OnlyFailingFail, ReaderState, ErrorsStored
  <2>5. ClosedOnReturn'
    BY <1>1, <1>4, <2>1, <2>2 DEF ErrorsInv, WaitGroupCounts, ClosedOnReturn
  <2> QED
    BY <2>2, <2>3, <2>4, <2>5 DEF ErrorsInv
<1> QED
  BY <1>1, <1>3, <1>4

LEMMA ReaderDoneKeeps ==
  ASSUME ErrorsInv, ReaderDone
  PROVE  ErrorsInv'
<1>1. /\ reader.pc = "receive" /\ errClosed
      /\ UNCHANGED <<errWg, errors, producer, written, pipe, errClosed, copied, output, caller,
                     pending, result, copying>>
  BY DEF ReaderDone, producerElse
<1>2. reader.container = NoContainer /\ reader' = [pc |-> "done", container |-> NoContainer]
  BY <1>1 DEF ReaderDone, ErrorsInv, TypeOK, ReaderState
<1>3. TypeOK'
  BY <1>1, <1>2 DEF ErrorsInv, TypeOK
<1>4. Awaited' = Awaited
  BY <1>1, <1>2 DEF Awaited
<1> QED
  BY <1>1, <1>2, <1>3, <1>4 DEF ErrorsInv, WaitGroupCounts, PendingAreOff, ReaderState, ErrorsStored,
                                OnlyFailingFail, ClosedOnReturn

\* What docker, the scanners and the collector do leaves the errors alone.
LEMMA OutputKeepsErrors ==
  ASSUME ErrorsInv, TypeOK', UNCHANGED <<caller, pending, errorVars>>,
         \A c \in Container : \/ producer'[c] = producer[c]
                              \/ /\ producer[c] \in {"stdout", "stderr"}
                                 /\ producer'[c] \in {"stderr", "closed"}
  PROVE  ErrorsInv'
<1> USE DEF errorVars
<1>1. Awaited' = Awaited
  BY DEF Awaited
<1>2. PendingAreOff' /\ OnlyFailingFail' /\ ClosedOnReturn'
  BY DEF ErrorsInv, PendingAreOff, OnlyFailingFail, ClosedOnReturn
<1>3. ReaderState'
  BY DEF ErrorsInv, TypeOK, ReaderState
<1>4. ErrorsStored'
  <2>1. Range(errors) \subseteq Container
    BY RangeIn, ContainerLogsAssumption DEF ErrorsInv, TypeOK
  <2> QED
    BY <2>1 DEF ErrorsInv, ErrorsStored
<1> QED
  BY <1>1, <1>2, <1>3, <1>4 DEF ErrorsInv, WaitGroupCounts

\* Once the caller has returned, nobody is awaited.
LEMMA NobodyAwaited ==
  ASSUME ErrorsInv, caller = "returned"
  PROVE  /\ \A c \in Container : producer[c] \notin {"off", "exec", "error"}
         /\ reader.container = NoContainer
<1>1. Awaited = {}
  BY AwaitedFinite, FS_EmptySet DEF ErrorsInv, WaitGroupCounts, ClosedOnReturn
<1>2. \A c \in Container : producer[c] # "off"
  <2>1. Range(pending) = {}
    BY RangeIn DEF ErrorsInv, TypeOK, PendingAreOff
  <2> QED
    BY <2>1 DEF ErrorsInv, PendingAreOff
<1> QED
  BY <1>1, <1>2 DEF Awaited, ErrorsInv, TypeOK

-----------------------------------------------------------------------------
(* The logs *)

\* What is in the pipes and in the archive are places of the output.
LEMMA PlacesWritten ==
  ASSUME TypeOK, NEW c \in Container, Kept(c)
  PROVE  /\ \A n \in Range(copied[c]) \cup Range(pipe[c].out) \cup Range(pipe[c].err) :
              n \in Nat /\ n <= written[c]
         /\ written[c] = 0 => pipe[c].out = << >> /\ pipe[c].err = << >> /\ Range(copied[c]) = {}
<1>1. written[c] \in Nat /\ pipe[c].out \in Seq(Nat) /\ pipe[c].err \in Seq(Nat)
  BY StateTypes
<1>2. written[c] = 0 => 1 .. written[c] = {}
  BY <1>1
<1>3. /\ Range(pipe[c].out) = {} => pipe[c].out = << >>
      /\ Range(pipe[c].err) = {} => pipe[c].err = << >>
  <2>1. ASSUME NEW s \in Seq(Nat), Range(s) = {} PROVE s = << >>
    BY <2>1, RangeIn
  <2> QED
    BY <1>1, <2>1
<1>4. \A n \in 1 .. written[c] : n \in Nat /\ n <= written[c]
  BY <1>1
<1> QED
  BY <1>2, <1>3, <1>4 DEF Kept

\* A step that moves nothing of the output leaves what has been read as it is.
LEMMA ContentsStay ==
  ASSUME NEW c \in Container, LogInv(c), output' = output, written' = written,
         pipe' = pipe, copied' = copied
  PROVE  Kept(c)' /\ PipesOrdered(c)' /\ CopiedOrdered(c)'
BY DEF LogInv, Kept, PipesOrdered, CopiedOrdered, Before

LEMMA ReadStays ==
  ASSUME NEW c \in Container, LogInv(c), output' = output, written' = written,
         pipe' = pipe, copied' = copied,
         Started(c)' <=> Started(c),
         \/ producer'[c] = producer[c]
         \/ producer'[c] \in {"exec", "error"}
         \/ ~Started(c)' /\ producer'[c] = "closed"
  PROVE  LogInv(c)'
<1>1. ReadSoFar(c)'
  BY DEF LogInv, ReadSoFar, DockerDone
<1> QED
  BY <1>1, ContentsStay DEF LogInv

LEMMA CopyingStays ==
  ASSUME ErrorsInv, CopyingInv, UNCHANGED <<caller, result, copying>>,
         errors' = errors \/ reader.container # NoContainer,
         \A c \in Container : producer[c] = "closed" => producer'[c] = "closed"
  PROVE  CopyingInv'
BY NobodyAwaited DEF CopyingInv

LEMMA LogsInitially == Init => LogsInv
<1> SUFFICES ASSUME Init, NEW c \in Container PROVE LogInv(c) /\ CopyingInv
  BY DEF LogsInv, Init, CopyingInv
<1>1. /\ copied[c] = << >> /\ pipe[c].out = << >> /\ pipe[c].err = << >> /\ written[c] = 0
      /\ producer[c] = "off"
  BY DEF Init
<1>2. Range(<< >>) = {} /\ DOMAIN << >> = {} /\ 1 .. 0 = {}
  BY DEF Range
<1>3. Kept(c) /\ PipesOrdered(c) /\ CopiedOrdered(c)
  BY <1>1, <1>2 DEF Kept, PipesOrdered, CopiedOrdered, Increasing
<1> QED
  BY <1>1, <1>3 DEF LogInv, ReadSoFar, CopyingInv, Init

LEMMA CallerKeepsLogs ==
  ASSUME ErrorsInv, LogsInv, StartProducer \/ StartReader \/ Return
  PROVE  LogsInv'
<1>1. UNCHANGED <<output, written, pipe, copied, errors>> /\ reader'.container = reader.container
  BY DEF StartProducer, StartReader, Return, callerElse, ErrorsInv, TypeOK
<1>2. ASSUME NEW c \in Container PROVE LogInv(c)'
  <2>1. \/ producer'[c] = producer[c]
        \/ producer[c] = "off" /\ producer'[c] = "exec"
    <3>1. CASE StartProducer
      <4>1. Head(pending) \in Container /\ Head(pending) \in Range(pending)
        BY <3>1, RangeOfTail DEF StartProducer, ErrorsInv, TypeOK
      <4> QED
        BY <3>1, <4>1 DEF StartProducer, ErrorsInv, TypeOK, PendingAreOff
    <3> QED
      BY <3>1 DEF StartReader, Return
  <2>2. Started(c)' <=> Started(c)
    BY <1>1, <2>1 DEF Started
  <2> QED
    BY <1>1, <2>1, <2>2, ReadStays DEF LogsInv
<1>3. CopyingInv'
  <2>1. CASE StartProducer \/ StartReader
    BY <2>1 DEF LogsInv, CopyingInv, StartProducer, StartReader
  <2>2. CASE Return
    BY <2>2, <1>1, OrderType DEF LogsInv, CopyingInv, Return
  <2> QED
    BY <2>1, <2>2
<1> QED
  BY <1>2, <1>3 DEF LogsInv

LEMMA ExecCommandKeepsLogs ==
  ASSUME ErrorsInv, LogsInv, NEW c \in Container, ExecCommand(c)
  PROVE  LogsInv'
<1>1. /\ producer[c] = "exec"
      /\ UNCHANGED <<written, pipe, errors, reader, copied, output, caller, result, copying>>
      /\ producer'[c] \in {"stdout", "error"} /\ \A d \in Container \ {c} : producer'[d] = producer[d]
  BY DEF ExecCommand, producerElse, ErrorsInv, TypeOK
<1>2. ASSUME NEW d \in Container, d # c PROVE LogInv(d)'
  BY <1>1, <1>2, ReadStays DEF LogsInv, Started
<1>3. LogInv(c)'
  <2>1. ~Started(c)
    BY <1>1 DEF Started
  <2>2. written[c] = 0 /\ Range(copied[c]) = {}
    BY <2>1, PlacesWritten DEF LogsInv, LogInv, ReadSoFar, ErrorsInv
  <2>3. ReadSoFar(c)'
    BY <1>1, <2>2 DEF ReadSoFar
  <2> QED
    BY <1>1, <2>3, ContentsStay DEF LogsInv, LogInv
<1>4. CopyingInv'
  BY <1>1, CopyingStays DEF LogsInv
<1> QED
  BY <1>2, <1>3, <1>4 DEF LogsInv

LEMMA ErrorsKeepLogs ==
  ASSUME ErrorsInv, LogsInv,
         (\E c \in Container : SendError(c)) \/ StoreError \/ ReaderDone
  PROVE  LogsInv'
<1>1. UNCHANGED <<written, pipe, copied, output, caller, result, copying>>
  BY DEF SendError, StoreError, ReaderDone, producerElse
<1>2. CASE \E c \in Container : SendError(c)
  <2>1. PICK c \in Container : SendError(c)
    BY <1>2
  <2>2. /\ producer[c] = "error" /\ producer'[c] = "closed" /\ reader.pc = "receive"
        /\ \A d \in Container \ {c} : producer'[d] = producer[d]
        /\ errors' = errors /\ reader'.container = c
    BY <2>1 DEF SendError, ErrorsInv, TypeOK
  <2>3. reader.container = NoContainer
    BY <2>2 DEF ErrorsInv, ReaderState
  <2>4. ASSUME NEW d \in Container PROVE LogInv(d)'
    <3>1. Started(d)' <=> Started(d)
      BY <2>2, <2>3, OrderType DEF Started
    <3>2. d = c => ~Started(d)'
      BY <2>2 DEF Started
    <3> QED
      BY <1>1, <2>2, <3>1, <3>2, ReadStays DEF LogsInv
  <2>5. CopyingInv'
    BY <1>1, <2>2, CopyingStays DEF LogsInv
  <2> QED
    BY <2>4, <2>5 DEF LogsInv
<1>3. CASE StoreError
  <2>1. producer' = producer /\ reader.container # NoContainer
    BY <1>3 DEF StoreError, ErrorsInv, ReaderState
  <2>2. ASSUME NEW d \in Container PROVE Started(d)' <=> Started(d)
    <3>1. CASE reader.pc = "append"
      <4>1. Range(errors') = Range(errors) \cup {reader.container} /\ reader'.container = reader.container
        <5>1. errors \in Seq(Failing) /\ reader.container \in Failing
          BY <2>1 DEF ErrorsInv, TypeOK, ReaderState
        <5>2. /\ errors' = Append(errors, reader.container)
              /\ reader'.container = reader.container
          BY <1>3, <3>1 DEF StoreError, ErrorsInv, TypeOK
        <5> QED
          BY <5>1, <5>2, RangeOfAppend
      <4> QED
        BY <2>1, <4>1 DEF Started
    <3>2. CASE reader.pc = "count"
      <4>1. errors' = errors /\ reader'.container = NoContainer /\ reader.container \in Range(errors)
        BY <1>3, <3>2 DEF StoreError, ErrorsInv, ErrorsStored
      <4> QED
        BY <2>1, <4>1, OrderType DEF Started
    <3> QED
      BY <1>3, <3>1, <3>2 DEF StoreError
  <2>3. \A d \in Container : LogInv(d)'
    BY <1>1, <2>1, <2>2, ReadStays DEF LogsInv
  <2>4. CopyingInv'
    BY <1>1, <2>1, CopyingStays DEF LogsInv
  <2> QED
    BY <2>3, <2>4 DEF LogsInv
<1>4. CASE ReaderDone
  <2>1. producer' = producer /\ errors' = errors /\ reader'.container = reader.container
    BY <1>4 DEF ReaderDone, ErrorsInv, TypeOK
  <2>2. \A d \in Container : Started(d)' <=> Started(d)
    BY <2>1 DEF Started
  <2>3. \A d \in Container : LogInv(d)'
    BY <1>1, <2>1, <2>2, ReadStays DEF LogsInv
  <2>4. CopyingInv'
    BY <1>1, <2>1, CopyingStays DEF LogsInv
  <2> QED
    BY <2>3, <2>4 DEF LogsInv
<1> QED
  BY <1>2, <1>3, <1>4

\* What moves for one container leaves the others as they are.
LEMMA OthersStay ==
  ASSUME NEW c \in Container, NEW d \in Container, LogInv(d),
         output' = output, written'[d] = written[d], pipe'[d] = pipe[d], copied'[d] = copied[d],
         producer'[d] = producer[d], Started(d)' <=> Started(d)
  PROVE  LogInv(d)'
BY DEF LogInv, Kept, PipesOrdered, CopiedOrdered, Before, ReadSoFar, DockerDone

\* Appending a place later than all others keeps a pipe in order.
LEMMA AppendIncreasing ==
  ASSUME NEW s \in Seq(Nat), Increasing(s), NEW n \in Nat, \A m \in Range(s) : m < n
  PROVE  /\ Increasing(Append(s, n))
         /\ s # << >> => Append(s, n) # << >> /\ Head(Append(s, n)) = Head(s)
<1>1. \A i \in 1 .. Len(s) : s[i] < n
  BY DEF Range
<1>2. Increasing(Append(s, n))
  BY <1>1 DEF Increasing
<1> QED
  BY <1>2

\* Taking the head leaves a pipe in order, with later places.
LEMMA TailIncreasing ==
  ASSUME NEW s \in Seq(Nat), Increasing(s), s # << >>
  PROVE  /\ Increasing(Tail(s))
         /\ \A m \in Range(Tail(s)) : Head(s) < m
<1>1. /\ Head(s) = s[1] /\ Len(s) >= 1 /\ DOMAIN Tail(s) = 1 .. Len(s) - 1
      /\ \A i \in 1 .. Len(s) - 1 : Tail(s)[i] = s[i + 1]
  BY RangeOfTail
<1>2. \A i, j \in 1 .. Len(s) : i < j => s[i] < s[j]
  BY DEF Increasing
<1>3. Increasing(Tail(s))
  BY <1>1, <1>2 DEF Increasing
<1>4. \A i \in 1 .. Len(s) - 1 : Head(s) < Tail(s)[i]
  BY <1>1, <1>2
<1>5. \A m \in Range(Tail(s)) : Head(s) < m
  BY <1>1, <1>4 DEF Range
<1> QED
  BY <1>3, <1>5

LEMMA DockerWritesKeeps ==
  ASSUME ErrorsInv, LogsInv, NEW c \in Container, DockerWrites(c)
  PROVE  ErrorsInv' /\ LogsInv'
<1> DEFINE out == pipe[c].out
           err == pipe[c].err
           n == written[c] + 1
<1>1. /\ UNCHANGED <<output, producer, copied, caller, pending, result, copying, errorVars>>
      /\ Started(c) /\ written[c] < Len(output[c])
      /\ written' = [written EXCEPT ![c] = n]
  BY DEF DockerWrites, producerElse
<1>2. /\ out \in Seq(Nat) /\ err \in Seq(Nat) /\ copied[c] \in Seq(Nat) /\ n \in Nat
      /\ written[c] \in Nat /\ written'[c] = n
      /\ pipe \in [Container -> [out : Seq(Nat), err : Seq(Nat)]]
  <2>1. TypeOK
    BY DEF ErrorsInv
  <2>2. written'[c] = n /\ pipe \in [Container -> [out : Seq(Nat), err : Seq(Nat)]]
    BY <1>1, <2>1 DEF TypeOK
  <2>3. /\ out \in Seq(Nat) /\ err \in Seq(Nat) /\ copied[c] \in Seq(Nat) /\ n \in Nat
        /\ written[c] \in Nat
    BY <2>1, StateTypes
  <2> QED
    BY <2>2, <2>3
<1>3. \A m \in Range(copied[c]) \cup Range(out) \cup Range(err) : m < n
  <2>1. \A m \in Range(copied[c]) \cup Range(out) \cup Range(err) : m \in Nat /\ m <= written[c]
    BY PlacesWritten DEF LogsInv, LogInv, ErrorsInv
  <2> QED
    BY <1>2, <2>1
<1>4. \/ /\ output[c][n] = "err" /\ Len(err) < PipeSize
         /\ pipe'[c].err = Append(err, n) /\ pipe'[c].out = out
      \/ /\ output[c][n] # "err" /\ Len(out) < PipeSize
         /\ pipe'[c].out = Append(out, n) /\ pipe'[c].err = err
  BY <1>2 DEF DockerWrites
<1>5. /\ \A d \in Container \ {c} : pipe'[d] = pipe[d] /\ written'[d] = written[d]
      /\ pipe' = [pipe EXCEPT ![c] = pipe'[c]]
      /\ pipe'[c] \in [out : Seq(Nat), err : Seq(Nat)]
  <2>1. \/ pipe' = [pipe EXCEPT ![c] = [pipe[c] EXCEPT !.err = Append(@, n)]]
        \/ pipe' = [pipe EXCEPT ![c] = [pipe[c] EXCEPT !.out = Append(@, n)]]
    BY <1>2 DEF DockerWrites
  <2>2. Append(out, n) \in Seq(Nat) /\ Append(err, n) \in Seq(Nat)
    BY <1>2
  <2>3. /\ [pipe[c] EXCEPT !.err = Append(@, n)] \in [out : Seq(Nat), err : Seq(Nat)]
        /\ [pipe[c] EXCEPT !.out = Append(@, n)] \in [out : Seq(Nat), err : Seq(Nat)]
    BY <1>2, <2>2
  <2>4. \A d \in Container \ {c} : written'[d] = written[d]
    BY <1>1 DEF ErrorsInv, TypeOK
  <2> HIDE DEF n
  <2> QED
    BY <1>2, <2>1, <2>3, <2>4
<1>6. \A d \in Container : Started(d)' <=> Started(d)
  BY <1>1 DEF Started, errorVars
<1>7. TypeOK'
  <2>1. pipe' \in [Container -> [out : Seq(Nat), err : Seq(Nat)]]
    BY <1>2, <1>5
  <2>2. ASSUME NEW d \in Container
        PROVE  Len(pipe'[d].out) <= PipeSize /\ Len(pipe'[d].err) <= PipeSize
    <3>1. CASE d = c
      <4>1. Len(out) <= PipeSize /\ Len(err) <= PipeSize
        BY DEF ErrorsInv, TypeOK
      <4>2. Len(Append(out, n)) = Len(out) + 1 /\ Len(Append(err, n)) = Len(err) + 1
        BY <1>2
      <4>3. Len(out) \in Nat /\ Len(err) \in Nat
        BY <1>2
      <4> HIDE DEF out, err, n
      <4> QED
        BY <1>4, <3>1, <4>1, <4>2, <4>3, OrderType
    <3> QED
      BY <1>5, <3>1 DEF ErrorsInv, TypeOK
  <2>3. written' \in [Container -> Nat] /\ \A d \in Container : written'[d] <= Len(output'[d])
    BY <1>1, <1>2, <1>5 DEF ErrorsInv, TypeOK
  <2> QED
    BY <1>1, <2>1, <2>2, <2>3 DEF ErrorsInv, TypeOK, errorVars
<1>8. ErrorsInv'
  BY <1>1, <1>7, OutputKeepsErrors
<1>9. ASSUME NEW d \in Container, d # c PROVE LogInv(d)'
  BY <1>1, <1>5, <1>6, <1>9, OthersStay DEF LogsInv
<1>10. LogInv(c)'
  <2>1. Kept(c) /\ PipesOrdered(c) /\ CopiedOrdered(c) /\ ReadSoFar(c)
    BY DEF LogsInv, LogInv
  <2>2. /\ Range(Append(out, n)) = Range(out) \cup {n} /\ Range(Append(err, n)) = Range(err) \cup {n}
        /\ Increasing(Append(out, n)) /\ Increasing(Append(err, n))
        /\ out # << >> => Append(out, n) # << >> /\ Head(Append(out, n)) = Head(out)
    <3>1. ASSUME NEW s \in Seq(Nat), Increasing(s), \A m \in Range(s) : m < n
          PROVE  /\ Range(Append(s, n)) = Range(s) \cup {n}
                 /\ Increasing(Append(s, n))
                 /\ s # << >> => Append(s, n) # << >> /\ Head(Append(s, n)) = Head(s)
      BY <1>2, <3>1, RangeOfAppend, AppendIncreasing
    <3>2. Increasing(out) /\ Increasing(err)
      BY <2>1 DEF PipesOrdered
    <3> QED
      BY <1>2, <1>3, <3>1, <3>2
  <2>3. Kept(c)'
    <3>1. 1 .. n = 1 .. written[c] \cup {n}
      BY <1>2
    <3> QED
      BY <1>1, <1>2, <1>4, <2>1, <2>2, <3>1 DEF Kept
  <2>4. PipesOrdered(c)'
    BY <1>1, <1>3, <1>4, <2>1, <2>2 DEF PipesOrdered
  <2>5. CopiedOrdered(c)'
    BY <1>1, <2>1 DEF CopiedOrdered, Before
  <2>6. ReadSoFar(c)'
    <3>1. producer[c] # "stderr"
      BY <1>1, <2>1 DEF ReadSoFar, DockerDone
    <3>2. producer[c] = "stdout" => \A m \in Range(copied[c]) : output[c][m] # "err"
      BY <2>1 DEF ReadSoFar
    <3>3. producer[c] = "closed" => /\ out # << >> /\ output[c][Head(out)] = "long"
                                    /\ \A m \in Range(copied[c]) : output[c][m] # "err"
      BY <1>1, <2>1 DEF ReadSoFar, DockerDone
    <3>4. out # << >> => pipe'[c].out # << >> /\ Head(pipe'[c].out) = Head(out)
      BY <1>4, <2>2
    <3> QED
      BY <1>1, <1>6, <3>1, <3>2, <3>3, <3>4 DEF ReadSoFar
  <2> QED
    BY <2>3, <2>4, <2>5, <2>6 DEF LogInv
<1>11. CopyingInv'
  BY <1>1, CopyingStays DEF LogsInv, errorVars
<1> QED
  BY <1>8, <1>9, <1>10, <1>11 DEF LogsInv

LEMMA ProducerKeeps ==
  ASSUME ErrorsInv, LogsInv, NEW c \in Container, NextPipe(c) \/ CloseStream(c)
  PROVE  ErrorsInv' /\ LogsInv'
<1>1. /\ UNCHANGED <<output, written, pipe, copied, caller, pending, result, copying, errorVars>>
      /\ producer[c] \in {"stdout", "stderr"} /\ producer'[c] \in {"stderr", "closed"}
      /\ producer' = [producer EXCEPT ![c] = producer'[c]]
      /\ producer \in [Container -> ProducerPc]
  BY DEF NextPipe, CloseStream, AtLongLine, producerElse, ErrorsInv, TypeOK
<1>2. producer' \in [Container -> ProducerPc] /\ \A d \in Container \ {c} : producer'[d] = producer[d]
  BY <1>1 DEF ProducerPc
<1>3. ErrorsInv'
  <2>1. TypeOK'
    BY <1>1, <1>2 DEF ErrorsInv, TypeOK, errorVars
  <2> QED
    BY <1>1, <1>2, <2>1, OutputKeepsErrors
<1>4. ASSUME NEW d \in Container, d # c PROVE LogInv(d)'
  <2>1. Started(d)' <=> Started(d)
    BY <1>1, <1>2, <1>4 DEF Started, errorVars
  <2> QED
    BY <1>1, <1>2, <1>4, <2>1, OthersStay DEF LogsInv
<1>5. LogInv(c)'
  <2>1. Started(c)' <=> Started(c)
    BY <1>1 DEF Started, errorVars
  <2>2. ReadSoFar(c)'
    BY <1>1, <2>1 DEF LogsInv, LogInv, ReadSoFar, NextPipe, CloseStream, AtLongLine, DockerDone
  <2> QED
    BY <1>1, <2>2, ContentsStay DEF LogsInv, LogInv
<1>6. CopyingInv'
  BY <1>1, <1>2, CopyingStays DEF LogsInv, errorVars
<1> QED
  BY <1>3, <1>4, <1>5, <1>6 DEF LogsInv

\* Two places of a sequence that has got one more.
LEMMA AppendPlaces ==
  ASSUME NEW s \in Seq(Nat), NEW n \in Nat,
         NEW i \in DOMAIN Append(s, n), NEW j \in DOMAIN Append(s, n), i < j
  PROVE  /\ i \in DOMAIN s /\ Append(s, n)[i] = s[i] /\ s[i] \in Range(s)
         /\ \/ Append(s, n)[j] = n
            \/ j \in DOMAIN s /\ Append(s, n)[j] = s[j]
<1>1. DOMAIN s = 1 .. Len(s) /\ DOMAIN Append(s, n) = 1 .. Len(s) + 1 /\ Len(s) \in Nat
  OBVIOUS
<1>2. i \in 1 .. Len(s) /\ Append(s, n)[i] = s[i]
  BY <1>1
<1>3. \/ j = Len(s) + 1 /\ Append(s, n)[j] = n
      \/ j \in 1 .. Len(s) /\ Append(s, n)[j] = s[j]
  BY <1>1
<1>4. s[i] \in Range(s)
  BY <1>1, <1>2, RangeIn
<1> QED
  BY <1>1, <1>2, <1>3, <1>4

\* A line goes from the pipe it heads to the end of the archive.
LEMMA CopyLineKeeps ==
  ASSUME ErrorsInv, LogsInv, CopyLine
  PROVE  ErrorsInv' /\ LogsInv'
<1> PICK c : c = Head(copying)
  OBVIOUS
<1> DEFINE out == pipe[c].out
           err == pipe[c].err
<1>1. /\ UNCHANGED <<producer, written, output, caller, pending, result, copying, errorVars>>
      /\ c \in Container
  BY RangeOfTail DEF CopyLine, producerElse, ErrorsInv, TypeOK
<1>2. /\ out \in Seq(Nat) /\ err \in Seq(Nat) /\ copied[c] \in Seq(Nat)
      /\ pipe \in [Container -> [out : Seq(Nat), err : Seq(Nat)]]
      /\ copied \in [Container -> Seq(Nat)]
      /\ Len(out) <= PipeSize /\ Len(err) <= PipeSize
  BY <1>1 DEF ErrorsInv, TypeOK
<1>3. PICK n : n = IF producer[c] = "stdout" THEN Head(out) ELSE Head(err)
  OBVIOUS
<1>4. \/ /\ producer[c] = "stdout" /\ out # << >> /\ n = Head(out) /\ output[c][n] # "long"
         /\ pipe' = [pipe EXCEPT ![c].out = Tail(@)]
      \/ /\ producer[c] = "stderr" /\ err # << >> /\ n = Head(err)
         /\ pipe' = [pipe EXCEPT ![c].err = Tail(@)]
  BY <1>3 DEF CopyLine, AtLongLine
<1>5. copied' = [copied EXCEPT ![c] = Append(@, n)]
  BY <1>3 DEF CopyLine
<1>6. ASSUME NEW s \in Seq(Nat), s # << >>
      PROVE  /\ Tail(s) \in Seq(Nat) /\ Len(Tail(s)) <= Len(s) /\ Head(s) \in Nat
             /\ Range(s) = Range(Tail(s)) \cup {Head(s)}
             /\ Increasing(s) => Increasing(Tail(s)) /\ \A m \in Range(Tail(s)) : Head(s) < m
  BY <1>6, RangeOfTail, TailIncreasing
<1>7. n \in Nat /\ Append(copied[c], n) \in Seq(Nat)
      /\ Range(Append(copied[c], n)) = Range(copied[c]) \cup {n}
  BY <1>2, <1>4, <1>6, RangeOfAppend
<1>8. /\ copied' \in [Container -> Seq(Nat)] /\ copied'[c] = Append(copied[c], n)
      /\ \A d \in Container \ {c} : copied'[d] = copied[d] /\ pipe'[d] = pipe[d]
  BY <1>1, <1>2, <1>4, <1>5, <1>7
<1>9. /\ pipe' \in [Container -> [out : Seq(Nat), err : Seq(Nat)]]
      /\ \/ /\ producer[c] = "stdout" /\ pipe'[c].out = Tail(out) /\ pipe'[c].err = err
         \/ /\ producer[c] = "stderr" /\ pipe'[c].err = Tail(err) /\ pipe'[c].out = out
  <2>1. CASE producer[c] = "stdout"
    <3>1. Tail(out) \in Seq(Nat) /\ pipe' = [pipe EXCEPT ![c].out = Tail(out)]
      BY <1>2, <1>4, <1>6, <2>1
    <3> QED
      BY <1>1, <1>2, <2>1, <3>1
  <2>2. CASE producer[c] = "stderr"
    <3>1. Tail(err) \in Seq(Nat) /\ pipe' = [pipe EXCEPT ![c].err = Tail(err)]
      BY <1>2, <1>4, <1>6, <2>2
    <3> QED
      BY <1>1, <1>2, <2>2, <3>1
  <2> QED
    BY <1>4, <2>1, <2>2
<1>10. ErrorsInv'
  <2>1. ASSUME NEW d \in Container
        PROVE  Len(pipe'[d].out) <= PipeSize /\ Len(pipe'[d].err) <= PipeSize
    <3>1. CASE d = c
      <4>1. CASE producer[c] = "stdout"
        <5>1. Len(Tail(out)) <= Len(out) /\ Len(Tail(out)) \in Nat /\ Len(out) \in Nat
          BY <1>2, <1>4, <1>6, <4>1
        <5>2. pipe'[c].out = Tail(out) /\ pipe'[c].err = err
          BY <1>9, <4>1
        <5>3. Len(out) <= PipeSize /\ Len(err) <= PipeSize /\ PipeSize \in Nat
          BY <1>2, OrderType
        <5> HIDE DEF out, err
        <5> QED
          BY <3>1, <5>1, <5>2, <5>3
      <4>2. CASE producer[c] = "stderr"
        <5>1. Len(Tail(err)) <= Len(err) /\ Len(Tail(err)) \in Nat /\ Len(err) \in Nat
          BY <1>2, <1>4, <1>6, <4>2
        <5>2. pipe'[c].err = Tail(err) /\ pipe'[c].out = out
          BY <1>9, <4>2
        <5>3. Len(err) <= PipeSize /\ Len(out) <= PipeSize /\ PipeSize \in Nat
          BY <1>2, OrderType
        <5> HIDE DEF out, err
        <5> QED
          BY <3>1, <5>1, <5>2, <5>3
      <4> QED
        BY <1>9, <4>1, <4>2
    <3> QED
      BY <1>8, <3>1 DEF ErrorsInv, TypeOK
  <2>2. TypeOK'
    BY <1>1, <1>8, <1>9, <2>1 DEF ErrorsInv, TypeOK, errorVars
  <2> QED
    BY <1>1, <2>2, OutputKeepsErrors
<1>11. \A d \in Container : Started(d)' <=> Started(d)
  BY <1>1 DEF Started, errorVars
<1>12. ASSUME NEW d \in Container, d # c PROVE LogInv(d)'
  BY <1>1, <1>8, <1>11, <1>12, OthersStay DEF LogsInv
<1>13. LogInv(c)'
  <2>1. Kept(c) /\ PipesOrdered(c) /\ CopiedOrdered(c) /\ ReadSoFar(c)
    BY <1>1 DEF LogsInv, LogInv
  <2>2. Kept(c)'
    <3>1. Range(copied[c]) \cup Range(out) \cup Range(err) = 1 .. written[c]
      BY <2>1 DEF Kept
    <3>2. Range(copied'[c]) = Range(copied[c]) \cup {n}
      BY <1>7, <1>8
    <3>3. \/ Range(out) = Range(pipe'[c].out) \cup {n} /\ pipe'[c].err = err
          \/ Range(err) = Range(pipe'[c].err) \cup {n} /\ pipe'[c].out = out
      BY <1>2, <1>4, <1>6, <1>9
    <3> HIDE DEF out, err
    <3>4. Range(copied'[c]) \cup Range(pipe'[c].out) \cup Range(pipe'[c].err) = 1 .. written[c]
      BY <3>1, <3>2, <3>3
    <3> QED
      BY <1>1, <3>4 DEF Kept
  <2>3. CASE producer[c] = "stdout"
    <3>1. /\ n \in Range(out) /\ output[c][n] # "err" /\ output[c][n] # "long"
          /\ \A m \in Range(Tail(out)) : n < m
          /\ Increasing(Tail(out)) /\ Range(Tail(out)) \subseteq Range(out)
      BY <1>2, <1>4, <1>6, <2>1, <2>3 DEF PipesOrdered
    <3>2. \A m \in Range(copied[c]) : output[c][m] # "err" /\ m < n
      BY <2>1, <2>3, <3>1 DEF ReadSoFar, PipesOrdered
    <3>3. PipesOrdered(c)'
      BY <1>1, <1>7, <1>8, <1>9, <2>1, <2>3, <3>1 DEF PipesOrdered
    <3>4. CopiedOrdered(c)'
      <4>1. ASSUME NEW i \in DOMAIN copied'[c], NEW j \in DOMAIN copied'[c], i < j
            PROVE  Before(output[c], copied'[c][i], copied'[c][j])
        <5>1. /\ i \in DOMAIN copied[c] /\ copied'[c][i] = copied[c][i]
              /\ copied[c][i] \in Range(copied[c])
              /\ \/ copied'[c][j] = n
                 \/ j \in DOMAIN copied[c] /\ copied'[c][j] = copied[c][j]
          <6> PICK s \in Seq(Nat) : s = copied[c]
            BY <1>2
          <6>1. copied'[c] = Append(s, n)
            BY <1>8
          <6>2. i \in DOMAIN Append(s, n) /\ j \in DOMAIN Append(s, n)
            BY <6>1
          <6>3. n \in Nat
            BY <1>7
          <6> QED
            BY <4>1, <6>1, <6>2, <6>3, AppendPlaces
        <5>2. CASE copied'[c][j] = n
          BY <3>1, <3>2, <5>1, <5>2 DEF Before
        <5>3. CASE j \in DOMAIN copied[c] /\ copied'[c][j] = copied[c][j]
          BY <2>1, <4>1, <5>1, <5>3 DEF CopiedOrdered
        <5> QED
          BY <5>1, <5>2, <5>3
      <4>2. \A m \in Range(copied'[c]) : output[c][m] # "long"
        BY <1>7, <1>8, <2>1, <3>1 DEF CopiedOrdered
      <4> QED
        BY <1>1, <4>1, <4>2 DEF CopiedOrdered
    <3>5. ReadSoFar(c)'
      BY <1>1, <1>7, <1>8, <1>11, <2>1, <2>3, <3>1 DEF ReadSoFar
    <3> QED
      BY <2>2, <3>3, <3>4, <3>5 DEF LogInv
  <2>4. CASE producer[c] = "stderr"
    <3>1. /\ n \in Range(err) /\ output[c][n] = "err"
          /\ \A m \in Range(Tail(err)) : n < m
          /\ Increasing(Tail(err)) /\ Range(Tail(err)) \subseteq Range(err)
      BY <1>2, <1>4, <1>6, <2>1, <2>4 DEF PipesOrdered
    <3>2. \A m \in Range(copied[c]) : output[c][m] = "err" => m < n
      BY <2>1, <3>1 DEF PipesOrdered
    <3>3. PipesOrdered(c)'
      <4>1. pipe'[c].err = Tail(err) /\ pipe'[c].out = out
        BY <1>9, <2>4
      <4>2. Range(copied'[c]) = Range(copied[c]) \cup {n}
        BY <1>7, <1>8
      <4> QED
        BY <1>1, <2>1, <3>1, <4>1, <4>2 DEF PipesOrdered
    <3>4. CopiedOrdered(c)'
      <4>1. ASSUME NEW i \in DOMAIN copied'[c], NEW j \in DOMAIN copied'[c], i < j
            PROVE  Before(output[c], copied'[c][i], copied'[c][j])
        <5>1. /\ i \in DOMAIN copied[c] /\ copied'[c][i] = copied[c][i]
              /\ copied[c][i] \in Range(copied[c])
              /\ \/ copied'[c][j] = n
                 \/ j \in DOMAIN copied[c] /\ copied'[c][j] = copied[c][j]
          <6> PICK s \in Seq(Nat) : s = copied[c]
            BY <1>2
          <6>1. copied'[c] = Append(s, n)
            BY <1>8
          <6>2. i \in DOMAIN Append(s, n) /\ j \in DOMAIN Append(s, n)
            BY <6>1
          <6>3. n \in Nat
            BY <1>7
          <6> QED
            BY <4>1, <6>1, <6>2, <6>3, AppendPlaces
        <5>2. CASE copied'[c][j] = n
          BY <3>1, <3>2, <5>1, <5>2 DEF Before
        <5>3. CASE j \in DOMAIN copied[c] /\ copied'[c][j] = copied[c][j]
          BY <2>1, <4>1, <5>1, <5>3 DEF CopiedOrdered
        <5> QED
          BY <5>1, <5>2, <5>3
      <4>2. \A m \in Range(copied'[c]) : output[c][m] # "long"
        BY <1>7, <1>8, <2>1, <3>1 DEF CopiedOrdered
      <4> QED
        BY <1>1, <4>1, <4>2 DEF CopiedOrdered
    <3>5. ReadSoFar(c)'
      BY <1>1, <1>9, <1>11, <2>1, <2>4 DEF ReadSoFar, DockerDone
    <3> QED
      BY <2>2, <3>3, <3>4, <3>5 DEF LogInv
  <2> QED
    BY <1>4, <2>3, <2>4
<1>14. CopyingInv'
  BY <1>1, CopyingStays DEF LogsInv, errorVars
<1> QED
  BY <1>10, <1>12, <1>13, <1>14 DEF LogsInv

LEMMA NextFileKeeps ==
  ASSUME ErrorsInv, LogsInv, NextFile
  PROVE  ErrorsInv' /\ LogsInv'
<1>1. /\ UNCHANGED <<output, caller, pending, producer, written, pipe, errorVars, result, copied>>
      /\ copying \in Seq(Container) /\ copying # << >> /\ copying' = Tail(copying)
      /\ producer[Head(copying)] = "closed"
  BY DEF NextFile, ErrorsInv, TypeOK
<1>2. copying' \in Seq(Container) /\ Range(copying) = Range(copying') \cup {Head(copying)}
  BY <1>1, RangeOfTail
<1>3. ErrorsInv'
  <2>1. TypeOK'
    BY <1>1, <1>2 DEF ErrorsInv, TypeOK, errorVars
  <2> QED
    BY <1>1, <2>1, OutputKeepsErrors
<1>4. ASSUME NEW d \in Container PROVE LogInv(d)'
  <2>1. Started(d)' <=> Started(d)
    BY <1>1 DEF Started, errorVars
  <2> QED
    BY <1>1, <2>1, OthersStay DEF LogsInv
<1>5. CopyingInv'
  BY <1>1, <1>2 DEF LogsInv, CopyingInv, errorVars
<1> QED
  BY <1>3, <1>4, <1>5 DEF LogsInv

LEMMA LogsStay ==
  ASSUME ErrorsInv, LogsInv, UNCHANGED vars
  PROVE  ErrorsInv' /\ LogsInv'
<1> USE DEF vars, errorVars
<1>1. ErrorsInv'
  <2>1. TypeOK'
    BY DEF ErrorsInv, TypeOK
  <2> QED
    BY <2>1, OutputKeepsErrors
<1>2. ASSUME NEW d \in Container PROVE LogInv(d)'
  <2>1. Started(d)' <=> Started(d)
    BY DEF Started
  <2> QED
    BY <2>1, OthersStay DEF LogsInv
<1>3. CopyingInv'
  BY DEF LogsInv, CopyingInv
<1> QED
  BY <1>1, <1>2, <1>3 DEF LogsInv

LEMMA LogsStep == ErrorsInv /\ LogsInv /\ [Next]_vars => (ErrorsInv /\ LogsInv)'
<1> SUFFICES ASSUME ErrorsInv, LogsInv, [Next]_vars PROVE (ErrorsInv /\ LogsInv)'
  OBVIOUS
<1>1. CASE StartProducer \/ StartReader \/ Return
  BY <1>1, StartProducerKeeps, StartReaderKeeps, ReturnKeeps, CallerKeepsLogs
<1>2. ASSUME NEW c \in Container, ExecCommand(c) PROVE (ErrorsInv /\ LogsInv)'
  BY <1>2, ExecCommandKeeps, ExecCommandKeepsLogs
<1>3. ASSUME NEW c \in Container, SendError(c) PROVE (ErrorsInv /\ LogsInv)'
  BY <1>3, SendErrorKeeps, ErrorsKeepLogs
<1>4. CASE StoreError \/ ReaderDone
  BY <1>4, StoreErrorKeeps, ReaderDoneKeeps, ErrorsKeepLogs
<1>5. ASSUME NEW c \in Container, DockerWrites(c) PROVE (ErrorsInv /\ LogsInv)'
  BY <1>5, DockerWritesKeeps
<1>6. ASSUME NEW c \in Container, NextPipe(c) \/ CloseStream(c) PROVE (ErrorsInv /\ LogsInv)'
  BY <1>6, ProducerKeeps
<1>7. CASE CopyLine
  BY <1>7, CopyLineKeeps
<1>8. CASE NextFile
  BY <1>8, NextFileKeeps
<1>9. CASE Finished \/ UNCHANGED vars
  BY <1>9, LogsStay DEF Finished
<1> QED
  BY <1>1, <1>2, <1>3, <1>4, <1>5, <1>6, <1>7, <1>8, <1>9 DEF Next

LEMMA LogsInvariant == Spec => [](ErrorsInv /\ LogsInv)
<1>1. Init => ErrorsInv /\ LogsInv
  BY ErrorsInitially, LogsInitially
<1>2. ErrorsInv /\ LogsInv /\ [Next]_vars => (ErrorsInv /\ LogsInv)'
  BY LogsStep
<1> QED
  BY <1>1, <1>2, PTL DEF Spec

-----------------------------------------------------------------------------
(* What follows *)

\* initStreamsForFileCopy returns with the error of every goroutine in the slice,
\* each once, and nobody left who would send to the stream it has closed.
THEOREM ErrorsAreAccounted == Spec => []ErrorsAccounted
<1>1. ASSUME ErrorsInv PROVE AllErrorsCollected
  <2> SUFFICES ASSUME caller = "returned"
               PROVE  /\ \A c \in Container : producer[c] # "exec"
                      /\ Failed = Range(errors)
                      /\ \A i, j \in DOMAIN errors : i # j => errors[i] # errors[j]
    BY DEF AllErrorsCollected
  <2>1. /\ \A c \in Container : producer[c] \notin {"off", "exec", "error"}
        /\ reader.container = NoContainer
    BY <1>1, NobodyAwaited
  <2> QED
    BY <1>1, <2>1 DEF Failed, ErrorsInv, ErrorsStored
<1>2. ASSUME ErrorsInv PROVE NoSendAfterClose
  BY <1>2, NobodyAwaited DEF NoSendAfterClose, ErrorsInv, ClosedOnReturn
<1>3. ErrorsInv => ErrorsAccounted
  BY <1>1, <1>2 DEF ErrorsAccounted, ErrorsInv
<1> QED
  BY <1>3, LogsInvariant, PTL

\* Of a log whose stream has ended the archive has all that can be read of it, in
\* its order and each line once, at whatever pace docker, the producers and the
\* collector run.
THEOREM LogsAreComplete == Spec => []LogsComplete
<1>1. ASSUME ErrorsInv, LogsInv PROVE LogsComplete
  <2> SUFFICES ASSUME result = "files", NEW c \in Container, c \notin Range(copying)
               PROVE  Range(copied[c]) = Readable(output[c])
    BY <1>1 DEF LogsComplete, LogsInv, LogInv, CopiedOrdered
  <2>1. producer[c] = "closed" /\ caller = "returned" /\ errors = << >>
    BY <1>1 DEF LogsInv, CopyingInv
  <2>2. reader.container = NoContainer
    BY <1>1, <2>1, NobodyAwaited
  <2>3. Started(c)
    <3>1. Range(errors) = {}
      BY <1>1, <2>1, RangeIn DEF ErrorsInv, TypeOK
    <3> QED
      BY <2>1, <2>2, <3>1, OrderType DEF Started
  <2>4. /\ Kept(c) /\ PipesOrdered(c) /\ CopiedOrdered(c) /\ ReadSoFar(c)
        /\ output[c] \in Seq({"out", "err", "long"})
        /\ pipe[c].out \in Seq(Nat) /\ pipe[c].err \in Seq(Nat) /\ copied[c] \in Seq(Nat)
        /\ written[c] \in Nat /\ written[c] <= Len(output[c])
    BY <1>1, StateTypes DEF LogsInv, LogInv, ErrorsInv
  <2>5. DOMAIN output[c] = 1 .. Len(output[c]) /\ Len(output[c]) \in Nat
    BY <2>4
  <2>6. CASE pipe[c].out = << >> /\ pipe[c].err = << >> /\ DockerDone(c)
    <3>1. Range(pipe[c].out) = {} /\ Range(pipe[c].err) = {}
      BY <2>6 DEF Range
    <3>2. Range(copied[c]) = 1 .. Len(output[c])
      BY <2>4, <2>6, <3>1 DEF Kept, DockerDone
    <3>3. \A m \in DOMAIN output[c] : output[c][m] # "long"
      BY <2>4, <2>5, <3>2 DEF CopiedOrdered
    <3> QED
      BY <2>5, <3>2, <3>3 DEF Readable
  <2>7. CASE /\ pipe[c].out # << >> /\ output[c][Head(pipe[c].out)] = "long"
             /\ \A n \in Range(copied[c]) : output[c][n] # "err"
    <3> DEFINE long == Head(pipe[c].out)
    <3>1. /\ long \in Range(pipe[c].out) /\ \A m \in Range(pipe[c].out) : m = long \/ long < m
      BY <2>4, <2>7, RangeOfTail, TailIncreasing DEF PipesOrdered
    <3>2. \A n \in Range(copied[c]) : n < long
      BY <2>4, <2>7, <3>1 DEF PipesOrdered
    <3>3. 1 .. written[c] \subseteq DOMAIN output[c]
      BY <2>4, <2>5
    <3>4. Range(copied[c]) \subseteq 1 .. written[c] /\ long \in 1 .. written[c]
      BY <2>4, <3>1 DEF Kept
    <3>5. \A n \in 1 .. written[c] : n < long /\ output[c][n] # "err" => n \in Range(copied[c])
      <4> SUFFICES ASSUME NEW n \in 1 .. written[c], n < long, output[c][n] # "err"
                   PROVE  n \in Range(copied[c])
        OBVIOUS
      <4>1. n \notin Range(pipe[c].err)
        BY <2>4 DEF PipesOrdered
      <4>2. n \notin Range(pipe[c].out)
        <5>1. long \in Nat /\ n \in Nat
          BY <2>4, <3>4
        <5> QED
          BY <3>1, <5>1
      <4> QED
        BY <2>4, <4>1, <4>2 DEF Kept
    <3>6. ASSUME NEW n \in Range(copied[c]) PROVE n \in Readable(output[c])
      <4>1. n \in DOMAIN output[c] /\ output[c][n] # "err" /\ n < long /\ long \in Nat /\ n \in Nat
        BY <2>4, <2>7, <3>2, <3>3, <3>4
      <4>2. ASSUME NEW m \in DOMAIN output[c], output[c][m] = "long" PROVE n < m
        <5>1. m \notin Range(copied[c])
          BY <2>4, <4>2 DEF CopiedOrdered
        <5>2. m < long => FALSE
          <6>1. ASSUME m < long PROVE m \in 1 .. written[c]
            BY <2>4, <2>5, <3>4, <6>1
          <6> QED
            BY <3>5, <4>2, <5>1, <6>1
        <5>3. m \in Nat
          BY <2>5
        <5> QED
          BY <4>1, <5>2, <5>3
      <4> QED
        BY <4>1, <4>2 DEF Readable
    <3>7. ASSUME NEW n \in Readable(output[c]) PROVE n \in Range(copied[c])
      <4>1. n \in DOMAIN output[c] /\ output[c][n] # "err" /\ n < long
        BY <2>7, <3>3, <3>4 DEF Readable
      <4>2. n \in 1 .. written[c]
        BY <2>4, <2>5, <3>4, <4>1
      <4> QED
        BY <3>5, <4>1, <4>2
    <3> QED
      BY <3>6, <3>7
  <2> QED
    BY <2>1, <2>3, <2>4, <2>6, <2>7 DEF ReadSoFar
<1>2. ErrorsInv /\ LogsInv => LogsComplete
  BY <1>1
<1> QED
  BY <1>2, LogsInvariant, PTL

=============================================================================
