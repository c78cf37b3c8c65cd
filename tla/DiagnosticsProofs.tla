------------------------- MODULE DiagnosticsProofs -------------------------
(***************************************************************************)
(* The safety of the registrar, for every registry, every dependency graph *)
(* (cyclic ones included) and every request, and of a run, for every       *)
(* outcome of the tasks, every interleaving of the goroutines and every    *)
(* failure of the disk: first its control and its results, then what it    *)
(* leaves in the archive.                                                  *)
(***************************************************************************)
EXTENDS Diagnostics, SequenceTheorems, TLAPS

----------------------------------------------------------------------------
(***************************************************************************)
(* The registrar (TaskQueue).                                              *)
(***************************************************************************)

\* The tasks the worker has received.
Received == {delivered[i] : i \in DOMAIN delivered}

\* What the call in a frame is responsible for having queued when it returns.
Needs(f) == IF f.task = NoTask THEN Selected(request) ELSE DependenciesOf(f.task)

\* What it has still to look at.
Pending(f) == f.todo \cup NamedBy(f.refs)

\* The task its callee, if it has one, is adding.
Callee(i) == IF i < Len(stack) THEN {stack[i + 1].task} ELSE {}

\* Only the first call is the entry point of the request.
EntryFirst == \A i \in 1 .. Len(stack) : stack[i].task = NoTask <=> i = 1

\* What a call needs is queued, still to be looked at, or being added.
NothingForgotten ==
  \A i \in 1 .. Len(stack) :
    Needs(stack[i]) \subseteq queued \cup Pending(stack[i]) \cup Callee(i)

\* What a call has still to look at, and what it is adding, it needs.
NothingInvented ==
  \A i \in 1 .. Len(stack) :
    Pending(stack[i]) \cup Callee(i) \subseteq Needs(stack[i])

\* What is queued was asked for, or is needed by a task queued or being added.
QueuedForAReason ==
  \A t \in queued :
    \/ t \in Selected(request)
    \/ \E u \in queued : t \in DependenciesOf(u)
    \/ \E i \in 1 .. Len(stack) : t \in Needs(stack[i])

\* The task being sent is the one task queued and not received.
SendingIsTop ==
  /\ queued = Received \cup ({sending} \ {NoTask})
  /\ sending # NoTask =>
       /\ stack # << >>
       /\ Top.task = sending
       /\ Pending(Top) = {}
       /\ sending \notin Received
       /\ DependenciesOf(sending) \subseteq Received

\* The queue is closed when the entry point has returned.
ClosedAtTheEnd ==
  /\ closed <=> stack = << >>
  /\ closed => Selected(request) \subseteq queued

QueueInv ==
  /\ QueueTypeOK
  /\ EntryFirst
  /\ NothingForgotten
  /\ NothingInvented
  /\ QueuedForAReason
  /\ SendingIsTop
  /\ ClosedAtTheEnd
  /\ DependenciesFirst
  /\ DeliveredOnce

----------------------------------------------------------------------------
(***************************************************************************)
(* Names and stacks.                                                       *)
(***************************************************************************)

\* A name stands for registered tasks.
LEMMA TasksForType ==
  ASSUME NEW r \in Ref
  PROVE  TasksForIdentifierString(r) \subseteq Task
BY RegistryAssumption DEF TasksForIdentifierString

\* So does a sequence of names.
LEMMA NamedByType ==
  ASSUME NEW refs \in Seq(Ref)
  PROVE  NamedBy(refs) \subseteq Task
BY TasksForType DEF NamedBy

\* No name, no task.
LEMMA NamedByEmpty == NamedBy(<< >>) = {}
BY DEF NamedBy

\* Looking at the first name of a sequence splits what the sequence names.
LEMMA NamedByHead ==
  ASSUME NEW refs \in Seq(Ref), refs # << >>
  PROVE  NamedBy(refs) = TasksForIdentifierString(Head(refs)) \cup NamedBy(Tail(refs))
<1> DEFINE T(r) == TasksForIdentifierString(r)
<1>1. NamedBy(refs) \subseteq T(Head(refs)) \cup NamedBy(Tail(refs))
  <2> SUFFICES ASSUME NEW i \in DOMAIN refs, NEW t \in T(refs[i])
               PROVE  t \in T(Head(refs)) \cup NamedBy(Tail(refs))
    BY DEF NamedBy
  <2>1. CASE i = 1
    BY <2>1
  <2>2. CASE i # 1
    <3>1. i - 1 \in DOMAIN Tail(refs) /\ Tail(refs)[i - 1] = refs[i]
      BY <2>2
    <3> QED
      BY <3>1 DEF NamedBy
  <2> QED
    BY <2>1, <2>2
<1>2. T(Head(refs)) \subseteq NamedBy(refs)
  <2>1. 1 \in DOMAIN refs /\ Head(refs) = refs[1]
    OBVIOUS
  <2> QED
    BY <2>1 DEF NamedBy
<1>3. NamedBy(Tail(refs)) \subseteq NamedBy(refs)
  <2> SUFFICES ASSUME NEW i \in DOMAIN Tail(refs), NEW t \in T(Tail(refs)[i])
               PROVE  t \in NamedBy(refs)
    BY DEF NamedBy
  <2>1. i + 1 \in DOMAIN refs /\ Tail(refs)[i] = refs[i + 1]
    OBVIOUS
  <2> QED
    BY <2>1 DEF NamedBy
<1> QED
  BY <1>1, <1>2, <1>3

\* Returning from a call leaves the calls below it.
LEMMA PopStack ==
  ASSUME stack \in Seq(Frame), stack # << >>
  PROVE  /\ Pop \in Seq(Frame)
         /\ Len(Pop) = Len(stack) - 1
         /\ \A i \in 1 .. Len(Pop) : Pop[i] = stack[i]
         /\ Top \in Frame
         /\ Len(stack) \in Nat \ {0}
<1>1. Len(stack) \in Nat \ {0}
  BY EmptySeq
<1>2. \A i \in 1 .. Len(stack) : stack[i] \in Frame
  BY ElementOfSeq
<1>3. /\ Pop \in Seq(Frame)
      /\ Len(Pop) = Len(stack) - 1
      /\ \A i \in 1 .. Len(Pop) : Pop[i] = stack[i]
  BY <1>1, <1>2, SubSeqProperties DEF Pop
<1> QED
  BY <1>1, <1>2, <1>3 DEF Top

\* Changing the running call leaves the others.
LEMMA ReplaceTop ==
  ASSUME stack \in Seq(Frame), stack # << >>, NEW f \in Frame
  PROVE  LET s == Append(Pop, f) IN
         /\ s \in Seq(Frame)
         /\ Len(s) = Len(stack)
         /\ \A i \in 1 .. Len(stack) - 1 : s[i] = stack[i]
         /\ s[Len(stack)] = f
BY PopStack

\* Calling leaves the calls below the caller.
LEMMA PushCall ==
  ASSUME stack \in Seq(Frame), stack # << >>, NEW f \in Frame, NEW g \in Frame
  PROVE  LET s == Append(Append(Pop, f), g) IN
         /\ s \in Seq(Frame)
         /\ Len(s) = Len(stack) + 1
         /\ \A i \in 1 .. Len(stack) - 1 : s[i] = stack[i]
         /\ s[Len(stack)] = f
         /\ s[Len(stack) + 1] = g
<1> DEFINE r == Append(Pop, f)
<1>1. /\ r \in Seq(Frame)
      /\ Len(r) = Len(stack)
      /\ \A i \in 1 .. Len(stack) - 1 : r[i] = stack[i]
      /\ r[Len(stack)] = f
      /\ Len(stack) \in Nat \ {0}
  BY ReplaceTop, PopStack
<1> HIDE DEF r
<1>2. LET s == Append(r, g) IN
      /\ s \in Seq(Frame)
      /\ Len(s) = Len(stack) + 1
      /\ \A i \in 1 .. Len(stack) - 1 : s[i] = stack[i]
      /\ s[Len(stack)] = f
      /\ s[Len(stack) + 1] = g
  BY <1>1
<1> QED
  BY <1>2 DEF r

\* The selected tasks and the dependencies of a task are registered tasks.
LEMMA NeedsType ==
  /\ \A req \in Requests : Selected(req) \subseteq Task
  /\ \A t \in Task : DependenciesOf(t) \subseteq Task
BY NamedByType, RegistryAssumption DEF Selected, DependenciesOf

----------------------------------------------------------------------------
(***************************************************************************)
(* Type correctness.                                                       *)
(***************************************************************************)

\* The initial state is well typed.
LEMMA InitTypeOK == QueueInit => QueueTypeOK
<1> SUFFICES ASSUME QueueInit PROVE QueueTypeOK
  OBVIOUS
<1>1. [task |-> NoTask, refs |-> request.refs,
       todo |-> IF request.all THEN DefaultTasks ELSE {}] \in Frame
  BY RegistryAssumption DEF QueueInit, Frame
<1>2. stack \in Seq(Frame) /\ delivered \in Seq(Task)
  BY <1>1 DEF QueueInit
<1> QED
  BY <1>2 DEF QueueInit, QueueTypeOK

\* Every step keeps the types.
LEMMA NextTypeOK == QueueTypeOK /\ [QueueNext]_queueVars => QueueTypeOK'
<1> SUFFICES ASSUME QueueTypeOK, [QueueNext]_queueVars
             PROVE  QueueTypeOK'
  OBVIOUS
<1> USE DEF QueueTypeOK
<1>1. CASE AddTask
  <2> USE <1>1 DEF AddTask, Running
  <2>1. PICK t \in Top.todo :
          stack' = Append(Append(Pop, [Top EXCEPT !.todo = @ \ {t}]),
                          [task |-> t, refs |-> Dependencies[t], todo |-> {}])
    OBVIOUS
  <2>2. Top \in Frame /\ Pop \in Seq(Frame)
    BY PopStack
  <2>3. t \in Task
    BY <2>2 DEF Frame
  <2>4. [Top EXCEPT !.todo = @ \ {t}] \in Frame
    BY <2>2 DEF Frame
  <2>5. [task |-> t, refs |-> Dependencies[t], todo |-> {}] \in Frame
    BY <2>3, RegistryAssumption DEF Frame
  <2>6. stack' \in Seq(Frame)
    BY <2>1, <2>4, <2>5, PushCall
  <2> QED
    BY <2>6
<1>2. CASE AddTasksByIdentifier
  <2> USE <1>2 DEF AddTasksByIdentifier, Running
  <2>1. Top \in Frame
    BY PopStack
  <2>2. Head(Top.refs) \in Ref /\ Tail(Top.refs) \in Seq(Ref)
    BY <2>1 DEF Frame
  <2>3. [Top EXCEPT !.refs = Tail(@), !.todo = TasksForIdentifierString(Head(Top.refs))] \in Frame
    BY <2>1, <2>2, TasksForType DEF Frame
  <2> QED
    BY <2>3, ReplaceTop
<1>3. CASE Enqueue
  BY <1>3 DEF Enqueue
<1>4. CASE AlreadyQueued
  BY <1>4, PopStack DEF AlreadyQueued, CallDone, Running
<1>5. CASE Deliver
  <2>1. CASE stack # << >>
    BY <1>5, <2>1, PopStack DEF Deliver
  <2>2. CASE stack = << >>
    <3>1. Pop = << >>
      BY <2>2, SubSeqEmpty DEF Pop
    <3> QED
      BY <1>5, <3>1, EmptySeq DEF Deliver
  <2> QED
    BY <2>1, <2>2
<1>6. CASE CompleteTaskRegistration
  BY <1>6, PopStack DEF CompleteTaskRegistration, CallDone, Running
<1>7. CASE QueueDone \/ UNCHANGED queueVars
  BY <1>7 DEF QueueDone, queueVars
<1> QED
  BY <1>1, <1>2, <1>3, <1>4, <1>5, <1>6, <1>7 DEF QueueNext, RegistrarStep

\* The variables of the registrar keep their types in every run.
THEOREM QueueTypeCorrect == QueueSpec => []QueueTypeOK
BY InitTypeOK, NextTypeOK, PTL DEF QueueSpec

----------------------------------------------------------------------------
(***************************************************************************)
(* The inductive invariant.                                                *)
(***************************************************************************)

\* Nothing is queued at first, and everything asked for is to be looked at.
LEMMA InitInv == QueueInit => QueueInv
<1> SUFFICES ASSUME QueueInit PROVE QueueInv
  OBVIOUS
<1>1. QueueTypeOK
  BY InitTypeOK
<1>2. /\ Len(stack) = 1
      /\ stack[1] = [task |-> NoTask, refs |-> request.refs,
                     todo |-> IF request.all THEN DefaultTasks ELSE {}]
      /\ stack # << >>
      /\ queued = {} /\ sending = NoTask /\ delivered = << >> /\ ~closed
  BY DEF QueueInit
<1>3. Needs(stack[1]) = Pending(stack[1]) /\ Callee(1) = {} /\ stack[1].task = NoTask
  BY <1>2 DEF Needs, Pending, Callee, Selected
<1>4. \A i \in 1 .. Len(stack) : i = 1
  BY <1>2
<1>5. EntryFirst /\ NothingForgotten /\ NothingInvented
  BY <1>3, <1>4 DEF EntryFirst, NothingForgotten, NothingInvented
<1>6. Received = {}
  BY <1>2 DEF Received
<1>7. QueuedForAReason /\ SendingIsTop /\ ClosedAtTheEnd
  BY <1>2, <1>6 DEF QueuedForAReason, SendingIsTop, ClosedAtTheEnd
<1>8. DependenciesFirst /\ DeliveredOnce
  BY <1>2 DEF DependenciesFirst, DeliveredOnce
<1> QED
  BY <1>1, <1>5, <1>7, <1>8 DEF QueueInv

\* AddTask calls AddTaskToQueue on a task the caller still had to add.
LEMMA AddTaskInv == QueueInv /\ QueueTypeOK' /\ AddTask => QueueInv'
<1> SUFFICES ASSUME QueueInv, QueueTypeOK', AddTask
             PROVE  QueueInv'
  OBVIOUS
<1> USE DEF QueueInv
<1>0. PICK n \in Nat : n = Len(stack)
  BY LenProperties DEF QueueTypeOK
<1>1. PICK t \in Top.todo :
        stack' = Append(Append(Pop, [Top EXCEPT !.todo = @ \ {t}]),
                        [task |-> t, refs |-> Dependencies[t], todo |-> {}])
  BY DEF AddTask
<1>2. UNCHANGED <<request, queued, sending, delivered, closed>>
  BY DEF AddTask
<1>3. stack # << >> /\ ~closed /\ sending = NoTask /\ stack \in Seq(Frame)
  BY DEF AddTask, Running, QueueTypeOK
<1>4. Top \in Frame /\ n \in Nat \ {0} /\ Top = stack[n] /\ n = Len(stack)
  BY <1>0, <1>3, PopStack DEF Top
<1>5. t \in Task
  BY <1>4 DEF Frame
<1> DEFINE f == [Top EXCEPT !.todo = @ \ {t}]
           g == [task |-> t, refs |-> Dependencies[t], todo |-> {}]
<1>6. /\ f \in Frame /\ g \in Frame
      /\ stack' = Append(Append(Pop, f), g)
  BY <1>1, <1>4, <1>5, RegistryAssumption DEF Frame
<1>8. /\ f.task = Top.task /\ f.refs = Top.refs /\ f.todo = Top.todo \ {t}
      /\ g.task = t /\ g.refs = Dependencies[t] /\ g.todo = {}
  BY <1>4 DEF Frame
<1> HIDE DEF f, g
<1>7. /\ Len(stack') = n + 1
      /\ \A i \in 1 .. n - 1 : stack'[i] = stack[i]
      /\ stack'[n] = f
      /\ stack'[n + 1] = g
  BY <1>3, <1>4, <1>6, PushCall
<1>9. t # NoTask
  BY <1>5, NoTaskAssumption
<1>10. EntryFirst'
  BY <1>4, <1>7, <1>8, <1>9 DEF EntryFirst
<1>11. \A h : Needs(h)' = Needs(h) /\ Pending(h)' = Pending(h)
  BY <1>2 DEF Needs, Pending
<1>12. /\ Needs(f) = Needs(Top)
       /\ Pending(f) \subseteq Pending(Top) /\ Pending(Top) \subseteq Pending(f) \cup {t}
       /\ Needs(g) = DependenciesOf(t) /\ Pending(g) = DependenciesOf(t)
  BY <1>8, <1>9 DEF Needs, Pending, DependenciesOf
<1>13. /\ \A i \in 1 .. n - 1 : Callee(i)' = Callee(i)
       /\ Callee(n) = {} /\ Callee(n)' = {t} /\ Callee(n + 1)' = {}
  <2>1. \A i \in 1 .. n - 1 : stack'[i + 1].task = stack[i + 1].task
    BY <1>4, <1>7, <1>8
  <2>2. \A i \in 1 .. n - 1 : i < Len(stack) /\ i < Len(stack')
    BY <1>4, <1>7
  <2>3. \A i \in 1 .. n - 1 : Callee(i)' = Callee(i)
    BY <2>1, <2>2 DEF Callee
  <2>4. Callee(n)' = {t}
    BY <1>4, <1>7, <1>8 DEF Callee
  <2>5. Callee(n) = {} /\ Callee(n + 1)' = {}
    BY <1>4, <1>7 DEF Callee
  <2> QED
    BY <2>3, <2>4, <2>5
<1>14. NothingForgotten'
  <2> SUFFICES ASSUME NEW i \in 1 .. Len(stack')
               PROVE  Needs(stack'[i]) \subseteq queued \cup Pending(stack'[i]) \cup Callee(i)'
    BY <1>2, <1>11 DEF NothingForgotten
  <2>1. CASE i \in 1 .. n - 1
    BY <2>1, <1>4, <1>7, <1>13 DEF NothingForgotten
  <2>2. CASE i = n
    BY <2>2, <1>4, <1>7, <1>12, <1>13 DEF NothingForgotten
  <2>3. CASE i = n + 1
    BY <2>3, <1>7, <1>12
  <2> QED
    BY <2>1, <2>2, <2>3, <1>4, <1>7
<1>15. NothingInvented'
  <2> SUFFICES ASSUME NEW i \in 1 .. Len(stack')
               PROVE  Pending(stack'[i]) \cup Callee(i)' \subseteq Needs(stack'[i])
    BY <1>2, <1>11 DEF NothingInvented
  <2>1. CASE i \in 1 .. n - 1
    BY <2>1, <1>4, <1>7, <1>13 DEF NothingInvented
  <2>2. CASE i = n
    <3>1. Pending(Top) \subseteq Needs(Top)
      BY <1>4 DEF NothingInvented
    <3>2. t \in Pending(Top)
      BY DEF Pending
    <3> QED
      BY <2>2, <3>1, <3>2, <1>7, <1>12, <1>13
  <2>3. CASE i = n + 1
    BY <2>3, <1>7, <1>12, <1>13
  <2> QED
    BY <2>1, <2>2, <2>3, <1>4, <1>7
<1>16. QueuedForAReason'
  <2> SUFFICES ASSUME NEW q \in queued, NEW i \in 1 .. n, q \in Needs(stack[i])
               PROVE  \E j \in 1 .. Len(stack') : q \in Needs(stack'[j])
    BY <1>2, <1>4, <1>11 DEF QueuedForAReason
  <2>1. Needs(stack'[i]) = Needs(stack[i])
    BY <1>4, <1>7, <1>12
  <2> QED
    BY <2>1, <1>4, <1>7
<1>17. SendingIsTop' /\ ClosedAtTheEnd' /\ DependenciesFirst' /\ DeliveredOnce'
  <2>1. stack' # << >>
    BY <1>4, <1>7
  <2> QED
    BY <1>2, <1>3, <2>1
       DEF SendingIsTop, ClosedAtTheEnd, DependenciesFirst, DeliveredOnce, Received
<1> QED
  BY <1>10, <1>14, <1>15, <1>16, <1>17

\* AddTasksByIdentifier splits what the running call has still to look at.
LEMMA AddTasksByIdentifierInv ==
  QueueInv /\ QueueTypeOK' /\ AddTasksByIdentifier => QueueInv'
<1> SUFFICES ASSUME QueueInv, QueueTypeOK', AddTasksByIdentifier
             PROVE  QueueInv'
  OBVIOUS
<1> USE DEF QueueInv
<1>1. PICK n \in Nat : n = Len(stack)
  BY LenProperties DEF QueueTypeOK
<1>2. /\ stack # << >> /\ ~closed /\ sending = NoTask /\ stack \in Seq(Frame)
      /\ Top.todo = {} /\ Top.refs # << >>
      /\ UNCHANGED <<request, queued, sending, delivered, closed>>
  BY DEF AddTasksByIdentifier, Running, QueueTypeOK
<1>3. Top \in Frame /\ n \in Nat \ {0} /\ Top = stack[n]
  BY <1>1, <1>2, PopStack DEF Top
<1>4. Head(Top.refs) \in Ref /\ Tail(Top.refs) \in Seq(Ref) /\ Top.refs \in Seq(Ref)
  BY <1>2, <1>3 DEF Frame
<1> DEFINE f == [Top EXCEPT !.refs = Tail(@),
                            !.todo = TasksForIdentifierString(Head(Top.refs))]
<1>5. /\ f \in Frame
      /\ stack' = Append(Pop, f)
      /\ f.task = Top.task /\ f.refs = Tail(Top.refs)
      /\ f.todo = TasksForIdentifierString(Head(Top.refs))
  BY <1>3, <1>4, TasksForType DEF Frame, AddTasksByIdentifier
<1> HIDE DEF f
<1>6. /\ Len(stack') = n
      /\ \A i \in 1 .. n - 1 : stack'[i] = stack[i]
      /\ stack'[n] = f
  BY <1>1, <1>2, <1>5, ReplaceTop
<1>7. \A h : Needs(h)' = Needs(h) /\ Pending(h)' = Pending(h)
  BY <1>2 DEF Needs, Pending
<1>8. Needs(f) = Needs(Top) /\ Pending(f) = Pending(Top)
  BY <1>2, <1>4, <1>5, NamedByHead DEF Needs, Pending
<1>9. \A i \in 1 .. n : /\ stack'[i].task = stack[i].task
                        /\ Needs(stack'[i]) = Needs(stack[i])
                        /\ Pending(stack'[i]) = Pending(stack[i])
  BY <1>3, <1>5, <1>6, <1>8
<1>10. \A i \in 1 .. n : Callee(i)' = Callee(i)
  <2> SUFFICES ASSUME NEW i \in 1 .. n PROVE Callee(i)' = Callee(i)
    OBVIOUS
  <2>1. i < n => stack'[i + 1].task = stack[i + 1].task
    BY <1>9
  <2> QED
    BY <2>1, <1>1, <1>6 DEF Callee
<1>11. EntryFirst'
  BY <1>1, <1>6, <1>9 DEF EntryFirst
<1>12. NothingForgotten'
  BY <1>1, <1>2, <1>6, <1>7, <1>9, <1>10 DEF NothingForgotten
<1>13. NothingInvented'
  BY <1>1, <1>6, <1>7, <1>9, <1>10 DEF NothingInvented
<1>14. QueuedForAReason'
  BY <1>1, <1>2, <1>6, <1>7, <1>9 DEF QueuedForAReason
<1>15. SendingIsTop' /\ ClosedAtTheEnd' /\ DependenciesFirst' /\ DeliveredOnce'
  <2>1. stack' # << >>
    BY <1>3, <1>6
  <2> QED
    BY <1>2, <2>1
       DEF SendingIsTop, ClosedAtTheEnd, DependenciesFirst, DeliveredOnce, Received
<1> QED
  BY <1>11, <1>12, <1>13, <1>14, <1>15

\* Enqueue: every dependency of the task has been received by then.
LEMMA EnqueueInv == QueueInv /\ QueueTypeOK' /\ Enqueue => QueueInv'
<1> SUFFICES ASSUME QueueInv, QueueTypeOK', Enqueue
             PROVE  QueueInv'
  OBVIOUS
<1> USE DEF QueueInv
<1>1. PICK n \in Nat : n = Len(stack)
  BY LenProperties DEF QueueTypeOK
<1>2. /\ stack # << >> /\ ~closed /\ sending = NoTask /\ stack \in Seq(Frame)
      /\ Top.todo = {} /\ Top.refs = << >>
      /\ Top.task \in Task \ queued
      /\ queued' = queued \cup {Top.task}
      /\ sending' = Top.task
      /\ UNCHANGED <<request, stack, delivered, closed>>
  BY DEF Enqueue, CallDone, Running, QueueTypeOK
<1>3. Top \in Frame /\ n \in Nat \ {0} /\ Top = stack[n] /\ Top' = Top
  BY <1>1, <1>2, PopStack DEF Top
<1>4. Top.task # NoTask /\ n # 1
  BY <1>1, <1>2, <1>3, NoTaskAssumption DEF EntryFirst
<1>5. Pending(Top) = {}
  BY <1>2, NamedByEmpty DEF Pending
<1>6. /\ \A h : Needs(h)' = Needs(h) /\ Pending(h)' = Pending(h)
      /\ \A i \in 1 .. n : Callee(i)' = Callee(i)
      /\ Received' = Received
  BY <1>2 DEF Needs, Pending, Callee, Received
<1>7. Needs(Top) = DependenciesOf(Top.task)
  BY <1>4 DEF Needs
<1>8. queued = Received
  BY <1>2 DEF SendingIsTop
<1>9. DependenciesOf(Top.task) \subseteq Received
  <2>1. Callee(n) = {}
    BY <1>1 DEF Callee
  <2> QED
    BY <1>1, <1>3, <1>5, <1>7, <1>8, <2>1 DEF NothingForgotten
<1>10. SendingIsTop'
  <2>1. /\ Pending(Top)' = {}
        /\ stack' # << >> /\ Top'.task = sending'
        /\ sending' \notin Received' /\ sending' # NoTask
        /\ queued' = Received' \cup ({sending'} \ {NoTask})
    BY <1>2, <1>3, <1>4, <1>5, <1>6, <1>8 DEF Pending
  <2>2. DependenciesOf(sending') \subseteq Received'
    BY <1>2, <1>6, <1>9
  <2> QED
    BY <2>1, <2>2 DEF SendingIsTop, DependenciesOf
<1>11. EntryFirst' /\ NothingForgotten' /\ NothingInvented'
  <2>1. EntryFirst' BY <1>1, <1>2 DEF EntryFirst
  <2>2. NothingForgotten' BY <1>1, <1>2, <1>6 DEF NothingForgotten
  <2>3. NothingInvented' BY <1>1, <1>2, <1>6 DEF NothingInvented
  <2> QED BY <2>1, <2>2, <2>3
<1>12. QueuedForAReason'
  <2>1. Top.task \in Needs(stack[n - 1])
    <3>1. n - 1 \in 1 .. Len(stack) /\ Callee(n - 1) = {Top.task}
      BY <1>1, <1>3, <1>4 DEF Callee
    <3> QED
      BY <3>1 DEF NothingInvented
  <2>2. n - 1 \in 1 .. Len(stack)
    BY <1>1, <1>3, <1>4
  <2> QED
    BY <1>2, <1>6, <2>1, <2>2 DEF QueuedForAReason
<1>13. ClosedAtTheEnd' /\ DependenciesFirst' /\ DeliveredOnce'
  BY <1>2 DEF ClosedAtTheEnd, DependenciesFirst, DeliveredOnce
<1> QED
  BY <1>10, <1>11, <1>12, <1>13

\* Returning from a call that has nothing left to look at, and whose task is
\* queued, keeps what the invariant says of the calls.
LEMMA ReturnInv ==
  ASSUME QueueInv, stack # << >>, Pending(Top) = {}, stack' = Pop,
         UNCHANGED <<request, queued>>, Top.task \in queued \cup {NoTask}
  PROVE  /\ EntryFirst' /\ NothingForgotten' /\ NothingInvented' /\ QueuedForAReason'
         /\ Top.task # NoTask => stack' # << >>
         /\ Top.task = NoTask => stack' = << >> /\ Selected(request) \subseteq queued
<1> USE DEF QueueInv
<1>1. PICK n \in Nat : n = Len(stack)
  BY LenProperties DEF QueueTypeOK
<1>2. /\ Top \in Frame /\ n \in Nat \ {0} /\ Top = stack[n]
      /\ stack' \in Seq(Frame)
      /\ Len(stack') = n - 1
      /\ \A i \in 1 .. n - 1 : stack'[i] = stack[i]
  BY <1>1, PopStack DEF Top, QueueTypeOK
<1>3. /\ \A h : Needs(h)' = Needs(h) /\ Pending(h)' = Pending(h)
      /\ request' = request /\ queued' = queued
  BY DEF Needs, Pending
<1>4. \A i \in 1 .. n - 2 : Callee(i)' = Callee(i)
  <2> SUFFICES ASSUME NEW i \in 1 .. n - 2 PROVE Callee(i)' = Callee(i)
    OBVIOUS
  <2>1. stack'[i + 1] = stack[i + 1] /\ i < Len(stack) /\ i < Len(stack')
    BY <1>1, <1>2
  <2> QED
    BY <2>1 DEF Callee
<1>5. n > 1 => Callee(n - 1) = {Top.task} /\ Callee(n - 1)' = {} /\ Top.task \in queued
  BY <1>1, <1>2 DEF Callee, EntryFirst
<1>6. EntryFirst'
  BY <1>1, <1>2 DEF EntryFirst
<1>7. NothingForgotten'
  <2> SUFFICES ASSUME NEW i \in 1 .. n - 1
               PROVE  Needs(stack[i]) \subseteq queued \cup Pending(stack[i]) \cup Callee(i)'
    BY <1>2, <1>3 DEF NothingForgotten
  <2>1. Needs(stack[i]) \subseteq queued \cup Pending(stack[i]) \cup Callee(i)
    BY <1>1, <1>2 DEF NothingForgotten
  <2>2. CASE i \in 1 .. n - 2
    BY <2>1, <2>2, <1>4
  <2>3. CASE i = n - 1
    BY <2>1, <2>3, <1>2, <1>5
  <2> QED
    BY <2>2, <2>3, <1>2
<1>8. NothingInvented'
  <2> SUFFICES ASSUME NEW i \in 1 .. n - 1
               PROVE  Pending(stack[i]) \cup Callee(i)' \subseteq Needs(stack[i])
    BY <1>2, <1>3 DEF NothingInvented
  <2>1. Pending(stack[i]) \cup Callee(i) \subseteq Needs(stack[i])
    BY <1>1, <1>2 DEF NothingInvented
  <2>2. CASE i \in 1 .. n - 2
    BY <2>1, <2>2, <1>4
  <2>3. CASE i = n - 1
    BY <2>1, <2>3, <1>2, <1>5
  <2> QED
    BY <2>2, <2>3, <1>2
<1>9. QueuedForAReason'
  <2> SUFFICES ASSUME NEW q \in queued, NEW i \in 1 .. n, q \in Needs(stack[i])
               PROVE  \/ q \in Selected(request)
                      \/ \E u \in queued : q \in DependenciesOf(u)
                      \/ \E j \in 1 .. n - 1 : q \in Needs(stack'[j])
    BY <1>1, <1>2, <1>3 DEF QueuedForAReason
  <2>1. CASE i \in 1 .. n - 1
    BY <2>1, <1>2
  <2>2. CASE i = n
    BY <2>2, <1>2 DEF Needs
  <2> QED
    BY <2>1, <2>2, <1>2
<1>10. Top.task # NoTask => stack' # << >>
  BY <1>1, <1>2 DEF EntryFirst
<1>11. Top.task = NoTask => stack' = << >> /\ Selected(request) \subseteq queued
  <2> SUFFICES ASSUME Top.task = NoTask
               PROVE  stack' = << >> /\ Selected(request) \subseteq queued
    OBVIOUS
  <2>1. n = 1 /\ Callee(n) = {}
    BY <1>1, <1>2 DEF EntryFirst, Callee
  <2>2. stack' = << >>
    BY <1>2, <2>1, EmptySeq
  <2>3. Needs(Top) \subseteq queued
    BY <1>1, <1>2, <2>1 DEF NothingForgotten
  <2> QED
    BY <2>2, <2>3 DEF Needs
<1> QED
  BY <1>6, <1>7, <1>8, <1>9, <1>10, <1>11

\* A task already queued adds nothing.
LEMMA AlreadyQueuedInv == QueueInv /\ QueueTypeOK' /\ AlreadyQueued => QueueInv'
<1> SUFFICES ASSUME QueueInv, QueueTypeOK', AlreadyQueued
             PROVE  QueueInv'
  OBVIOUS
<1>1. /\ stack # << >> /\ ~closed /\ sending = NoTask
      /\ Pending(Top) = {} /\ Top.task \in queued /\ stack' = Pop
      /\ UNCHANGED <<request, queued, sending, delivered, closed>>
  BY NamedByEmpty DEF AlreadyQueued, CallDone, Running, Pending
<1>2. Top.task # NoTask
  BY <1>1, NoTaskAssumption DEF QueueInv, QueueTypeOK
<1>3. EntryFirst' /\ NothingForgotten' /\ NothingInvented' /\ QueuedForAReason' /\ stack' # << >>
  BY <1>1, <1>2, ReturnInv
<1>4. SendingIsTop' /\ ClosedAtTheEnd' /\ DependenciesFirst' /\ DeliveredOnce'
  BY <1>1, <1>3
     DEF QueueInv, SendingIsTop, ClosedAtTheEnd, DependenciesFirst, DeliveredOnce, Received
<1> QED
  BY <1>3, <1>4 DEF QueueInv

\* The entry point returns with everything asked for queued.
LEMMA CompleteInv == QueueInv /\ QueueTypeOK' /\ CompleteTaskRegistration => QueueInv'
<1> SUFFICES ASSUME QueueInv, QueueTypeOK', CompleteTaskRegistration
             PROVE  QueueInv'
  OBVIOUS
<1>1. /\ stack # << >> /\ sending = NoTask /\ closed' = TRUE
      /\ Pending(Top) = {} /\ Top.task = NoTask /\ stack' = Pop
      /\ UNCHANGED <<request, queued, sending, delivered>>
  BY NamedByEmpty DEF CompleteTaskRegistration, CallDone, Running, Pending
<1>2. /\ EntryFirst' /\ NothingForgotten' /\ NothingInvented' /\ QueuedForAReason'
      /\ stack' = << >> /\ Selected(request) \subseteq queued
  BY <1>1, ReturnInv
<1>3. SendingIsTop' /\ ClosedAtTheEnd' /\ DependenciesFirst' /\ DeliveredOnce'
  BY <1>1, <1>2
     DEF QueueInv, SendingIsTop, ClosedAtTheEnd, DependenciesFirst, DeliveredOnce, Received
<1> QED
  BY <1>2, <1>3 DEF QueueInv

\* Deliver: the worker has already received the dependencies of the task, and
\* has not received the task.
LEMMA DeliverInv == QueueInv /\ QueueTypeOK' /\ Deliver => QueueInv'
<1> SUFFICES ASSUME QueueInv, QueueTypeOK', Deliver
             PROVE  QueueInv'
  OBVIOUS
<1>1. /\ sending \in Task /\ delivered \in Seq(Task)
      /\ delivered' = Append(delivered, sending) /\ sending' = NoTask /\ stack' = Pop
      /\ UNCHANGED <<request, queued, closed>>
  BY DEF Deliver, QueueInv, QueueTypeOK
<1>2. /\ stack # << >> /\ Top.task = sending /\ Pending(Top) = {}
      /\ sending \notin Received /\ DependenciesOf(sending) \subseteq Received
      /\ queued = Received \cup {sending}
  BY <1>1, NoTaskAssumption DEF QueueInv, SendingIsTop
<1>3. /\ EntryFirst' /\ NothingForgotten' /\ NothingInvented' /\ QueuedForAReason'
      /\ stack' # << >>
  BY <1>1, <1>2, NoTaskAssumption, ReturnInv
<1>4. PICK m \in Nat : m = Len(delivered)
  BY <1>1, LenProperties
<1>5. /\ DOMAIN delivered = 1 .. m /\ DOMAIN delivered' = 1 .. m + 1
      /\ \A i \in 1 .. m : delivered'[i] = delivered[i]
      /\ delivered'[m + 1] = sending
  BY <1>1, <1>4
<1>6. Received' = Received \cup {sending}
  BY <1>5 DEF Received
<1>7. SendingIsTop' /\ ClosedAtTheEnd'
  BY <1>1, <1>2, <1>3, <1>6 DEF SendingIsTop, ClosedAtTheEnd, QueueInv
<1>8. DependenciesFirst'
  <2> SUFFICES ASSUME NEW i \in 1 .. m + 1, NEW d \in DependenciesOf(delivered'[i])
               PROVE  \E j \in 1 .. (i - 1) : delivered'[j] = d
    BY <1>5 DEF DependenciesFirst
  <2>1. CASE i \in 1 .. m
    <3>1. PICK j \in 1 .. (i - 1) : delivered[j] = d
      BY <2>1, <1>5 DEF QueueInv, DependenciesFirst
    <3> QED
      BY <2>1, <3>1, <1>5
  <2>2. CASE i = m + 1
    <3>1. PICK j \in 1 .. m : delivered[j] = d
      BY <2>2, <1>2, <1>5 DEF Received
    <3> QED
      BY <2>2, <3>1, <1>4, <1>5
  <2> QED
    BY <2>1, <2>2, <1>4
<1>9. DeliveredOnce'
  <2>1. \A i \in 1 .. m : delivered[i] # sending
    BY <1>2, <1>5 DEF Received
  <2>2. \A i, j \in 1 .. m : i # j => delivered[i] # delivered[j]
    BY <1>5 DEF QueueInv, DeliveredOnce
  <2> QED
    BY <1>4, <1>5, <2>1, <2>2 DEF DeliveredOnce
<1> QED
  BY <1>3, <1>7, <1>8, <1>9 DEF QueueInv

\* Every step keeps the invariant.
LEMMA NextInv == QueueInv /\ [QueueNext]_queueVars => QueueInv'
<1> SUFFICES ASSUME QueueInv, [QueueNext]_queueVars
             PROVE  QueueInv'
  OBVIOUS
<1>1. QueueTypeOK'
  BY NextTypeOK DEF QueueInv
<1>2. CASE UNCHANGED queueVars
  BY <1>2 DEF queueVars, QueueInv, QueueTypeOK, EntryFirst, NothingForgotten, NothingInvented,
              QueuedForAReason, SendingIsTop, ClosedAtTheEnd, DependenciesFirst, DeliveredOnce,
              Needs, Pending, Callee, Received, Top
<1> QED
  BY <1>1, <1>2, AddTaskInv, AddTasksByIdentifierInv, EnqueueInv, AlreadyQueuedInv, DeliverInv,
     CompleteInv DEF QueueNext, RegistrarStep, QueueDone

\* What is received when the queue is closed is the closure of the request.
LEMMA InvImpliesClosure == QueueInv => QueueIsClosure
<1> SUFFICES ASSUME QueueInv, closed PROVE IsClosureOf(Received, request)
  BY DEF QueueIsClosure, Received
<1>1. /\ stack = << >> /\ sending = NoTask /\ Selected(request) \subseteq queued
      /\ queued = Received
  BY DEF QueueInv, ClosedAtTheEnd, SendingIsTop
<1>2. Received \subseteq Selected(request) \cup UNION {DependenciesOf(t) : t \in Received}
  <2>1. Len(stack) = 0
    BY <1>1, EmptySeq
  <2> QED
    BY <1>1, <2>1 DEF QueueInv, QueuedForAReason
<1>3. \A t \in Received : DependenciesOf(t) \subseteq Received
  <2> SUFFICES ASSUME NEW i \in DOMAIN delivered, NEW d \in DependenciesOf(delivered[i])
               PROVE  d \in Received
    BY DEF Received
  <2>1. PICK j \in 1 .. (i - 1) : delivered[j] = d
    BY DEF QueueInv, DependenciesFirst
  <2>2. j \in DOMAIN delivered
    BY LenProperties DEF QueueInv, QueueTypeOK
  <2> QED
    BY <2>1, <2>2 DEF Received
<1> QED
  BY <1>1, <1>2, <1>3 DEF IsClosureOf

----------------------------------------------------------------------------
(***************************************************************************)
(* What the registrar promises the worker.                                 *)
(***************************************************************************)

\* The invariant holds in every run.
LEMMA QueueInvariant == QueueSpec => []QueueInv
BY InitInv, NextInv, PTL DEF QueueSpec

\* A task is received after every task its dependencies name, cycles or not.
THEOREM QueueDependenciesFirst == QueueSpec => []DependenciesFirst
<1>1. QueueInv => DependenciesFirst
  BY DEF QueueInv
<1> QED
  BY <1>1, QueueInvariant, PTL

\* No task is received twice.
THEOREM QueueDeliversOnce == QueueSpec => []DeliveredOnce
<1>1. QueueInv => DeliveredOnce
  BY DEF QueueInv
<1> QED
  BY <1>1, QueueInvariant, PTL

\* A closed queue has delivered what was asked for with all its dependencies.
THEOREM QueueDeliversClosure == QueueSpec => []QueueIsClosure
BY InvImpliesClosure, QueueInvariant, PTL

----------------------------------------------------------------------------
(***************************************************************************)
(* The run (Diagnostics).                                                  *)
(***************************************************************************)

\* Whatever step the run takes, the registrar takes one of its own or none.
LEMMA StepOfQueue == [Next]_vars => [QueueNext]_queueVars
<1> SUFFICES ASSUME [Next]_vars PROVE [QueueNext]_queueVars
  OBVIOUS
<1>1. CASE Register
  BY <1>1 DEF Register, QueueNext
<1>2. CASE SuiteError
  BY <1>2 DEF SuiteError
<1>3. CASE Worker
  BY <1>3 DEF Worker, QueueNext, ReceiveTask, WorkQueueClosed, ProcessTask, PublishResult,
              PublishFiles, CloseResults, CloseFiles, WorkerDone
<1>4. CASE Collector
  BY <1>4 DEF Collector, ReceiveFiles, ProcessEnvelope, FilesChannelClosed, CopyFile, OpenStream,
              ReadChunk, EndStream, FilesCopied, CollectorDone
<1>5. CASE \E s \in Stream : CloseStream(s)
  BY <1>5 DEF CloseStream
<1>6. CASE Main
  BY <1>6 DEF Main, StartRegistrar, ReturnEarly, CreateZip, CreateFileList, IncludeFile,
              StartTasks, WriteLineResult, ResultsWritten, WaitGroup, WriteOutputFile,
              CopyOutputToZip, CopyScriptOutput, CopyFileListToZip, CloseZip, ProcessUploads,
              ReturnFromMain
<1>7. CASE UNCHANGED vars
  BY <1>7 DEF vars
<1> QED
  BY <1>1, <1>2, <1>3, <1>4, <1>5, <1>6, <1>7 DEF Next, Ended

----------------------------------------------------------------------------
(***************************************************************************)
(* Control: where each goroutine is, given where the others are.           *)
(***************************************************************************)

\* main has not started the goroutines that count in the wait group.
Setup == {"start", "info", "zip", "filelist", "include"}

\* main has come to the end of the results, or waited for the goroutines.
Drained == {"wait", "json", "copyOutput", "copyScript", "closeZip", "upload", "end"}
Waited == Drained \ {"wait"}

\* The worker and the collector run between StartTasks and the wait group's Wait,
\* which counts them.
WaitGroupCounts ==
  /\ main \in Setup => worker.pc = "off" /\ collector.pc = "off"
  /\ main \notin Setup => worker.pc # "off" /\ collector.pc # "off"
  /\ wg = (IF worker.pc \in {"off", "returned"} THEN 0 ELSE 1)
          + (IF collector.pc \in {"off", "returned"} THEN 0 ELSE 1)
  /\ main \in Waited => wg = 0

\* Each channel is closed by the goroutine that sends on it, once that goroutine
\* has nothing more to send, and the one that receives goes on from there.
ClosedInOrder ==
  /\ worker.pc \in {"closeResults", "closeFiles", "done", "returned"} => closed
  /\ resultsCh.closed <=> worker.pc \in {"closeFiles", "done", "returned"}
  /\ filesCh.closed <=> worker.pc \in {"done", "returned"}
  /\ collector.pc \notin {"off", "receive"} => filesCh.closed
  /\ main \in Drained => resultsCh.closed /\ resultsCh.buf = << >>

\* The task the worker is at.
WorkerHasTask ==
  IF worker.pc \in {"execute", "publish", "files"}
  THEN worker.task \in Task ELSE worker.task = NoTask

\* The archive is open from its creation to CloseZip, and sent after that.
ZipState ==
  /\ main \in {"start", "info", "zip"} => zip.state = "none"
  /\ main \in {"upload", "end"} <=> zip.state = "closed"
  /\ uploaded => main = "end"

\* The collector reads the stream of the first file it has still to copy, and
\* has no writer for it only when the archive is broken.
ReadsStream ==
  /\ collector.pc \in {"stream", "noWriter"} =>
       collector.files # << >> /\ Head(collector.files).stream # NoStream
  /\ collector.pc = "noWriter" => zip.broken

Control == WaitGroupCounts /\ ClosedInOrder /\ WorkerHasTask /\ ZipState /\ ReadsStream

\* The shape of the state the control is about.
Shape ==
  /\ main \in MainPc
  /\ worker \in [pc : WorkerPc, task : Task \cup {NoTask}]
  /\ collector \in [pc : CollectorPc, folder : Folder \cup {NoFolder}, todo : Seq(Envelope),
                    names : SUBSET StoredName, paths : SUBSET Path, files : Seq(Envelope)]
  /\ resultsCh \in Chan /\ filesCh \in Chan
  /\ zip \in [state : {"none", "open", "closed"}, broken : BOOLEAN, entries : Seq(Entry)]

LEMMA TypesGiveShape == TypeOK => Shape
BY DEF TypeOK, Shape

\* Whatever a write does to the archive, it neither opens nor closes nor mends it.
LEMMA ZipWrites ==
  ASSUME Shape
  PROVE  /\ \A name, path, whole : WithEntry(name, path, whole).state = zip.state
         /\ \A name, path : CopyEntry(name, path) =>
              zip'.state = zip.state /\ (zip.broken => zip'.broken)
         /\ Break(zip).state = zip.state
BY DEF Shape, WithEntry, CopyEntry, AfterCopy, Break

LEMMA InitControl == Init => Control
BY DEF Init, QueueInit, Control, WaitGroupCounts, ClosedInOrder, WorkerHasTask, ZipState, ReadsStream, Setup,
       Drained, Waited

LEMMA WorkerControl == QueueTypeOK /\ Shape /\ Control /\ Worker => Control'
<1> SUFFICES ASSUME QueueTypeOK, Shape, Control, Worker PROVE Control'
  OBVIOUS
<1> USE DEF Control, WaitGroupCounts, ClosedInOrder, WorkerHasTask, ZipState, ReadsStream, Setup, Drained,
            Waited, Shape, WorkerPc, CollectorPc, MainPc, Chan, workerElse, WorkerAt
<1>1. CASE ReceiveTask
  BY <1>1 DEF ReceiveTask, Deliver, QueueTypeOK
<1>2. CASE WorkQueueClosed
  BY <1>2 DEF WorkQueueClosed, queueVars
<1>3. CASE ProcessTask
  BY <1>3 DEF ProcessTask, queueVars
<1>4. CASE PublishResult
  BY <1>4 DEF PublishResult, queueVars
<1>5. CASE PublishFiles
  BY <1>5 DEF PublishFiles, queueVars
<1>6. CASE CloseResults
  BY <1>6 DEF CloseResults, queueVars
<1>7. CASE CloseFiles
  BY <1>7 DEF CloseFiles, queueVars
<1>8. CASE WorkerDone
  BY <1>8 DEF WorkerDone, queueVars
<1> QED
  BY <1>1, <1>2, <1>3, <1>4, <1>5, <1>6, <1>7, <1>8 DEF Worker

LEMMA CollectorControl == Shape /\ Control /\ Collector => Control'
<1> SUFFICES ASSUME Shape, Control, Collector PROVE Control'
  OBVIOUS
<1> USE DEF Control, WaitGroupCounts, ClosedInOrder, WorkerHasTask, ZipState, ReadsStream, Setup, Drained,
            Waited, Shape, WorkerPc, CollectorPc, MainPc, Chan, queueVars, collectorElse,
            CollectorAt
<1>1. CASE ReceiveFiles
  BY <1>1 DEF ReceiveFiles
<1>2. CASE ProcessEnvelope
  BY <1>2 DEF ProcessEnvelope
<1>3. CASE FilesChannelClosed
  BY <1>3 DEF FilesChannelClosed
<1>4. CASE CopyFile
  BY <1>4, ZipWrites DEF CopyFile
<1>5. CASE OpenStream
  <2>1. zip'.state = zip.state
    BY <1>5 DEF OpenStream, WithEntry, Break
  <2>2. collector'.pc \in {"stream", "noWriter"} /\ filesCh.closed
    BY <1>5 DEF OpenStream
  <2>3. ReadsStream'
    BY <1>5 DEF OpenStream, Break
  <2> QED
    BY <1>5, <2>1, <2>2, <2>3 DEF OpenStream
<1>6. CASE ReadChunk
  BY <1>6, ZipWrites DEF ReadChunk
<1>7. CASE EndStream
  BY <1>7 DEF EndStream
<1>8. CASE FilesCopied
  BY <1>8 DEF FilesCopied
<1>9. CASE CollectorDone
  BY <1>9 DEF CollectorDone
<1> QED
  BY <1>1, <1>2, <1>3, <1>4, <1>5, <1>6, <1>7, <1>8, <1>9 DEF Collector

LEMMA MainControl == Shape /\ Control /\ Main => Control'
<1> SUFFICES ASSUME Shape, Control, Main PROVE Control'
  OBVIOUS
<1> USE DEF Control, WaitGroupCounts, ClosedInOrder, WorkerHasTask, ZipState, ReadsStream, Setup, Drained,
            Waited, Shape, WorkerPc, CollectorPc, MainPc, Chan, queueVars, mainElse, MainAt
<1>1. CASE StartRegistrar
  BY <1>1 DEF StartRegistrar
<1>2. CASE ReturnEarly
  BY <1>2 DEF ReturnEarly
<1>3. CASE CreateZip
  BY <1>3 DEF CreateZip
<1>4. CASE CreateFileList
  BY <1>4 DEF CreateFileList
<1>5. CASE IncludeFile
  BY <1>5, ZipWrites DEF IncludeFile, CopyWalked
<1>6. CASE StartTasks
  BY <1>6 DEF StartTasks
<1>7. CASE WriteLineResult
  BY <1>7 DEF WriteLineResult
<1>8. CASE ResultsWritten
  BY <1>8 DEF ResultsWritten
<1>9. CASE WaitGroup
  BY <1>9 DEF WaitGroup
<1>10. CASE WriteOutputFile
  BY <1>10 DEF WriteOutputFile
<1>11. CASE CopyOutputToZip
  BY <1>11, ZipWrites DEF CopyOutputToZip
<1>12. CASE CopyScriptOutput
  BY <1>12, ZipWrites DEF CopyScriptOutput, CopyWalked
<1>13. CASE CopyFileListToZip
  BY <1>13, ZipWrites DEF CopyFileListToZip
<1>14. CASE CloseZip
  BY <1>14 DEF CloseZip
<1>15. CASE ProcessUploads
  BY <1>15 DEF ProcessUploads
<1>16. CASE ReturnFromMain
  BY <1>16 DEF ReturnFromMain
<1> QED
  BY <1>1, <1>2, <1>3, <1>4, <1>5, <1>6, <1>7, <1>8, <1>9, <1>10, <1>11, <1>12, <1>13, <1>14,
     <1>15, <1>16 DEF Main

----------------------------------------------------------------------------
(***************************************************************************)
(* Type correctness.                                                       *)
(***************************************************************************)

\* The names files get in the archive are names.
LEMMA NamesOfEnvelopes ==
  /\ \A e \in Envelope : StoreName(e) \in StoredName /\ e.path \in Path
  /\ \A e \in Envelope, n \in Nat : Instance(e, n) \in Envelope
  /\ \A e \in Envelope, f \in Folder \cup {NoFolder} : WithFolder(e, f) \in Envelope
  /\ \A p \in Path : PlainFile(p) \in Envelope
<1> USE FileNamesAssumption DEF Envelope, NoFolder
<1>1. ASSUME NEW e \in Envelope
      PROVE  StoreName(e) \in StoredName /\ e.path \in Path
  <2>1. Name(e) \in [folder : Folder \cup {NoFolder}, stem : STRING, numbers : Seq(Nat)]
    BY DEF Name
  <2>2. CASE e.instance = 0
    BY <2>1, <2>2 DEF StoreName, StoredName
  <2>3. CASE e.instance # 0
    <3>1. e.instance \in Nat
      OBVIOUS
    <3>2. Append(Name(e).numbers, e.instance) \in Seq(Nat)
      BY <2>1, <3>1, AppendProperties
    <3> QED
      BY <2>1, <2>3, <3>2 DEF StoreName, StoredName
  <2> QED
    BY <2>2, <2>3
<1>2. ASSUME NEW e \in Envelope, NEW n \in Nat
      PROVE  Instance(e, n) \in Envelope
  <2>1. e.instance \in Nat
    OBVIOUS
  <2>2. e.instance + n \in Nat
    BY ONLY <2>1, n \in Nat
  <2> QED
    BY <2>2 DEF Instance
<1>3. \A e \in Envelope, f \in Folder \cup {NoFolder} : WithFolder(e, f) \in Envelope
  BY DEF WithFolder
<1>4. \A p \in Path : PlainFile(p) \in Envelope
  BY DEF PlainFile
<1> QED
  BY <1>1, <1>2, <1>3, <1>4

\* And so are those of the files main copies itself, and of their lines.
LEMMA NamesOfWalked ==
  ASSUME NEW p \in Path, NEW f \in {"Include", "ScriptOutput"}
  PROVE  /\ NameUnder(f, p) \in StoredName
         /\ StoreName(WithFolder(PlainFile(p), f)) \in StoredName
         /\ StoreName(WithFolder(PlainFile(p), NoFolder)) \in StoredName
         /\ WithFolder(PlainFile(p), f).path = p
         /\ WithFolder(PlainFile(p), NoFolder).path = p
<1>0. p \in STRING /\ << >> \in Seq(Nat)
  BY FileNamesAssumption, EmptySeq
<1>1. /\ BaseName[p] \in [stem : STRING, numbers : Seq(Nat)]
      /\ BaseName[p].stem \in STRING /\ BaseName[p].numbers \in Seq(Nat)
  BY FileNamesAssumption
<1>2. NameUnder(f, p) \in StoredName
  BY <1>0 DEF NameUnder, StoredName
<1>3. \A g \in {f, NoFolder} :
        WithFolder(PlainFile(p), g) =
          [path |-> p, stream |-> NoStream, folder |-> g, instance |-> 0]
  BY DEF WithFolder, PlainFile
<1>4. \A g \in {f, NoFolder} :
        StoreName([path |-> p, stream |-> NoStream, folder |-> g, instance |-> 0]) \in StoredName
  BY <1>1 DEF StoreName, Name, StoredName, NoFolder
<1> QED
  BY <1>2, <1>3, <1>4

\* What becomes of the archive and of the list when a file is copied is an
\* archive and a list.
LEMMA WritesType ==
  ASSUME TypeOK, NEW n \in StoredName, NEW p \in Path, NEW w \in BOOLEAN
  PROVE  LET Z == [state : {"none", "open", "closed"}, broken : BOOLEAN, entries : Seq(Entry)] IN
         /\ WithEntry(n, p, w) \in Z
         /\ Break(zip) \in Z
         /\ Break(WithEntry(n, p, w)) \in Z
         /\ AfterCopy(n, p) \subseteq Z
<1> DEFINE Z == [state : {"none", "open", "closed"}, broken : BOOLEAN, entries : Seq(Entry)]
<1>1. zip \in Z
  BY DEF TypeOK
<1>2. \A v \in BOOLEAN : WithEntry(n, p, v) \in Z
  <2> TAKE v \in BOOLEAN
  <2>1. [name |-> n, path |-> p, whole |-> v] \in Entry
    BY DEF Entry
  <2>2. Append(zip.entries, [name |-> n, path |-> p, whole |-> v]) \in Seq(Entry)
    BY <1>1, <2>1
  <2> QED
    BY <1>1, <2>2 DEF WithEntry
<1>3. \A z \in Z : Break(z) \in Z
  BY DEF Break
<1> QED
  BY <1>1, <1>2, <1>3 DEF AfterCopy

\* A line more is a list.
LEMMA ListType ==
  ASSUME TypeOK, NEW e, StoreName(e) \in StoredName, e.path \in Path, AddFileToFileList(e)
  PROVE  filelist' \in Seq(Line)
<1>1. filelist \in Seq(Line) /\ [name |-> StoreName(e), path |-> e.path] \in Line
  BY DEF TypeOK, Line
<1> QED
  BY <1>1 DEF AddFileToFileList, AddLine

\* The first envelope still to be looked at, or copied, is an envelope.
LEMMA HeadTypes ==
  ASSUME TypeOK
  PROVE  /\ collector.files # << >> => Head(collector.files) \in Envelope
         /\ collector.todo # << >> => Head(collector.todo) \in Envelope
         /\ walk # << >> => Head(walk) \in Path
         /\ resultsCh.buf # << >> => Head(resultsCh.buf) \in Task
         /\ filesCh.buf # << >> => Head(filesCh.buf) \in Task
BY DEF TypeOK, Chan

\* What Execute can leave, and what it can be given, are results.
LEMMA ResultTypes ==
  ASSUME TypeOK
  PROVE  /\ ZeroResult \in Result
         /\ \A r \in Ref : ResultOf(r) \in Result
         /\ \A t \in Task : OverrideResult(overrides[t]) \in Result
<1>1. ZeroResult \in Result
  BY DEF ZeroResult, Result, Status
<1>2. \A r \in Ref : ResultOf(r) \in Result
  BY <1>1, DiagnosticsAssumption DEF ResultOf, TypeOK
<1>3. ASSUME NEW t \in Task
      PROVE  OverrideResult(overrides[t]) \in Result
  <2>1. overrides[t] \in Override
    BY DiagnosticsAssumption DEF TypeOK
  <2> QED
    BY <1>1, <2>1 DEF OverrideResult, Override, Result, Status, ZeroResult
<1> QED
  BY <1>1, <1>2, <1>3

LEMMA InitTypes == Init => TypeOK
<1> SUFFICES ASSUME Init PROVE TypeOK
  OBVIOUS
<1>1. QueueTypeOK
  BY InitTypeOK DEF Init
<1>2. ZeroResult \in Result
  BY DEF ZeroResult, Result, Status
<1>3. Len(resultsCh.buf) <= Capacity /\ Len(filesCh.buf) <= Capacity
  BY DiagnosticsAssumption DEF Init
<1>4. /\ worker \in [pc : WorkerPc, task : Task \cup {NoTask}]
      /\ resultsCh \in Chan /\ filesCh \in Chan
      /\ collector \in [pc : CollectorPc, folder : Folder \cup {NoFolder}, todo : Seq(Envelope),
                        names : SUBSET StoredName, paths : SUBSET Path, files : Seq(Envelope)]
      /\ zip \in [state : {"none", "open", "closed"}, broken : BOOLEAN, entries : Seq(Entry)]
  BY DEF Init, WorkerPc, CollectorPc, Chan
<1>5. results \in [Task -> Result] /\ DOMAIN given = {}
  BY <1>2 DEF Init
<1>6. stream \in [Stream -> [state : {"idle", "open", "closed"}, sent : Nat]]
  BY DEF Init
<1>7. /\ filelist \in Seq(Line) /\ archivedList \in Seq(Line)
      /\ outputResults \in Seq(Task) /\ walk \in Seq(Path)
  BY EmptySeq DEF Init
<1>8. uploaded \in BOOLEAN
  BY Zenon DEF Init
<1>9. /\ json \in Seq(Task) \cup {NoReport}
      /\ faults \subseteq {"archive", "filelist", "report"}
      /\ wg \in 0 .. 2 /\ process \in ProcessState /\ main \in MainPc
  BY DEF Init, ProcessState, MainPc
<1>10. flags \in FlagChoices /\ overrides \in OverrideChoices
  BY DEF Init
<1> QED
  BY <1>1, <1>3, <1>4, <1>5, <1>6, <1>7, <1>8, <1>9, <1>10 DEF TypeOK

\* A send on a channel that is not full leaves a channel; so does a receive.
LEMMA ChannelTypes ==
  ASSUME NEW c \in Chan
  PROVE  /\ Len(c.buf) < Capacity =>
              \A t \in Task : /\ [c EXCEPT !.buf = Append(@, t)] \in Chan
                              /\ Len([c EXCEPT !.buf = Append(@, t)].buf) <= Capacity
         /\ c.buf # << >> /\ Len(c.buf) <= Capacity =>
              /\ [c EXCEPT !.buf = Tail(@)] \in Chan
              /\ Len([c EXCEPT !.buf = Tail(@)].buf) <= Capacity
<1>1. c.buf \in Seq(Task) /\ Capacity \in Nat
  BY DiagnosticsAssumption DEF Chan
<1>2. ASSUME NEW t \in Task, Len(c.buf) < Capacity
      PROVE  /\ Append(c.buf, t) \in Seq(Task)
             /\ Len(Append(c.buf, t)) <= Capacity
  BY <1>1, <1>2
<1>3. ASSUME c.buf # << >>, Len(c.buf) <= Capacity
      PROVE  Tail(c.buf) \in Seq(Task) /\ Len(Tail(c.buf)) <= Capacity
  BY <1>1, <1>3
<1> QED
  BY <1>2, <1>3 DEF Chan

LEMMA WorkerTypes == TypeOK /\ QueueTypeOK' /\ Control /\ Worker => TypeOK'
<1> SUFFICES ASSUME TypeOK, QueueTypeOK', Control, Worker PROVE TypeOK'
  OBVIOUS
<1> USE DEF workerElse, WorkerAt
<1> DEFINE W == [pc : WorkerPc, task : Task \cup {NoTask}]
<1>0. worker \in W
  BY DEF TypeOK
<1>1. CASE ReceiveTask
  <2>1. worker' \in W
    BY <1>1 DEF ReceiveTask, TypeOK, QueueTypeOK, WorkerPc
  <2> QED
    BY <1>1, <2>1 DEF ReceiveTask, TypeOK
<1>2. CASE WorkQueueClosed
  <2>1. worker' \in W
    BY <1>2 DEF WorkQueueClosed, WorkerPc
  <2> QED
    BY <1>2, <2>1 DEF WorkQueueClosed, TypeOK
<1>3. CASE ProcessTask
  <2> DEFINE t == worker.task
  <2>1. t \in Task
    BY <1>3 DEF ProcessTask, Control, WorkerHasTask
  <2>2. worker' \in W /\ process' \in ProcessState
    BY <1>0, <1>3 DEF ProcessTask, WorkerPc, ProcessState, TypeOK
  <2>3. results' \in [Task -> Result]
    <3>1. \A r \in Outcomes[t] : r \in Result
      BY <2>1, DiagnosticsAssumption
    <3>2. results \in [Task -> Result] /\ OverrideResult(overrides[t]) \in Result
      BY <2>1, ResultTypes DEF TypeOK
    <3>3. \/ results' = results
          \/ \E r \in Result : results' = [results EXCEPT ![t] = r]
      BY <1>3, <3>1, <3>2 DEF ProcessTask
    <3> QED
      BY <3>2, <3>3
  <2>4. /\ DOMAIN given' \subseteq Task
        /\ \A u \in DOMAIN given' : DOMAIN given'[u] \subseteq Ref /\ Range(given'[u]) \subseteq Result
    <3>1. DOMAIN Upstream(t) \subseteq Ref /\ Range(Upstream(t)) \subseteq Result
      <4>1. Range(Dependencies[t]) \subseteq Ref
        BY <2>1, RegistryAssumption DEF Range
      <4> QED
        BY <4>1, ResultTypes DEF Upstream, Range
    <3>2. CASE given' = given
      BY <3>2 DEF TypeOK
    <3>3. CASE given' = [u \in DOMAIN given \cup {t} |-> IF u = t THEN Upstream(t) ELSE given[u]]
      BY <2>1, <3>1, <3>3 DEF TypeOK
    <3> QED
      BY <1>3, <3>2, <3>3 DEF ProcessTask
  <2>5. stream' \in [Stream -> [state : {"idle", "open", "closed"}, sent : Nat]]
    BY <1>3 DEF ProcessTask, TypeOK
  <2> QED
    BY <1>3, <2>2, <2>3, <2>4, <2>5 DEF ProcessTask, TypeOK
<1>4. CASE PublishResult
  <2>1. worker' \in W
    BY <1>0, <1>4 DEF PublishResult, WorkerPc
  <2>2. worker.task \in Task
    BY <1>4 DEF PublishResult, Control, WorkerHasTask
  <2>3. resultsCh' \in Chan /\ Len(resultsCh'.buf) <= Capacity
    BY <1>4, <2>2, ChannelTypes DEF PublishResult, TypeOK
  <2> QED
    BY <1>4, <2>1, <2>3 DEF PublishResult, TypeOK
<1>5. CASE PublishFiles
  <2>1. worker' \in W
    BY <1>0, <1>5 DEF PublishFiles, WorkerPc
  <2>2. worker.task \in Task
    BY <1>5 DEF PublishFiles, Control, WorkerHasTask
  <2>3. filesCh' \in Chan /\ Len(filesCh'.buf) <= Capacity
    BY <1>5, <2>2, ChannelTypes DEF PublishFiles, TypeOK
  <2> QED
    BY <1>5, <2>1, <2>3 DEF PublishFiles, TypeOK
<1>6. CASE CloseResults
  <2>1. worker' \in W /\ resultsCh' \in Chan /\ Len(resultsCh'.buf) <= Capacity
    BY <1>0, <1>6 DEF CloseResults, WorkerPc, TypeOK, Chan
  <2> QED
    BY <1>6, <2>1 DEF CloseResults, TypeOK
<1>7. CASE CloseFiles
  <2>1. worker' \in W /\ filesCh' \in Chan /\ Len(filesCh'.buf) <= Capacity
    BY <1>0, <1>7 DEF CloseFiles, WorkerPc, TypeOK, Chan
  <2> QED
    BY <1>7, <2>1 DEF CloseFiles, TypeOK
<1>8. CASE WorkerDone
  <2>1. worker' \in W
    BY <1>0, <1>8 DEF WorkerDone, WorkerPc
  <2>2. wg' \in 0 .. 2
    BY <1>8 DEF WorkerDone, Control, WaitGroupCounts
  <2> QED
    BY <1>8, <2>1, <2>2 DEF WorkerDone, TypeOK
<1> QED
  BY <1>1, <1>2, <1>3, <1>4, <1>5, <1>6, <1>7, <1>8 DEF Worker

LEMMA CollectorTypes == TypeOK /\ QueueTypeOK' /\ Control /\ Collector => TypeOK'
<1> SUFFICES ASSUME TypeOK, QueueTypeOK', Control, Collector PROVE TypeOK'
  OBVIOUS
<1> USE DEF collectorElse, CollectorAt
<1> DEFINE C == [pc : CollectorPc, folder : Folder \cup {NoFolder}, todo : Seq(Envelope),
                 names : SUBSET StoredName, paths : SUBSET Path, files : Seq(Envelope)]
           Z == [state : {"none", "open", "closed"}, broken : BOOLEAN, entries : Seq(Entry)]
<1>0. collector \in C /\ zip \in Z
  BY DEF TypeOK
<1>1. CASE ReceiveFiles
  <2> DEFINE t == Head(filesCh.buf)
  <2>1. FolderOf[t] \in Folder \cup {NoFolder} /\ results[t].files \in Seq(Envelope)
    BY <1>1, HeadTypes, DiagnosticsAssumption DEF ReceiveFiles, TypeOK, Result
  <2>2. collector' \in C
    BY <1>0, <1>1, <2>1 DEF ReceiveFiles
  <2>3. filesCh' \in Chan /\ Len(filesCh'.buf) <= Capacity
    BY <1>1, ChannelTypes DEF ReceiveFiles, TypeOK
  <2> QED
    BY <1>1, <2>2, <2>3 DEF ReceiveFiles, TypeOK
<1>2. CASE ProcessEnvelope
  <2> DEFINE e == Head(collector.todo)
  <2>0. collector.todo # << >> /\ collector.todo \in Seq(Envelope)
    BY <1>0, <1>2 DEF ProcessEnvelope
  <2>1. e \in Envelope /\ Tail(collector.todo) \in Seq(Envelope)
    BY <2>0, HeadTypes, HeadTailProperties
  <2>2. \A n \in Nat :
          /\ StoreName(Instance(e, n)) \in StoredName
          /\ WithFolder(Instance(e, n), collector.folder) \in Envelope
          /\ Append(collector.files, WithFolder(Instance(e, n), collector.folder)) \in Seq(Envelope)
    BY <1>0, <2>1, NamesOfEnvelopes, AppendProperties
  <2>3. FreeInstances(e, collector.names) \subseteq Nat /\ e.path \in Path
    <3>1. \A n \in FreeInstances(e, collector.names) : n \in Nat
      <4>1. MaxTries \in Nat
        BY FileNamesAssumption
      <4>2. FreeInstances(e, collector.names) \subseteq 0 .. MaxTries - 1
        BY Zenon DEF FreeInstances
      <4> QED
        BY <4>1, <4>2
    <3> QED
      BY <2>1, <3>1, NamesOfEnvelopes DEF FreeInstances
  <2> DEFINE rest == [collector EXCEPT !.todo = Tail(@)]
  <2>4. rest \in C
    BY <1>0, <2>1
  <2>5. CASE collector' = rest
    BY <1>2, <2>4, <2>5 DEF ProcessEnvelope, TypeOK
  <2>6. ASSUME NEW n \in FreeInstances(e, collector.names),
               collector' = [rest EXCEPT
                 !.names = @ \cup {StoreName(Instance(e, n))},
                 !.paths = @ \cup {e.path},
                 !.files = Append(@, WithFolder(Instance(e, n), collector.folder))]
        PROVE  TypeOK'
    <3>1. collector' \in C
      BY <1>0, <2>1, <2>2, <2>3, <2>6
    <3> QED
      BY <1>2, <3>1 DEF ProcessEnvelope, TypeOK
  <2> QED
    BY <1>2, <2>5, <2>6 DEF ProcessEnvelope
<1>3. CASE FilesChannelClosed
  <2>1. collector' \in C
    BY <1>0, <1>3 DEF FilesChannelClosed, CollectorPc
  <2> QED
    BY <1>3, <2>1 DEF FilesChannelClosed, TypeOK
<1>4. CASE CopyFile
  <2> DEFINE e == Head(collector.files)
  <2>1. /\ e \in Envelope /\ e.path \in Path /\ StoreName(e) \in StoredName
        /\ Tail(collector.files) \in Seq(Envelope)
    BY <1>0, <1>4, HeadTypes, NamesOfEnvelopes DEF CopyFile
  <2>2. filelist' \in Seq(Line)
    BY <1>4, <2>1, ListType DEF CopyFile
  <2>3. zip' \in Z
    BY <1>4, <2>1, WritesType DEF CopyFile, CopyEntry
  <2>4. collector' \in C
    BY <1>0, <1>4, <2>1 DEF CopyFile
  <2>5. faults' \subseteq {"archive", "filelist", "report"}
    BY <1>4 DEF CopyFile, FaultsOf, TypeOK
  <2> QED
    BY <1>4, <2>2, <2>3, <2>4, <2>5 DEF CopyFile, TypeOK
<1>5. CASE OpenStream
  <2> DEFINE e == Head(collector.files)
  <2>1. e \in Envelope /\ e.path \in Path /\ StoreName(e) \in StoredName
    BY <1>0, <1>5, HeadTypes, NamesOfEnvelopes DEF OpenStream
  <2>2. filelist' \in Seq(Line)
    BY <1>5, <2>1, ListType DEF OpenStream
  <2>3. WithEntry(StoreName(e), e.path, FALSE) \in Z /\ Break(zip) \in Z
    BY <2>1, WritesType
  <2>4. zip' \in Z /\ collector' \in C
    BY <1>0, <1>5, <2>3 DEF OpenStream, CollectorPc
  <2>5. faults' \subseteq {"archive", "filelist", "report"}
    BY <1>5 DEF OpenStream, TypeOK
  <2> QED
    BY <1>5, <2>2, <2>4, <2>5 DEF OpenStream, TypeOK
<1>6. CASE ReadChunk
  <2> DEFINE s == CurrentStream
             S == [state : {"idle", "open", "closed"}, sent : Nat]
  <2>0. s \in Stream
    BY <1>6, HeadTypes DEF ReadChunk, CurrentStream, Control, ReadsStream, Envelope
  <2>1. stream \in [Stream -> S]
    BY DEF TypeOK
  <2>2. stream' \in [Stream -> S]
    BY <1>6, <2>1, <2>0 DEF ReadChunk
  <2>3. zip' \in Z
    BY <1>0, <1>6 DEF ReadChunk, Break
  <2>4. faults' \subseteq {"archive", "filelist", "report"} /\ process' \in ProcessState
    BY <1>6 DEF ReadChunk, TypeOK, ProcessState
  <2> QED
    BY <1>6, <2>2, <2>3, <2>4 DEF ReadChunk, TypeOK
<1>7. CASE EndStream
  <2> DEFINE n == Len(zip.entries)
             es(b) == [zip.entries EXCEPT ![n].whole = b]
  <2>1. n \in Nat /\ zip.entries \in [1 .. n -> Entry]
    BY <1>0, LenProperties
  <2>2. \A b \in BOOLEAN : es(b) \in [1 .. n -> Entry]
    BY <2>1 DEF Entry
  <2>3. \A b \in BOOLEAN : es(b) \in Seq(Entry)
    BY <2>1, <2>2, SeqDef
  <2>4. zip' = zip \/ \E b \in BOOLEAN : zip' = [zip EXCEPT !.entries = es(b)]
    BY <1>7 DEF EndStream
  <2>5. zip' \in Z
    BY <1>0, <2>3, <2>4
  <2>6. collector.files # << >> /\ collector.files \in Seq(Envelope)
    BY <1>0, <1>7 DEF EndStream, Control, ReadsStream
  <2>7. Tail(collector.files) \in Seq(Envelope)
    BY <2>6, HeadTailProperties
  <2>8. collector' \in C
    BY <1>0, <1>7, <2>7 DEF EndStream, CollectorPc
  <2> QED
    BY <1>7, <2>5, <2>8 DEF EndStream, TypeOK
<1>8. CASE FilesCopied
  <2>1. collector' \in C
    BY <1>0, <1>8 DEF FilesCopied, CollectorPc
  <2> QED
    BY <1>8, <2>1 DEF FilesCopied, TypeOK
<1>9. CASE CollectorDone
  <2>1. collector' \in C
    BY <1>0, <1>9 DEF CollectorDone, CollectorPc
  <2>2. wg' \in 0 .. 2
    BY <1>9 DEF CollectorDone, Control, WaitGroupCounts
  <2> QED
    BY <1>9, <2>1, <2>2 DEF CollectorDone, TypeOK
<1> QED
  BY <1>1, <1>2, <1>3, <1>4, <1>5, <1>6, <1>7, <1>8, <1>9 DEF Collector

\* A file that -include or the script named is copied, or the walk ends.
LEMMA WalkTypes ==
  ASSUME TypeOK, NEW f \in {"Include", "ScriptOutput"}, walk # << >>, CopyWalked(f, Head(walk))
  PROVE  /\ walk' \in Seq(Path) /\ filelist' \in Seq(Line)
         /\ zip' \in [state : {"none", "open", "closed"}, broken : BOOLEAN, entries : Seq(Entry)]
         /\ faults' \subseteq {"archive", "filelist", "report"}
<1> DEFINE p == Head(walk)
           g == IF main = "include" THEN NoFolder ELSE f
           e == WithFolder(PlainFile(p), g)
           Z == [state : {"none", "open", "closed"}, broken : BOOLEAN, entries : Seq(Entry)]
<1>1. p \in Path /\ walk \in Seq(Path) /\ Tail(walk) \in Seq(Path) /\ << >> \in Seq(Path)
  BY HeadTypes, HeadTailProperties, EmptySeq DEF TypeOK
<1>2. NameUnder(f, p) \in StoredName /\ StoreName(e) \in StoredName /\ e.path = p
  BY <1>1, NamesOfWalked
<1>3. walk' \in Seq(Path)
  BY <1>1 DEF CopyWalked
<1>4. filelist' \in Seq(Line)
  <2>1. CASE UNCHANGED filelist
    BY <2>1 DEF TypeOK
  <2>2. CASE AddFileToFileList(e)
    BY <1>1, <1>2, <2>2, ListType
  <2> QED
    BY <2>1, <2>2 DEF CopyWalked
<1>5. zip' \in Z
  <2>1. CASE UNCHANGED zip
    BY <2>1 DEF TypeOK
  <2>2. CASE CopyEntry(NameUnder(f, p), p)
    BY <1>1, <1>2, <2>2, WritesType DEF CopyEntry
  <2> QED
    BY <2>1, <2>2 DEF CopyWalked
<1>6. faults' \subseteq {"archive", "filelist", "report"}
  BY DEF CopyWalked, FaultsOf, TypeOK
<1> QED
  BY <1>3, <1>4, <1>5, <1>6

\* A file of main's own is copied and listed.
LEMMA OwnFileTypes ==
  ASSUME TypeOK, NEW p \in Path
  PROVE  /\ AddFileToFileList(PlainFile(p)) => filelist' \in Seq(Line)
         /\ CopyEntry(StoreName(PlainFile(p)), p) =>
              zip' \in [state : {"none", "open", "closed"}, broken : BOOLEAN, entries : Seq(Entry)]
         /\ FaultsOf(StoreName(PlainFile(p)), PlainFile(p)) \subseteq
              {"archive", "filelist", "report"}
<1>1. /\ PlainFile(p) \in Envelope /\ StoreName(PlainFile(p)) \in StoredName
      /\ PlainFile(p).path = p
  BY NamesOfEnvelopes DEF PlainFile
<1>2. FaultsOf(StoreName(PlainFile(p)), PlainFile(p)) \subseteq {"archive", "filelist", "report"}
  BY DEF FaultsOf, TypeOK
<1> QED
  BY <1>1, <1>2, ListType, WritesType DEF CopyEntry

LEMMA MainTypes == TypeOK /\ QueueTypeOK' /\ Control /\ Main => TypeOK'
<1> SUFFICES ASSUME TypeOK, QueueTypeOK', Control, Main PROVE TypeOK'
  OBVIOUS
<1> USE DEF mainElse, MainAt
<1> DEFINE Z == [state : {"none", "open", "closed"}, broken : BOOLEAN, entries : Seq(Entry)]
           F == {"archive", "filelist", "report"}
<1>0. zip \in Z /\ faults \subseteq F /\ JsonPath \in Path /\ FilelistPath \in Path
  BY DiagnosticsAssumption DEF TypeOK
<1>1. CASE StartRegistrar
  BY <1>1 DEF StartRegistrar, TypeOK, MainPc
<1>2. CASE ReturnEarly
  BY <1>2 DEF ReturnEarly, TypeOK, ProcessState
<1>3. CASE CreateZip
  <2>1. zip' \in Z /\ faults' \subseteq F
    BY <1>0, <1>3 DEF CreateZip
  <2> QED
    BY <1>3, <2>1 DEF CreateZip, TypeOK, MainPc
<1>4. CASE CreateFileList
  <2>1. flags.include \in Seq(Path) /\ << >> \in Seq(Line)
    BY DiagnosticsAssumption, EmptySeq DEF TypeOK
  <2> QED
    BY <1>4, <2>1 DEF CreateFileList, TypeOK, MainPc, ProcessState
<1>5. CASE IncludeFile
  BY <1>5, WalkTypes DEF IncludeFile, TypeOK
<1>6. CASE StartTasks
  <2>1. /\ worker' \in [pc : WorkerPc, task : Task \cup {NoTask}]
        /\ collector' \in [pc : CollectorPc, folder : Folder \cup {NoFolder}, todo : Seq(Envelope),
                           names : SUBSET StoredName, paths : SUBSET Path, files : Seq(Envelope)]
    BY <1>6 DEF StartTasks, TypeOK, WorkerPc, CollectorPc
  <2>2. wg' \in 0 .. 2
    BY <1>6 DEF StartTasks
  <2> QED
    BY <1>6, <2>1, <2>2 DEF StartTasks, TypeOK, MainPc
<1>7. CASE WriteLineResult
  <2>1. resultsCh' \in Chan /\ Len(resultsCh'.buf) <= Capacity
    BY <1>7, ChannelTypes DEF WriteLineResult, TypeOK
  <2>2. process' \in ProcessState
    BY <1>7 DEF WriteLineResult, TypeOK, ProcessState
  <2>3. Append(outputResults, Head(resultsCh.buf)) \in Seq(Task)
    BY <1>7, HeadTypes, AppendProperties DEF WriteLineResult, TypeOK
  <2>4. outputResults' \in Seq(Task)
    BY <1>7, <2>3 DEF WriteLineResult, TypeOK
  <2> QED
    BY <1>7, <2>1, <2>2, <2>4 DEF WriteLineResult, TypeOK
<1>8. CASE ResultsWritten
  BY <1>8 DEF ResultsWritten, TypeOK, MainPc
<1>9. CASE WaitGroup
  BY <1>9 DEF WaitGroup, TypeOK, MainPc
<1>10. CASE WriteOutputFile
  BY <1>10 DEF WriteOutputFile, TypeOK, MainPc
<1>11. CASE CopyOutputToZip
  <2>1. flags.script \in Seq(Path)
    BY DiagnosticsAssumption DEF TypeOK
  <2>2. filelist' \in Seq(Line) /\ zip' \in Z /\ faults' \subseteq F
    BY <1>0, <1>11, OwnFileTypes DEF CopyOutputToZip, TypeOK
  <2> QED
    BY <1>11, <2>1, <2>2 DEF CopyOutputToZip, TypeOK, MainPc
<1>12. CASE CopyScriptOutput
  BY <1>12, WalkTypes DEF CopyScriptOutput, TypeOK
<1>13. CASE CopyFileListToZip
  <2>1. filelist' \in Seq(Line) /\ zip' \in Z /\ faults' \subseteq F
    BY <1>0, <1>13, OwnFileTypes DEF CopyFileListToZip
  <2> QED
    BY <1>13, <2>1 DEF CopyFileListToZip, TypeOK, MainPc
<1>14. CASE CloseZip
  <2>1. zip' \in Z /\ faults' \subseteq F
    BY <1>0, <1>14, DiagnosticsAssumption DEF CloseZip
  <2> QED
    BY <1>14, <2>1 DEF CloseZip, TypeOK, MainPc
<1>15. CASE ProcessUploads
  <2>1. flags.upload \in BOOLEAN
    BY DiagnosticsAssumption DEF TypeOK
  <2>2. uploaded' \in BOOLEAN
    BY <1>15, <2>1 DEF ProcessUploads, TypeOK
  <2> QED
    BY <1>15, <2>2 DEF ProcessUploads, TypeOK, MainPc, ProcessState
<1>16. CASE ReturnFromMain
  BY <1>16 DEF ReturnFromMain, TypeOK, ProcessState
<1> QED
  BY <1>1, <1>2, <1>3, <1>4, <1>5, <1>6, <1>7, <1>8, <1>9, <1>10, <1>11, <1>12, <1>13, <1>14,
     <1>15, <1>16 DEF Main

----------------------------------------------------------------------------
(***************************************************************************)
(* Where the results are: what the worker has received is, in this order,  *)
(* what main has reported, what is in the channel, and what the worker     *)
(* holds.  A result main panics at is in none of these places, and then    *)
(* the process has ended.                                                  *)
(***************************************************************************)

\* The task that is received and whose result is not yet sent.
Held == IF worker.pc \in {"execute", "publish"} THEN << worker.task >> ELSE << >>

ResultsInOrder ==
  process = "running" => delivered = (outputResults \o resultsCh.buf) \o Held

\* A task has been given its dependencies' results when it has been executed.
GivenToExecuted ==
  DOMAIN given = Received \ (IF worker.pc = "execute" THEN {worker.task} ELSE {})

\* The task the worker is to execute, or to publish, is the last it has received.
AtLast ==
  worker.pc \in {"execute", "publish"} =>
    delivered # << >> /\ delivered[Len(delivered)] = worker.task

\* What is in the report is everything.
ReportIsAll ==
  /\ json # NoReport => closed /\ json = delivered
  /\ main \in Drained /\ process = "running" => outputResults = delivered

\* Nothing is registered in a run that asked for a suite nobody defined.
NoneRegistered ==
  flags.badSuite => ~closed /\ sending = NoTask /\ main \notin Drained

Flow == ResultsInOrder /\ GivenToExecuted /\ AtLast /\ ReportIsAll /\ NoneRegistered

\* The inductive invariant of a run.
DiagnosticsInv == TypeOK /\ QueueInv /\ Control /\ Flow

\* Moving an element from one sequence to the next leaves what they are together.
LEMMA MoveAlong ==
  ASSUME NEW S, NEW a \in Seq(S), NEW b \in Seq(S), NEW t \in S
  PROVE  /\ (a \o b) \o << >> = a \o b
         /\ (a \o b) \o << t >> = Append(a \o b, t)
         /\ (a \o Append(b, t)) \o << >> = (a \o b) \o << t >>
<1>1. a \o b \in Seq(S) /\ << >> \in Seq(S) /\ << t >> \in Seq(S)
  BY ConcatProperties, EmptySeq
<1>2. a \o << >> = a /\ (a \o b) \o << >> = a \o b
  BY <1>1, ConcatEmptySeq
<1>3. \A s \in Seq(S), u \in S : Append(s, u) = s \o << u >>
  BY AppendIsConcat
<1>4. a \o Append(b, t) = (a \o b) \o << t >>
  BY <1>1, <1>3, ConcatAssociative
<1>6. (a \o b) \o << t >> = Append(a \o b, t)
  BY <1>1, <1>3
<1>7. (a \o Append(b, t)) \o << >> = a \o Append(b, t)
  <2>1. a \o Append(b, t) \in Seq(S)
    BY AppendProperties, ConcatProperties
  <2> QED
    BY <2>1, ConcatEmptySeq
<1> QED
  BY <1>2, <1>4, <1>6, <1>7

\* Moving the head of one to the end of the other, too.
LEMMA MoveHead ==
  ASSUME NEW S, NEW a \in Seq(S), NEW b \in Seq(S), b # << >>
  PROVE  Append(a, Head(b)) \o Tail(b) = a \o b
<1>1. Head(b) \in S /\ Tail(b) \in Seq(S) /\ << Head(b) >> \in Seq(S)
  BY HeadTailProperties
<1>2. << Head(b) >> \o Tail(b) = b
  OBVIOUS
<1>3. Append(a, Head(b)) = a \o << Head(b) >>
  BY <1>1, AppendIsConcat
<1> QED
  BY <1>1, <1>2, <1>3, ConcatAssociative

\* What the worker has received, after one task more.
LEMMA ReceivedMore ==
  ASSUME delivered \in Seq(Task), NEW t \in Task, delivered' = Append(delivered, t)
  PROVE  /\ Received' = Received \cup {t}
         /\ delivered' # << >> /\ delivered'[Len(delivered')] = t
BY AppendProperties DEF Received

LEMMA InitFlow == Init => Flow
<1> SUFFICES ASSUME Init PROVE Flow
  OBVIOUS
<1>1. /\ delivered = << >> /\ outputResults = << >> /\ resultsCh.buf = << >> /\ worker.pc = "off"
      /\ given = << >> /\ json = NoReport /\ main = "start" /\ ~closed /\ sending = NoTask
  BY DEF Init, QueueInit
<1>2. << >> \o << >> = << >>
  BY EmptySeq, ConcatEmptySeq
<1>3. Received = {} /\ DOMAIN given = {}
  BY <1>1 DEF Received
<1> QED
  BY <1>1, <1>2, <1>3 DEF Flow, ResultsInOrder, GivenToExecuted, AtLast, ReportIsAll,
                          NoneRegistered, Held, Drained

LEMMA WorkerFlow == DiagnosticsInv /\ TypeOK' /\ Worker => Flow'
<1> SUFFICES ASSUME DiagnosticsInv, TypeOK', Worker PROVE Flow'
  OBVIOUS
<1> USE DEF workerElse, WorkerAt
<1>0. /\ delivered \in Seq(Task) /\ outputResults \in Seq(Task) /\ resultsCh.buf \in Seq(Task)
      /\ Flow /\ Control /\ resultsCh \in Chan
      /\ worker \in [pc : WorkerPc, task : Task \cup {NoTask}]
  BY DEF DiagnosticsInv, TypeOK, QueueTypeOK, Chan
<1>a. CASE ReceiveTask
  <2>1. /\ sending \in Task /\ delivered' = Append(delivered, sending) /\ ~closed
        /\ sending \notin Received
    BY <1>a DEF ReceiveTask, Deliver, DiagnosticsInv, TypeOK, QueueTypeOK, QueueInv, SendingIsTop,
                ClosedAtTheEnd
  <2>2. /\ worker.pc = "receive" /\ worker' = [pc |-> "execute", task |-> sending]
        /\ UNCHANGED <<process, main, given, outputResults, resultsCh, json, closed, flags>>
        /\ process = "running" /\ sending' = NoTask
    BY <1>a DEF ReceiveTask, Deliver
  <2>3. /\ Received' = Received \cup {sending}
        /\ delivered' # << >> /\ delivered'[Len(delivered')] = sending
    BY <1>0, <2>1, ReceivedMore
  <2>4. ResultsInOrder'
    <3>1. delivered = outputResults \o resultsCh.buf
      BY <1>0, <2>1, <2>2, MoveAlong DEF Flow, ResultsInOrder, Held
    <3>2. delivered' = (outputResults \o resultsCh.buf) \o << sending >>
      <4>1. (outputResults \o resultsCh.buf) \o << sending >> =
              Append(outputResults \o resultsCh.buf, sending)
        BY <1>0, <2>1, MoveAlong
      <4> QED
        BY <2>1, <3>1, <4>1
    <3> QED
      BY <2>2, <3>2 DEF ResultsInOrder, Held
  <2>5. GivenToExecuted' /\ AtLast'
    BY <1>0, <2>1, <2>2, <2>3 DEF Flow, GivenToExecuted, AtLast
  <2>6. main \notin Drained /\ json = NoReport
    BY <1>0, <2>1, <2>2 DEF Flow, ReportIsAll, Control, ClosedInOrder
  <2> QED
    BY <1>0, <2>2, <2>4, <2>5, <2>6 DEF Flow, ReportIsAll, NoneRegistered
<1>b. CASE ProcessTask
  <2>1. /\ UNCHANGED <<main, outputResults, resultsCh, json, queueVars, flags>>
        /\ process = "running" /\ worker.pc = "execute"
        /\ \/ UNCHANGED <<worker, given>> /\ process' = "crashed"
           \/ /\ worker' = [worker EXCEPT !.pc = "publish"] /\ UNCHANGED process
              /\ DOMAIN given' = DOMAIN given \cup {worker.task}
    BY <1>b DEF ProcessTask
  <2>2. delivered' = delivered /\ Received' = Received /\ closed' = closed /\ sending' = sending
    BY <2>1 DEF queueVars, Received
  <2>3. worker.task \in Received
    BY <1>0, <2>1 DEF Flow, AtLast, Received
  <2>4. GivenToExecuted' /\ AtLast' /\ ResultsInOrder'
    BY <1>0, <2>1, <2>2, <2>3 DEF Flow, GivenToExecuted, AtLast, ResultsInOrder, Held
  <2> QED
    BY <1>0, <2>1, <2>2, <2>4 DEF Flow, ReportIsAll, NoneRegistered
<1>c. CASE PublishResult
  <2>1. /\ UNCHANGED <<main, process, given, outputResults, json, queueVars, flags>>
        /\ process = "running" /\ worker.pc = "publish"
        /\ worker'.pc \in {"files", "receive"}
        /\ resultsCh'.buf = Append(resultsCh.buf, worker.task)
    BY <1>0, <1>c DEF PublishResult, Chan
  <2>2. delivered' = delivered /\ Received' = Received /\ closed' = closed /\ sending' = sending
    BY <2>1 DEF queueVars, Received
  <2>3. ResultsInOrder'
    <3>1. worker.task \in Task
      BY <1>0, <2>1 DEF Control, WorkerHasTask
    <3>2. delivered = (outputResults \o resultsCh.buf) \o << worker.task >>
      BY <1>0, <2>1 DEF Flow, ResultsInOrder, Held
    <3>3. delivered' = (outputResults \o resultsCh'.buf) \o << >>
      <4>1. (outputResults \o Append(resultsCh.buf, worker.task)) \o << >> =
              (outputResults \o resultsCh.buf) \o << worker.task >>
        BY <1>0, <3>1, MoveAlong
      <4> QED
        BY <2>1, <2>2, <3>2, <4>1
    <3> QED
      BY <2>1, <3>3 DEF ResultsInOrder, Held
  <2> QED
    BY <1>0, <2>1, <2>2, <2>3 DEF Flow, ReportIsAll, NoneRegistered, GivenToExecuted, AtLast
<1>d. CASE WorkQueueClosed \/ PublishFiles \/ CloseResults \/ CloseFiles \/ WorkerDone
  <2>1. /\ UNCHANGED <<main, process, given, outputResults, json, queueVars, flags>>
        /\ worker.pc \notin {"execute", "publish"} /\ worker'.pc \notin {"execute", "publish"}
        /\ resultsCh'.buf = resultsCh.buf
    BY <1>0, <1>d DEF WorkQueueClosed, PublishFiles, CloseResults, CloseFiles, WorkerDone, Chan
  <2>2. delivered' = delivered /\ Received' = Received /\ closed' = closed /\ sending' = sending
    BY <2>1 DEF queueVars, Received
  <2> QED
    BY <1>0, <2>1, <2>2 DEF Flow, ReportIsAll, NoneRegistered, GivenToExecuted, AtLast,
                            ResultsInOrder, Held
<1> QED
  BY <1>a, <1>b, <1>c, <1>d DEF Worker

LEMMA MainFlow == DiagnosticsInv /\ TypeOK' /\ Main => Flow'
<1> SUFFICES ASSUME DiagnosticsInv, TypeOK', Main PROVE Flow'
  OBVIOUS
<1> USE DEF mainElse, MainAt
<1>0. /\ delivered \in Seq(Task) /\ outputResults \in Seq(Task) /\ resultsCh.buf \in Seq(Task)
      /\ Flow /\ Control /\ resultsCh \in Chan
      /\ worker \in [pc : WorkerPc, task : Task \cup {NoTask}]
  BY DEF DiagnosticsInv, TypeOK, QueueTypeOK, Chan
<1>a. CASE WriteLineResult
  <2> DEFINE t == Head(resultsCh.buf)
  <2>1. /\ UNCHANGED <<queueVars, main, worker, given, json, flags>>
        /\ process = "running" /\ main = "results" /\ resultsCh.buf # << >>
        /\ resultsCh'.buf = Tail(resultsCh.buf)
        /\ \/ process' = "crashed" /\ UNCHANGED outputResults
           \/ UNCHANGED process /\ outputResults' = Append(outputResults, t)
    BY <1>0, <1>a DEF WriteLineResult, Chan
  <2>2. delivered' = delivered /\ Received' = Received /\ closed' = closed /\ sending' = sending
    BY <2>1 DEF queueVars, Received
  <2>3. ResultsInOrder'
    <3>1. Append(outputResults, t) \o Tail(resultsCh.buf) = outputResults \o resultsCh.buf
      BY <1>0, <2>1, MoveHead
    <3> QED
      BY <1>0, <2>1, <2>2, <3>1 DEF Flow, ResultsInOrder, Held
  <2> QED
    BY <1>0, <2>1, <2>2, <2>3 DEF Flow, ReportIsAll, NoneRegistered, GivenToExecuted, AtLast,
                                  Drained
<1>b. CASE ResultsWritten
  <2>1. /\ UNCHANGED <<queueVars, process, worker, given, json, flags, outputResults, resultsCh>>
        /\ process = "running" /\ resultsCh.buf = << >> /\ resultsCh.closed
    BY <1>b DEF ResultsWritten
  <2>2. delivered' = delivered /\ Received' = Received /\ closed' = closed /\ sending' = sending
    BY <2>1 DEF queueVars, Received
  <2>3. worker.pc \in {"closeFiles", "done", "returned"} /\ closed
    BY <1>0, <2>1 DEF Control, ClosedInOrder
  <2>4. outputResults' = delivered'
    <3>1. delivered = (outputResults \o << >>) \o << >>
      BY <1>0, <2>1, <2>3 DEF Flow, ResultsInOrder, Held
    <3>2. outputResults \o << >> = outputResults
      BY <1>0, ConcatEmptySeq
    <3> QED
      BY <2>1, <2>2, <3>1, <3>2
  <2> QED
    BY <1>0, <2>1, <2>2, <2>3, <2>4 DEF Flow, ReportIsAll, NoneRegistered, GivenToExecuted, AtLast,
                                        ResultsInOrder, Held
<1>c. CASE WriteOutputFile
  <2>1. /\ UNCHANGED <<queueVars, process, worker, given, flags, outputResults, resultsCh>>
        /\ process = "running" /\ main = "json" /\ main' = "copyOutput"
        /\ json' \in {json, outputResults}
    BY <1>c DEF WriteOutputFile
  <2>2. delivered' = delivered /\ Received' = Received /\ closed' = closed /\ sending' = sending
    BY <2>1 DEF queueVars, Received
  <2>3. closed /\ outputResults = delivered
    BY <1>0, <2>1 DEF Control, ClosedInOrder, Drained, Flow, ReportIsAll
  <2> QED
    BY <1>0, <2>1, <2>2, <2>3 DEF Flow, ReportIsAll, NoneRegistered, GivenToExecuted, AtLast,
                                  ResultsInOrder, Held, Drained
<1>d. CASE StartTasks
  <2>1. /\ UNCHANGED <<queueVars, process, given, json, flags, outputResults, resultsCh>>
        /\ worker.pc = "off" /\ worker'.pc = "receive" /\ main' = "results"
    BY <1>0, <1>d DEF StartTasks, Control, WaitGroupCounts, Setup
  <2>2. delivered' = delivered /\ Received' = Received /\ closed' = closed /\ sending' = sending
    BY <2>1 DEF queueVars, Received
  <2> QED
    BY <1>0, <2>1, <2>2 DEF Flow, ReportIsAll, NoneRegistered, GivenToExecuted, AtLast,
                            ResultsInOrder, Held, Drained
<1>e. CASE \/ StartRegistrar \/ ReturnEarly \/ CreateZip \/ CreateFileList \/ IncludeFile
           \/ WaitGroup \/ CopyOutputToZip \/ CopyScriptOutput \/ CopyFileListToZip
           \/ CloseZip \/ ProcessUploads \/ ReturnFromMain
  <2>1. /\ UNCHANGED <<queueVars, worker, given, json, flags, outputResults, resultsCh>>
        /\ process = "running"
        /\ main' \in Drained => main \in Drained
    BY <1>e DEF StartRegistrar, ReturnEarly, CreateZip, CreateFileList, IncludeFile, WaitGroup,
                CopyOutputToZip, CopyScriptOutput, CopyFileListToZip, CloseZip, ProcessUploads,
                ReturnFromMain, Drained
  <2>2. delivered' = delivered /\ Received' = Received /\ closed' = closed /\ sending' = sending
    BY <2>1 DEF queueVars, Received
  <2> QED
    BY <1>0, <2>1, <2>2 DEF Flow, ReportIsAll, NoneRegistered, GivenToExecuted, AtLast,
                            ResultsInOrder, Held
<1> QED
  BY <1>a, <1>b, <1>c, <1>d, <1>e DEF Main

\* The collector and the producers have no part in it.
LEMMA CollectorFlow ==
  DiagnosticsInv /\ (Collector \/ \E s \in Stream : CloseStream(s)) => Flow'
<1> SUFFICES ASSUME DiagnosticsInv, Collector \/ \E s \in Stream : CloseStream(s) PROVE Flow'
  OBVIOUS
<1>1. /\ UNCHANGED <<queueVars, worker, main, given, json, flags, outputResults, resultsCh>>
      /\ process' = "running" => process = "running"
  BY DEF Collector, ReceiveFiles, ProcessEnvelope, FilesChannelClosed, CopyFile, OpenStream,
         ReadChunk, EndStream, FilesCopied, CollectorDone, CloseStream, collectorElse, CollectorAt
<1>2. delivered' = delivered /\ Received' = Received /\ closed' = closed /\ sending' = sending
  BY <1>1 DEF queueVars, Received
<1> QED
  BY <1>1, <1>2 DEF DiagnosticsInv, Flow, ReportIsAll, NoneRegistered, GivenToExecuted, AtLast,
                    ResultsInOrder, Held

\* The registrar, before its send is received, changes nothing the worker and
\* main go by, and closes the queue only in a run it does not stop.
LEMMA RegisterSteps ==
  DiagnosticsInv /\ QueueInv' /\ Register => TypeOK' /\ Control' /\ Flow'
<1> SUFFICES ASSUME DiagnosticsInv, QueueInv', Register PROVE TypeOK' /\ Control' /\ Flow'
  OBVIOUS
<1>1. UNCHANGED procVars /\ RegistrarStep /\ ~flags.badSuite
  BY DEF Register
<1>2. delivered' = delivered /\ Received' = Received /\ (closed => closed')
  BY <1>1 DEF RegistrarStep, AddTask, AddTasksByIdentifier, Enqueue, AlreadyQueued,
              CompleteTaskRegistration, Received
<1>3. TypeOK'
  BY <1>1 DEF DiagnosticsInv, QueueInv, TypeOK, procVars
<1>4. Control'
  BY <1>1, <1>2 DEF DiagnosticsInv, procVars, Control, WaitGroupCounts, ClosedInOrder,
                    WorkerHasTask, ZipState, ReadsStream
<1>5. Flow'
  BY <1>1, <1>2 DEF DiagnosticsInv, procVars, Flow, ReportIsAll, NoneRegistered, GivenToExecuted,
                    AtLast, ResultsInOrder, Held
<1> QED
  BY <1>3, <1>4, <1>5

\* The end of the process, and the producers, change nothing of the control.
LEMMA OtherSteps ==
  ASSUME DiagnosticsInv, QueueInv',
         SuiteError \/ (\E s \in Stream : CloseStream(s)) \/ UNCHANGED vars
  PROVE  TypeOK' /\ Control' /\ Flow'
<1>1. CASE SuiteError
  <2>1. TypeOK'
    BY <1>1 DEF SuiteError, DiagnosticsInv, QueueInv, TypeOK, ProcessState, queueVars
  <2>2. Control'
    BY <1>1 DEF SuiteError, DiagnosticsInv, Control, WaitGroupCounts, ClosedInOrder,
                WorkerHasTask, ZipState, ReadsStream, queueVars
  <2>3. Flow'
    BY <1>1 DEF SuiteError, Registering, DiagnosticsInv, Flow, ReportIsAll, NoneRegistered,
                GivenToExecuted, AtLast, ResultsInOrder, Held, Received, queueVars
  <2> QED
    BY <2>1, <2>2, <2>3
<1>2. ASSUME NEW s \in Stream, CloseStream(s)
      PROVE  TypeOK' /\ Control' /\ Flow'
  <2> USE <1>2 DEF CloseStream, collectorElse
  <2>1. stream' \in [Stream -> [state : {"idle", "open", "closed"}, sent : Nat]]
    BY DEF DiagnosticsInv, TypeOK
  <2>2. TypeOK'
    BY <2>1 DEF DiagnosticsInv, QueueInv, TypeOK, queueVars
  <2>3. Control'
    BY DEF DiagnosticsInv, Control, WaitGroupCounts, ClosedInOrder, WorkerHasTask, ZipState,
           ReadsStream, queueVars
  <2> QED
    BY <2>2, <2>3, CollectorFlow
<1>3. CASE UNCHANGED vars
  <2> USE <1>3 DEF vars, procVars, queueVars
  <2>1. TypeOK'
    BY DEF DiagnosticsInv, QueueInv, TypeOK
  <2>2. Control'
    BY DEF DiagnosticsInv, Control, WaitGroupCounts, ClosedInOrder, WorkerHasTask, ZipState,
           ReadsStream
  <2>3. Flow'
    BY DEF DiagnosticsInv, Flow, ReportIsAll, NoneRegistered, GivenToExecuted, AtLast,
           ResultsInOrder, Held, Received
  <2> QED
    BY <2>1, <2>2, <2>3
<1> QED
  BY <1>1, <1>2, <1>3

LEMMA InitDiagnosticsInv == Init => DiagnosticsInv
BY InitInv, InitTypes, InitControl, InitFlow DEF Init, DiagnosticsInv

LEMMA NextDiagnosticsInv == DiagnosticsInv /\ [Next]_vars => DiagnosticsInv'
<1> SUFFICES ASSUME DiagnosticsInv, [Next]_vars PROVE DiagnosticsInv'
  OBVIOUS
<1>1. QueueInv' /\ QueueTypeOK'
  BY StepOfQueue, NextInv DEF DiagnosticsInv, QueueInv
<1>2. Shape /\ QueueTypeOK
  BY TypesGiveShape DEF DiagnosticsInv, QueueInv
<1>3. CASE Register
  BY <1>1, <1>3, RegisterSteps DEF DiagnosticsInv
<1>4. CASE Worker
  BY <1>1, <1>2, <1>4, WorkerControl, WorkerTypes, WorkerFlow DEF DiagnosticsInv
<1>5. CASE Collector
  BY <1>1, <1>2, <1>5, CollectorControl, CollectorTypes, CollectorFlow DEF DiagnosticsInv
<1>6. CASE Main
  BY <1>1, <1>2, <1>6, MainControl, MainTypes, MainFlow DEF DiagnosticsInv
<1>7. CASE SuiteError \/ (\E s \in Stream : CloseStream(s)) \/ UNCHANGED vars
  BY <1>1, <1>7, OtherSteps DEF DiagnosticsInv
<1> QED
  BY <1>3, <1>4, <1>5, <1>6, <1>7 DEF Next, Ended

\* In every state a run can reach, the invariant holds.
THEOREM RunInvariant == Spec => []DiagnosticsInv
BY InitDiagnosticsInv, NextDiagnosticsInv, PTL DEF Spec

\* The state of every run is well typed: its channels never hold more than their
\* capacity, and the wait group's counter never goes below zero.
THEOREM RunTypeCorrect == Spec => []TypeOK
<1>1. DiagnosticsInv => TypeOK
  BY DEF DiagnosticsInv
<1> QED
  BY <1>1, RunInvariant, PTL

----------------------------------------------------------------------------
(***************************************************************************)
(* What the invariant implies.                                             *)
(***************************************************************************)

LEMMA ReportIsClosure == DiagnosticsInv => ReportComplete
<1> SUFFICES ASSUME DiagnosticsInv, json # NoReport
             PROVE  /\ IsClosureOf(Range(json), request)
                    /\ \A i, j \in DOMAIN json : i # j => json[i] # json[j]
  BY DEF ReportComplete
<1>1. closed /\ json = delivered
  BY DEF DiagnosticsInv, Flow, ReportIsAll
<1>2. QueueIsClosure /\ DeliveredOnce
  BY InvImpliesClosure DEF DiagnosticsInv, QueueInv
<1>3. Range(json) = {delivered[i] : i \in DOMAIN delivered}
  BY <1>1 DEF Range
<1> QED
  BY <1>1, <1>2, <1>3 DEF QueueIsClosure, DeliveredOnce

\* The report, once it is written, holds what was asked for with everything it
\* depends on, each task once: through the two channels and the three goroutines
\* of any run no result is lost, repeated or made up.
THEOREM RunReportComplete == Spec => []ReportComplete
BY ReportIsClosure, RunInvariant, PTL

LEMMA ZipHasOneUser == DiagnosticsInv => OneZipUser
BY DEF DiagnosticsInv, Control, WaitGroupCounts, OneZipUser, ZipUsers, Setup, Drained, Waited

\* While the collector copies, main leaves the archive alone: the wait group
\* keeps two goroutines from writing one zip.Writer.
THEOREM RunOneZipUser == Spec => []OneZipUser
BY ZipHasOneUser, RunInvariant, PTL

LEMMA UploadedIsFinal == DiagnosticsInv => UploadIsFinal
BY DEF DiagnosticsInv, Control, WaitGroupCounts, ZipState, UploadIsFinal, Setup, Drained, Waited,
       TypeOK, WorkerPc, CollectorPc

\* What is uploaded is closed, and nobody is left who could write to it.
THEOREM RunUploadIsFinal == Spec => []UploadIsFinal
BY UploadedIsFinal, RunInvariant, PTL

LEMMA SuiteErrorReportsNothing == DiagnosticsInv => SuiteErrorStopsRun
BY DEF DiagnosticsInv, Control, ZipState, Flow, ReportIsAll, NoneRegistered, SuiteErrorStopsRun,
       Drained

\* A run that asked for a suite nobody defined never reports, closes its archive
\* or uploads, wherever os.Exit catches the other goroutines.
THEOREM RunSuiteErrorStopsRun == Spec => []SuiteErrorStopsRun
BY SuiteErrorReportsNothing, RunInvariant, PTL

LEMMA ReadsAfterTasks ==
  DiagnosticsInv /\ [Next]_vars =>
    [\A s \in Stream : stream'[s].sent > stream[s].sent =>
       closed /\ filesCh.closed /\ worker.pc \in {"done", "returned"}]_vars
<1> SUFFICES ASSUME DiagnosticsInv, Next, NEW s \in Stream, stream'[s].sent > stream[s].sent
             PROVE  closed /\ filesCh.closed /\ worker.pc \in {"done", "returned"}
  OBVIOUS
<1>0. stream \in [Stream -> [state : {"idle", "open", "closed"}, sent : Nat]]
  BY DEF DiagnosticsInv, TypeOK
<1>1. CASE ReadChunk
  <2>1. collector.pc \in {"stream", "noWriter"}
    BY <1>1 DEF ReadChunk
  <2> QED
    BY <2>1 DEF DiagnosticsInv, Control, ClosedInOrder
<1>2. ASSUME ~ReadChunk
      PROVE  stream'[s].sent = stream[s].sent \/ stream'[s].sent = 0
  <2>1. CASE Register \/ SuiteError \/ Ended
    BY <2>1 DEF Register, SuiteError, Ended, vars, procVars
  <2>2. CASE ProcessTask
    BY <1>0, <2>2 DEF ProcessTask
  <2>3. CASE Worker /\ ~ProcessTask
    BY <2>3 DEF Worker, ReceiveTask, WorkQueueClosed, PublishResult, PublishFiles, CloseResults,
                CloseFiles, WorkerDone
  <2>4. CASE Collector
    BY <1>2, <2>4 DEF Collector, ReceiveFiles, ProcessEnvelope, FilesChannelClosed, CopyFile,
                      OpenStream, EndStream, FilesCopied, CollectorDone
  <2>5. CASE \E r \in Stream : CloseStream(r)
    BY <1>0, <2>5 DEF CloseStream
  <2>6. CASE Main
    BY <2>6 DEF Main, StartRegistrar, ReturnEarly, CreateZip, CreateFileList, IncludeFile,
                StartTasks, WriteLineResult, ResultsWritten, WaitGroup, WriteOutputFile,
                CopyOutputToZip, CopyScriptOutput, CopyFileListToZip, CloseZip, ProcessUploads,
                ReturnFromMain, mainElse
  <2> QED
    BY <2>1, <2>2, <2>3, <2>4, <2>5, <2>6 DEF Next
<1> QED
  BY <1>0, <1>1, <1>2

\* "These streams are then consumed after all tasks have completed": no string of
\* a stream is read before the worker has executed every task and closed its
\* channels.
THEOREM RunStreamsAfterTasks == Spec => StreamsAfterTasks
BY ReadsAfterTasks, RunInvariant, PTL DEF Spec, StreamsAfterTasks

----------------------------------------------------------------------------
(***************************************************************************)
(* What a task is executed with.                                           *)
(***************************************************************************)

\* A task that is executed, or about to be, comes after what it depends on, and
\* the one about to be has not been executed before.
LEMMA ExecutedInOrder ==
  ASSUME DiagnosticsInv
  PROVE  /\ \A t \in DOMAIN given : DependenciesOf(t) \subseteq DOMAIN given
         /\ worker.pc = "execute" =>
              /\ worker.task \in Task \ DOMAIN given
              /\ DependenciesOf(worker.task) \subseteq DOMAIN given
<1>0. PICK n \in Nat : n = Len(delivered)
  BY LenProperties DEF DiagnosticsInv, QueueInv, QueueTypeOK
<1>1. /\ DependenciesFirst /\ DeliveredOnce /\ delivered \in Seq(Task)
      /\ GivenToExecuted /\ AtLast /\ WorkerHasTask
  BY DEF DiagnosticsInv, QueueInv, QueueTypeOK, Flow, Control
<1>2. DOMAIN delivered = 1 .. n
  BY <1>0, <1>1, LenProperties
<1>3. ASSUME NEW i \in 1 .. n, NEW d \in DependenciesOf(delivered[i])
      PROVE  d \in DOMAIN given
  <2>1. PICK j \in 1 .. (i - 1) : delivered[j] = d
    BY <1>1, <1>2 DEF DependenciesFirst
  <2>2. j \in 1 .. n /\ n \in 1 .. n /\ j # n
    BY <1>2
  <2>3. d \in Received
    BY <1>2, <2>1, <2>2 DEF Received
  <2>4. worker.pc = "execute" => worker.task = delivered[n]
    BY <1>0, <1>1 DEF AtLast
  <2>5. worker.pc = "execute" => d # worker.task
    BY <1>1, <1>2, <2>1, <2>2, <2>4 DEF DeliveredOnce
  <2> QED
    BY <1>1, <2>3, <2>5 DEF GivenToExecuted
<1>4. ASSUME NEW t \in DOMAIN given
      PROVE  DependenciesOf(t) \subseteq DOMAIN given
  <2>1. PICK i \in 1 .. n : delivered[i] = t
    BY <1>1, <1>2 DEF GivenToExecuted, Received
  <2> QED
    BY <1>3, <2>1
<1>5. ASSUME worker.pc = "execute"
      PROVE  /\ worker.task \in Task \ DOMAIN given
             /\ DependenciesOf(worker.task) \subseteq DOMAIN given
  <2>1. delivered[n] = worker.task /\ n \in 1 .. n
    BY <1>0, <1>1, <1>5, EmptySeq DEF AtLast
  <2> QED
    BY <1>1, <1>3, <1>5, <2>1 DEF GivenToExecuted, WorkerHasTask
<1> QED
  BY <1>4, <1>5

\* Every dependency is written as the identifier of the task it names, which is
\* how tasks are keyed in Work.Results. The search for tasks to queue does not
\* need this: it ignores the case of letters.
ExactNames ==
  \A t \in Task : \A ref \in Range(Dependencies[t]) :
    TasksForIdentifierString(ref) \subseteq {Key[ref]}

\* DependencyResultsPassed, with the names that a task is given results under.
GivenDependencies ==
  /\ \A t \in DOMAIN given : DOMAIN given[t] = Range(Dependencies[t])
  /\ DependencyResultsPassed

\* Only ProcessTask stores results and passes them on.
LEMMA OnlyProcessTask ==
  ASSUME [Next]_vars, ~ProcessTask
  PROVE  UNCHANGED <<results, given>>
<1>1. CASE Register \/ SuiteError \/ Ended \/ UNCHANGED vars
  BY <1>1 DEF Register, SuiteError, Ended, vars, procVars
<1>2. CASE Worker
  BY <1>2 DEF Worker, ReceiveTask, WorkQueueClosed, PublishResult, PublishFiles, CloseResults,
              CloseFiles, WorkerDone
<1>3. CASE Collector
  BY <1>3 DEF Collector, ReceiveFiles, ProcessEnvelope, FilesChannelClosed, CopyFile, OpenStream,
              ReadChunk, EndStream, FilesCopied, CollectorDone, collectorElse
<1>4. CASE \E s \in Stream : CloseStream(s)
  BY <1>4 DEF CloseStream, collectorElse
<1>5. CASE Main
  BY <1>5 DEF Main, StartRegistrar, ReturnEarly, CreateZip, CreateFileList, IncludeFile,
              StartTasks, WriteLineResult, ResultsWritten, WaitGroup, WriteOutputFile,
              CopyOutputToZip, CopyScriptOutput, CopyFileListToZip, CloseZip, ProcessUploads,
              ReturnFromMain, mainElse
<1> QED
  BY <1>1, <1>2, <1>3, <1>4, <1>5 DEF Next

LEMMA ProcessTaskPasses ==
  ASSUME ExactNames, DiagnosticsInv, GivenDependencies, ProcessTask
  PROVE  GivenDependencies'
<1> DEFINE t == worker.task
<1>1. /\ t \in Task \ DOMAIN given /\ DependenciesOf(t) \subseteq DOMAIN given
      /\ \A u \in DOMAIN given : DependenciesOf(u) \subseteq DOMAIN given
      /\ DOMAIN given \subseteq Task
      /\ results \in [Task -> Result]
  BY ExecutedInOrder DEF ProcessTask, WorkerAt, DiagnosticsInv, TypeOK
<1>2. \A u \in Task : \A ref \in Range(Dependencies[u]) :
        TasksForIdentifierString(ref) \subseteq DependenciesOf(u)
  BY DEF DependenciesOf, NamedBy, Range
<1>3. CASE UNCHANGED <<results, given>>
  BY <1>3 DEF GivenDependencies, DependencyResultsPassed
<1>4. ASSUME given' = [u \in DOMAIN given \cup {t} |-> IF u = t THEN Upstream(t) ELSE given[u]],
             NEW r, results' = [results EXCEPT ![t] = r]
      PROVE  GivenDependencies'
  <2>1. \A d \in DOMAIN given : results'[d] = results[d]
    BY <1>1, <1>4
  <2>2. DOMAIN Upstream(t) = Range(Dependencies[t])
    BY DEF Upstream
  <2>3. \A u \in DOMAIN given' : DOMAIN given'[u] = Range(Dependencies[u])
    BY <1>4, <2>2 DEF GivenDependencies
  <2>4. ASSUME NEW u \in DOMAIN given, NEW ref \in DOMAIN given[u],
               NEW d \in TasksForIdentifierString(ref)
        PROVE  given[u][ref] = results'[d]
    <3>1. d \in DOMAIN given
      BY <1>1, <1>2 DEF GivenDependencies
    <3> QED
      BY <2>1, <3>1 DEF GivenDependencies, DependencyResultsPassed
  <2>5. ASSUME NEW ref \in DOMAIN Upstream(t), NEW d \in TasksForIdentifierString(ref)
        PROVE  Upstream(t)[ref] = results'[d]
    <3>1. d \in DOMAIN given /\ d = Key[ref]
      BY <1>1, <1>2, <2>2 DEF ExactNames
    <3>2. Key[ref] # NoTask
      BY <1>1, <3>1, NoTaskAssumption
    <3>3. Upstream(t)[ref] = results[d]
      BY <2>2, <3>1, <3>2 DEF Upstream, ResultOf
    <3> QED
      BY <2>1, <3>1, <3>3
  <2>6. DependencyResultsPassed'
    BY <1>1, <1>4, <2>4, <2>5 DEF DependencyResultsPassed
  <2> QED
    BY <2>3, <2>6 DEF GivenDependencies
<1> QED
  BY <1>3, <1>4 DEF ProcessTask

LEMMA StepPasses ==
  ASSUME ExactNames, DiagnosticsInv, GivenDependencies, [Next]_vars
  PROVE  GivenDependencies'
<1>1. CASE ProcessTask
  BY <1>1, ProcessTaskPasses
<1>2. CASE ~ProcessTask
  BY <1>2, OnlyProcessTask DEF GivenDependencies, DependencyResultsPassed
<1> QED
  BY <1>1, <1>2

\* When dependencies are spelled as identifiers, every task of every run is
\* executed with the result that each task it depends on has left, and that
\* result never changes afterwards.
THEOREM RunPassesResults ==
  ASSUME ExactNames
  PROVE  Spec => []DependencyResultsPassed
<1>1. Init => GivenDependencies
  BY DEF Init, GivenDependencies, DependencyResultsPassed
<1>2. DiagnosticsInv /\ GivenDependencies /\ [Next]_vars => GivenDependencies'
  BY StepPasses
<1>3. GivenDependencies => DependencyResultsPassed
  BY DEF GivenDependencies
<1> QED
  BY <1>1, <1>2, <1>3, RunInvariant, PTL DEF Spec

----------------------------------------------------------------------------
(***************************************************************************)
(* What makes a run panic.                                                 *)
(***************************************************************************)

\* The tasks keep what those that trust them assume: a task that reports success
\* has the payload it documents, and ValidateHSM never returns a bare string.
PayloadsKept ==
  /\ \A t \in Task : \A ref \in Trusts[t] : Key[ref] # NoTask =>
       \A r \in Outcomes[Key[ref]] : r.status = "Success" => r.payload = "typed"
  /\ \A t \in Task : t = HsmTask => \A r \in Outcomes[t] : r.payload # "text"

\* A result is the zero value, what Execute returned, or an override's.
ResultsHaveOrigin ==
  \A t \in Task : results[t] = ZeroResult \/ results[t] \in Outcomes[t] \/ Overridden(t)

CrashInv == ResultsHaveOrigin /\ CrashHasCause

\* A task is given nothing it would panic at, unless there is an override.
LEMMA PanicsAtOverride ==
  ASSUME PayloadsKept, TypeOK, ResultsHaveOrigin, NEW t \in Task, Panics(t, Upstream(t))
  PROVE  \E u \in Task : Overridden(u)
<1>1. PICK ref \in Trusts[t] \cap DOMAIN Upstream(t) :
        Upstream(t)[ref].status = "Success" /\ Upstream(t)[ref].payload # "typed"
  BY DEF Panics
<1>2. ref \in Ref /\ Upstream(t)[ref] = ResultOf(ref)
  BY DiagnosticsAssumption DEF Upstream
<1>3. Key[ref] \in Task /\ Upstream(t)[ref] = results[Key[ref]]
  BY <1>1, <1>2, DiagnosticsAssumption DEF ResultOf, ZeroResult
<1>4. results[Key[ref]] # ZeroResult
  BY <1>1, <1>3 DEF ZeroResult
<1>5. results[Key[ref]] \notin Outcomes[Key[ref]]
  BY <1>1, <1>3, NoTaskAssumption DEF PayloadsKept
<1> QED
  BY <1>3, <1>4, <1>5 DEF ResultsHaveOrigin

LEMMA ProcessTaskCrash ==
  ASSUME PayloadsKept, DiagnosticsInv, CrashInv, ProcessTask
  PROVE  CrashInv'
<1> DEFINE t == worker.task
<1>1. /\ t \in Task /\ results \in [Task -> Result] /\ TypeOK
      /\ process = "running" /\ UNCHANGED <<overrides, zip>>
  BY ExecutedInOrder DEF ProcessTask, WorkerAt, workerElse, DiagnosticsInv, TypeOK
<1>2. \A u \in Task : Overridden(u)' = Overridden(u)
  BY <1>1 DEF Overridden
<1>3. \/ results' = results
      \/ \E r : /\ results' = [results EXCEPT ![t] = r]
                /\ r \in Outcomes[t] \/ Overridden(t)
  BY DEF ProcessTask
<1>4. ResultsHaveOrigin'
  BY <1>1, <1>2, <1>3 DEF CrashInv, ResultsHaveOrigin
<1>5. process' = "crashed" => \E u \in Task : Overridden(u)
  BY <1>1, PanicsAtOverride DEF ProcessTask, CrashInv
<1> QED
  BY <1>2, <1>4, <1>5 DEF CrashInv, CrashHasCause

LEMMA WriteLineResultCrash ==
  ASSUME PayloadsKept, DiagnosticsInv, CrashInv, WriteLineResult
  PROVE  CrashInv'
<1> DEFINE t == Head(resultsCh.buf)
<1>1. t \in Task /\ UNCHANGED <<overrides, results>>
  BY HeadTypes DEF WriteLineResult, mainElse, DiagnosticsInv
<1>2. \A u \in Task : Overridden(u)' = Overridden(u)
  BY <1>1 DEF Overridden
<1>3. process' = "crashed" => t = HsmTask /\ results[t].payload = "text"
  BY DEF WriteLineResult, MainAt
<1>4. t = HsmTask /\ results[t].payload = "text" => Overridden(t)
  BY <1>1 DEF CrashInv, ResultsHaveOrigin, PayloadsKept, ZeroResult
<1> QED
  BY <1>1, <1>2, <1>3, <1>4 DEF CrashInv, CrashHasCause, ResultsHaveOrigin

LEMMA ReadChunkCrash ==
  ASSUME DiagnosticsInv, CrashInv, ReadChunk
  PROVE  CrashInv'
<1>1. UNCHANGED <<overrides, results>> /\ process = "running"
  BY DEF ReadChunk, collectorElse
<1>2. \A u \in Task : Overridden(u)' = Overridden(u)
  BY <1>1 DEF Overridden
<1>3. process' = "crashed" => zip'.broken
  BY <1>1 DEF ReadChunk, DiagnosticsInv, Control, ReadsStream
<1> QED
  BY <1>1, <1>2, <1>3 DEF CrashInv, CrashHasCause, ResultsHaveOrigin

\* Nothing else panics, and nothing happens after a panic.
LEMMA OthersNoCrash ==
  ASSUME DiagnosticsInv, CrashInv, [Next]_vars, ~ProcessTask, ~WriteLineResult, ~ReadChunk
  PROVE  CrashInv'
<1>1. UNCHANGED results
  BY OnlyProcessTask
<1>2. /\ UNCHANGED overrides
      /\ \/ process = "running" /\ process' # "crashed"
         \/ UNCHANGED <<process, zip>>
  <2>1. CASE Register \/ SuiteError \/ Ended \/ UNCHANGED vars
    BY <2>1 DEF Register, SuiteError, Registering, Ended, vars, procVars
  <2>2. CASE Worker
    BY <2>2 DEF Worker, ReceiveTask, WorkQueueClosed, PublishResult, PublishFiles, CloseResults,
                CloseFiles, WorkerDone, workerElse, WorkerAt
  <2>3. CASE Collector \/ \E s \in Stream : CloseStream(s)
    BY <2>3 DEF Collector, ReceiveFiles, ProcessEnvelope, FilesChannelClosed, CopyFile, OpenStream,
                EndStream, FilesCopied, CollectorDone, CloseStream, collectorElse, CollectorAt
  <2>4. CASE Main
    BY <2>4 DEF Main, StartRegistrar, ReturnEarly, CreateZip, CreateFileList, IncludeFile,
                StartTasks, ResultsWritten, WaitGroup, WriteOutputFile, CopyOutputToZip,
                CopyScriptOutput, CopyFileListToZip, CloseZip, ProcessUploads, ReturnFromMain,
                mainElse, MainAt
  <2> QED
    BY <2>1, <2>2, <2>3, <2>4 DEF Next
<1>3. \A u \in Task : Overridden(u)' = Overridden(u)
  BY <1>2 DEF Overridden
<1> QED
  BY <1>1, <1>2, <1>3 DEF CrashInv, CrashHasCause, ResultsHaveOrigin

\* Where the tasks keep the payloads that other tasks assert the type of, only an
\* override, or an archive that cannot be written, makes a run panic: the
\* unchecked assertions on payloads that are looked up under a wrong name never
\* do, for the zero value is no success.
THEOREM RunCrashHasCause ==
  ASSUME PayloadsKept
  PROVE  Spec => []CrashHasCause
<1>1. Init => CrashInv
  BY DEF Init, CrashInv, CrashHasCause, ResultsHaveOrigin
<1>2. DiagnosticsInv /\ CrashInv /\ [Next]_vars => CrashInv'
  BY ProcessTaskCrash, WriteLineResultCrash, ReadChunkCrash, OthersNoCrash
<1>3. CrashInv => CrashHasCause
  BY DEF CrashInv
<1> QED
  BY <1>1, <1>2, <1>3, RunInvariant, PTL DEF Spec

----------------------------------------------------------------------------
(***************************************************************************)
(* The run is a DiagnosticRun: initial states map to initial states, steps *)
(* to steps or to nothing.                                                 *)
(***************************************************************************)

LEMMA InitRuns == Init => Run!Init
<1> SUFFICES ASSUME Init PROVE Run!Init
  OBVIOUS
<1>1. Selected(request) \subseteq Task
  BY NeedsType DEF Init, QueueInit
<1>2. PhaseOfRun = "setup"
  BY DEF Init, PhaseOfRun
<1> QED
  BY <1>1, <1>2 DEF Init, Run!Init

\* The phase, by where main is.
LEMMA Phases ==
  ASSUME main \in MainPc, main' \in MainPc
  PROVE  /\ process # "running" => PhaseOfRun = "ended"
         /\ process = "running" =>
              /\ main \in Setup => PhaseOfRun = "setup"
              /\ main = "results" => PhaseOfRun = "executing"
              /\ main \in Drained \ {"upload", "end"} => PhaseOfRun = "reporting"
              /\ main \in {"upload", "end"} => PhaseOfRun = "closed"
         /\ process' # "running" => PhaseOfRun' = "ended"
         /\ process' = "running" =>
              /\ main' \in Setup => PhaseOfRun' = "setup"
              /\ main' = "results" => PhaseOfRun' = "executing"
              /\ main' \in Drained \ {"upload", "end"} => PhaseOfRun' = "reporting"
              /\ main' \in {"upload", "end"} => PhaseOfRun' = "closed"
<1>1. CASE process # "running"
  BY <1>1 DEF PhaseOfRun, MainPc, Setup, Drained
<1>2. CASE process = "running"
  BY <1>2 DEF PhaseOfRun, MainPc, Setup, Drained
<1> QED
  BY <1>1, <1>2

\* A step that ends the process, and leaves what is executed, reported and sent.
LEMMA EndRuns ==
  ASSUME main \in MainPc, process = "running", process' # "running",
         UNCHANGED <<request, main, given, outputResults, uploaded>>
  PROVE  Run!Next
<1>1. PhaseOfRun # "ended" /\ PhaseOfRun' = "ended"
  BY Phases DEF MainPc, Setup, Drained
<1>2. Run!End
  BY <1>1 DEF Run!End
<1> QED
  BY <1>2 DEF Run!Next

\* A step DiagnosticRun does not see: main stays in its phase.
LEMMA StutterRuns ==
  ASSUME main \in MainPc, main' \in MainPc,
         UNCHANGED <<request, process, given, uploaded>>,
         \/ main' = main /\ (main = "results" \/ UNCHANGED outputResults)
         \/ main \in Setup /\ main' \in Setup
         \/ /\ main \in Drained \ {"upload", "end"} /\ main' \in Drained \ {"upload", "end"}
            /\ UNCHANGED outputResults
         \/ {main, main'} \subseteq {"upload", "end"} /\ UNCHANGED outputResults
  PROVE  UNCHANGED Run!vars
<1>1. PhaseOfRun' = PhaseOfRun
  BY Phases DEF MainPc, Setup, Drained
<1> QED
  BY <1>1 DEF Run!vars, Setup, Drained

\* The worker executes a task that has not been executed, after what it depends
\* on, while main writes results.
LEMMA ExecuteRuns == DiagnosticsInv /\ TypeOK' /\ ProcessTask => [Run!Next]_Run!vars
<1> SUFFICES ASSUME DiagnosticsInv, TypeOK', ProcessTask PROVE [Run!Next]_Run!vars
  OBVIOUS
<1> DEFINE t == worker.task
<1>1. /\ t \in Task \ DOMAIN given /\ DependenciesOf(t) \subseteq DOMAIN given
      /\ process = "running" /\ worker.pc = "execute"
      /\ UNCHANGED <<request, main, outputResults, uploaded>>
  BY ExecutedInOrder DEF ProcessTask, WorkerAt, workerElse, queueVars
<1>2. main \in MainPc /\ main' \in MainPc
  BY DEF DiagnosticsInv, TypeOK
<1>3. main = "results"
  <2>1. main \notin Setup
    BY <1>1 DEF DiagnosticsInv, Control, WaitGroupCounts
  <2>2. ~resultsCh.closed
    BY <1>1 DEF DiagnosticsInv, Control, ClosedInOrder
  <2> QED
    BY <1>2, <2>1, <2>2 DEF DiagnosticsInv, Control, ClosedInOrder, MainPc, Setup, Drained
<1>4. CASE process' = "crashed" /\ UNCHANGED given
  BY <1>1, <1>2, <1>4, EndRuns
<1>5. CASE process' = "running" /\ DOMAIN given' = DOMAIN given \cup {t}
  <2>1. PhaseOfRun = "executing" /\ PhaseOfRun' = "executing"
    BY <1>1, <1>2, <1>3, <1>5, Phases
  <2>2. Run!Execute(t)
    BY <1>1, <1>3, <1>5, <2>1 DEF Run!Execute
  <2> QED
    BY <1>1, <2>2 DEF Run!Next
<1> QED
  BY <1>1, <1>4, <1>5 DEF ProcessTask

\* Every other step of the worker, and every step of the collector, goes unseen,
\* unless it ends the process.
LEMMA OthersRun ==
  ASSUME DiagnosticsInv, TypeOK', ~ProcessTask,
         \/ Worker \/ Collector \/ SuiteError \/ Register \/ UNCHANGED vars
         \/ \E s \in Stream : CloseStream(s)
  PROVE  [Run!Next]_Run!vars
<1>1. main \in MainPc /\ main' \in MainPc
  BY DEF DiagnosticsInv, TypeOK
<1>2. UNCHANGED <<request, main, given, outputResults, uploaded>>
  <2>1. CASE Worker
    BY <2>1 DEF Worker, ReceiveTask, Deliver, WorkQueueClosed, PublishResult, PublishFiles,
                CloseResults, CloseFiles, WorkerDone, workerElse, queueVars
  <2>2. CASE Collector \/ \E s \in Stream : CloseStream(s)
    BY <2>2 DEF Collector, ReceiveFiles, ProcessEnvelope, FilesChannelClosed, CopyFile, OpenStream,
                ReadChunk, EndStream, FilesCopied, CollectorDone, CloseStream, collectorElse,
                queueVars
  <2>3. CASE Register
    BY <2>3 DEF Register, procVars, RegistrarStep, AddTask, AddTasksByIdentifier, Enqueue,
                AlreadyQueued, CompleteTaskRegistration
  <2>4. CASE SuiteError \/ UNCHANGED vars
    BY <2>4 DEF SuiteError, vars, procVars, queueVars
  <2> QED
    BY <2>1, <2>2, <2>3, <2>4
<1>3. UNCHANGED process \/ (process = "running" /\ process' # "running")
  BY DEF Worker, ReceiveTask, WorkQueueClosed, PublishResult, PublishFiles, CloseResults,
         CloseFiles, WorkerDone, Collector, ReceiveFiles, ProcessEnvelope, FilesChannelClosed,
         CopyFile, OpenStream, ReadChunk, EndStream, FilesCopied, CollectorDone, CloseStream,
         Register, SuiteError, Registering, procVars, vars
<1> QED
  BY <1>1, <1>2, <1>3, StutterRuns, EndRuns

LEMMA MainRuns == DiagnosticsInv /\ DiagnosticsInv' /\ Main => [Run!Next]_Run!vars
<1> SUFFICES ASSUME DiagnosticsInv, DiagnosticsInv', Main PROVE [Run!Next]_Run!vars
  OBVIOUS
<1> USE DEF mainElse, MainAt, queueVars
<1>1. main \in MainPc /\ main' \in MainPc
  BY DEF DiagnosticsInv, TypeOK
<1>2. CASE StartTasks
  <2>1. /\ process = "running" /\ process' = "running" /\ main \in Setup /\ main' = "results"
        /\ UNCHANGED <<request, given, uploaded>>
    BY <1>2 DEF StartTasks, Setup
  <2>2. PhaseOfRun = "setup" /\ PhaseOfRun' = "executing"
    BY <1>1, <2>1, Phases
  <2>3. Run!StartTasks
    BY <2>1, <2>2 DEF Run!StartTasks, Setup
  <2> QED
    BY <2>3 DEF Run!Next
<1>3. CASE ResultsWritten
  <2>1. /\ process = "running" /\ process' = "running" /\ main = "results" /\ main' = "wait"
        /\ UNCHANGED <<queueVars, given, uploaded>>
    BY <1>3 DEF ResultsWritten
  <2>2. PhaseOfRun = "executing" /\ PhaseOfRun' = "reporting"
    BY <1>1, <2>1, Phases DEF Drained
  <2>3. closed /\ worker.pc # "execute"
    BY <1>3 DEF ResultsWritten, DiagnosticsInv, Control, ClosedInOrder
  <2>4. DOMAIN given = Received
    BY <2>3 DEF DiagnosticsInv, Flow, GivenToExecuted
  <2>5. IsClosureOf(Received, request)
    BY <2>3, InvImpliesClosure DEF DiagnosticsInv, QueueIsClosure, Received
  <2>6. Range(outputResults') = DOMAIN given
    <3>1. outputResults' = delivered'
      BY <2>1 DEF DiagnosticsInv, Flow, ReportIsAll, Drained
    <3> QED
      BY <2>1, <2>4, <3>1 DEF Range, Received
  <2>7. DOMAIN given = Selected(request) \cup
          UNION {[u \in Task |-> DependenciesOf(u)][t] : t \in DOMAIN given}
    <3>1. DOMAIN given \subseteq Task
      BY DEF DiagnosticsInv, TypeOK
    <3> QED
      BY <2>4, <2>5, <3>1 DEF IsClosureOf
  <2>8. Run!Report
    BY <2>1, <2>2, <2>6, <2>7 DEF Run!Report, Run!IsClosure
  <2> QED
    BY <2>8 DEF Run!Next
<1>4. CASE CloseZip
  <2>1. /\ process = "running" /\ process' = "running" /\ main = "closeZip" /\ main' = "upload"
        /\ UNCHANGED <<request, given, uploaded, outputResults>>
    BY <1>4 DEF CloseZip
  <2>2. PhaseOfRun = "reporting" /\ PhaseOfRun' = "closed"
    BY <1>1, <2>1, Phases DEF Drained
  <2>3. Run!CloseArchive
    BY <2>1, <2>2 DEF Run!CloseArchive
  <2> QED
    BY <2>3 DEF Run!Next
<1>5. CASE ProcessUploads
  <2>1. /\ process = "running" /\ main = "upload" /\ main' = "end"
        /\ UNCHANGED <<request, given, outputResults>>
        /\ \/ UNCHANGED process /\ uploaded' = flags.upload
           \/ process' = "failed" /\ UNCHANGED uploaded
    BY <1>5 DEF ProcessUploads
  <2>2. CASE UNCHANGED process
    <3>1. PhaseOfRun = "closed" /\ PhaseOfRun' = "closed"
      BY <1>1, <2>1, <2>2, Phases
    <3>2. uploaded \in BOOLEAN /\ uploaded' \in BOOLEAN
      BY DEF DiagnosticsInv, TypeOK
    <3>3. uploaded = FALSE
      BY <2>1, <3>2 DEF DiagnosticsInv, Control, ZipState
    <3>4. CASE uploaded' = TRUE
      BY <2>1, <3>1, <3>4 DEF Run!Publish, Run!Next
    <3>5. CASE uploaded' = FALSE
      BY <2>1, <3>1, <3>3, <3>5 DEF Run!vars
    <3> QED
      BY <3>2, <3>4, <3>5
  <2>3. CASE process' = "failed" /\ UNCHANGED uploaded
    <3>1. PhaseOfRun # "ended" /\ PhaseOfRun' = "ended"
      BY <1>1, <2>1, <2>3, Phases
    <3> QED
      BY <2>1, <2>3, <3>1 DEF Run!End, Run!Next
  <2> QED
    BY <2>1, <2>2, <2>3
<1>6. CASE WriteLineResult
  <2>1. /\ process = "running" /\ main = "results" /\ UNCHANGED <<request, main, given, uploaded>>
        /\ \/ process' = "crashed" /\ UNCHANGED outputResults
           \/ UNCHANGED process
    BY <1>6 DEF WriteLineResult
  <2> QED
    BY <1>1, <2>1, StutterRuns, EndRuns
<1>7. CASE CreateFileList
  <2>1. /\ process = "running" /\ UNCHANGED <<request, given, uploaded, outputResults>>
        /\ \/ UNCHANGED process /\ main \in Setup /\ main' \in Setup
           \/ process' # "running" /\ UNCHANGED main
    BY <1>7 DEF CreateFileList, Setup
  <2> QED
    BY <1>1, <2>1, StutterRuns, EndRuns
<1>8. CASE ReturnEarly \/ ReturnFromMain
  <2>1. /\ process = "running" /\ process' # "running"
        /\ UNCHANGED <<request, main, given, outputResults, uploaded>>
    BY <1>8 DEF ReturnEarly, ReturnFromMain
  <2> QED
    BY <1>1, <2>1, EndRuns
<1>9. CASE StartRegistrar \/ CreateZip \/ IncludeFile
  <2>1. /\ UNCHANGED <<request, process, given, uploaded>> /\ main \in Setup /\ main' \in Setup
    BY <1>9 DEF StartRegistrar, CreateZip, IncludeFile, Setup
  <2> QED
    BY <1>1, <2>1, StutterRuns
<1>10. CASE WaitGroup \/ WriteOutputFile \/ CopyOutputToZip \/ CopyScriptOutput
            \/ CopyFileListToZip
  <2>1. /\ UNCHANGED <<request, process, given, uploaded, outputResults>>
        /\ main \in Drained \ {"upload", "end"} /\ main' \in Drained \ {"upload", "end"}
    BY <1>10 DEF WaitGroup, WriteOutputFile, CopyOutputToZip, CopyScriptOutput, CopyFileListToZip,
                 Drained
  <2> QED
    BY <1>1, <2>1, StutterRuns
<1> QED
  BY <1>2, <1>3, <1>4, <1>5, <1>6, <1>7, <1>8, <1>9, <1>10 DEF Main

LEMMA NextRuns == DiagnosticsInv /\ DiagnosticsInv' /\ [Next]_vars => [Run!Next]_Run!vars
<1> SUFFICES ASSUME DiagnosticsInv, DiagnosticsInv', [Next]_vars PROVE [Run!Next]_Run!vars
  OBVIOUS
<1>1. TypeOK'
  BY DEF DiagnosticsInv
<1>2. CASE ProcessTask
  BY <1>1, <1>2, ExecuteRuns
<1>3. CASE Main
  BY <1>3, MainRuns
<1> QED
  BY <1>1, <1>2, <1>3, OthersRun DEF Next, Ended

\* Three goroutines, the producers and the channels between them do what one
\* loop would: tasks are executed once each and after what they depend on,
\* everything is reported together, and sent, if at all, after the archive is
\* closed. (That the run also ends is not proved.)
THEOREM RunIsDiagnosticRun == Spec => Run!Init /\ [][Run!Next]_Run!vars
BY InitRuns, NextRuns, RunInvariant, PTL DEF Spec

-----------------------------------------------------------------------------
(***************************************************************************)
(* What is in the archive at the end of a run: every file and stream that  *)
(* the tasks returned, a line of the list for every file, and no name      *)
(* twice.                                                                  *)
(***************************************************************************)

----------------------------------------------------------------------------
(* Where the files are                                                     *)

InArchive(p) == \E z \in Range(zip.entries) : z.path = p /\ z.whole
ToCopy(p) == \E f \in Range(collector.files) : f.path = p
StreamToCopy(s) == \E f \in Range(collector.files) : f.stream = s

\* The collector has left the loop over FilesChannel.
Copying == collector.pc \notin {"off", "receive"}

\* The tasks whose results the worker has sent.
Published == DOMAIN given \ (IF worker.pc = "publish" THEN {worker.task} ELSE {})

\* A broken archive is a fault.
BreaksNoted == zip.broken => "archive" \in faults

\* The collector copies when nothing is left to be received, and ends when nothing
\* is left to be copied.
CopiesInOrder ==
  /\ Copying => filesCh.buf = << >> /\ collector.todo = << >>
  /\ collector.pc \in {"done", "returned"} => collector.files = << >>

\* A producer closes its stream when it has sent everything.
ClosedWhenSent == \A s \in Stream : stream[s].state = "closed" => stream[s].sent = Chunks[s]

\* A stream is copied to the last entry of the archive.
StreamHasEntry ==
  collector.pc = "stream" =>
    /\ zip.entries # << >>
    /\ zip.entries[Len(zip.entries)].path = Head(collector.files).path

\* A path that is taken has a file still to be copied, or is in the archive.
PathsKept == "archive" \notin faults => \A p \in collector.paths : ToCopy(p) \/ InArchive(p)

\* What has become of a file that the collector has received.
StreamTaken(s) == StreamToCopy(s) \/ (Copying /\ stream[s].state = "closed")
Taken(e) == e.path \in collector.paths /\ (e.stream # NoStream => StreamTaken(e.stream))
NoName(e) == FreeInstances(e, collector.names) = {}
Tracked(e) == Wanted(e) => e \in Range(collector.todo) \/ Taken(e) \/ NoName(e)

\* The files of a result that was sent are on the way to the collector, or were
\* received.
FilesTracked ==
  \A t \in Published :
    \/ worker.pc = "files" /\ worker.task = t
    \/ t \in Range(filesCh.buf)
    \/ \A e \in Range(results[t].files) : Tracked(e)

\* What main has, or will, put in the report.
ReportedArePublished == Range(outputResults) \cup Range(resultsCh.buf) \subseteq Published

ArchiveInv ==
  /\ BreaksNoted /\ CopiesInOrder /\ ClosedWhenSent /\ StreamHasEntry
  /\ PathsKept /\ FilesTracked /\ ReportedArePublished

ListedPath(p) == \E l \in Range(filelist) : l.path = p

EmptyAtFirst == main \in {"start", "info", "zip", "filelist"} => zip.entries = << >>

\* Every entry that is whole, or that a stream is still copied to, has its line.
EntriesListed ==
  "filelist" \notin faults =>
    /\ \A z \in Range(zip.entries) : z.whole => ListedPath(z.path)
    /\ collector.pc = "stream" => ListedPath(Head(collector.files).path)

\* The list that is copied stays what it is.
ListCopied == main \in {"closeZip", "upload", "end"} => archivedList = filelist

ListInv == EmptyAtFirst /\ EntriesListed /\ ListCopied

----------------------------------------------------------------------------
(* Sequences as what is in them                                            *)

\* Appending puts one element more into a sequence.
LEMMA RangeOfAppend ==
  ASSUME NEW S, NEW s \in Seq(S), NEW x
  PROVE  Range(Append(s, x)) = Range(s) \cup {x}
<1>1. PICK n \in Nat : n = Len(s)
  BY LenProperties
<1>2. /\ DOMAIN s = 1 .. n /\ DOMAIN Append(s, x) = 1 .. n + 1
      /\ Append(s, x)[n + 1] = x /\ \A k \in 1 .. n : Append(s, x)[k] = s[k]
  BY <1>1
<1> QED
  BY <1>2 DEF Range

\* A sequence is its head and what is in its tail.
LEMMA RangeOfHeadTail ==
  ASSUME NEW S, NEW s \in Seq(S), s # << >>
  PROVE  Range(s) = {Head(s)} \cup Range(Tail(s))
<1>1. PICK n \in Nat \ {0} : n = Len(s)
  BY LenProperties, EmptySeq
<1>2. /\ DOMAIN s = 1 .. n /\ DOMAIN Tail(s) = 1 .. n - 1
      /\ Head(s) = s[1] /\ \A k \in 1 .. n - 1 : Tail(s)[k] = s[k + 1]
  BY <1>1
<1>3. \A k \in 2 .. n : k - 1 \in 1 .. n - 1 /\ s[k] = Tail(s)[k - 1]
  BY <1>2
<1>4. \A k \in 1 .. n : k = 1 \/ k \in 2 .. n
  OBVIOUS
<1>5. 1 \in 1 .. n /\ \A k \in 1 .. n - 1 : k + 1 \in 1 .. n
  OBVIOUS
<1>6. \A k \in 1 .. n : s[k] \in {Head(s)} \cup Range(Tail(s))
  BY <1>2, <1>3, <1>4 DEF Range
<1>7. Head(s) \in Range(s) /\ \A k \in 1 .. n - 1 : Tail(s)[k] \in Range(s)
  BY <1>2, <1>5 DEF Range
<1> QED
  BY <1>2, <1>6, <1>7 DEF Range

\* Nothing is in the empty sequence.
LEMMA RangeOfEmpty == Range(<< >>) = {}
BY EmptySeq DEF Range

\* A write to the archive adds one entry of the name and path, which is whole if
\* the write is no fault, or none; and it is a fault when it breaks the archive.
LEMMA CopyWrites ==
  ASSUME TypeOK, NEW n \in StoredName, NEW q \in Path, CopyEntry(n, q)
  PROVE  /\ zip'.entries = zip.entries
            \/ \E w \in BOOLEAN :
                 zip'.entries = Append(zip.entries, [name |-> n, path |-> q, whole |-> w])
         /\ zip' = WithEntry(n, q, TRUE) =>
              /\ zip'.entries = Append(zip.entries, [name |-> n, path |-> q, whole |-> TRUE])
              /\ zip'.broken = FALSE
         /\ zip' # WithEntry(n, q, TRUE) =>
              \/ zip'.entries = zip.entries
              \/ zip'.entries = Append(zip.entries, [name |-> n, path |-> q, whole |-> FALSE])
<1> DEFINE z(w) == [name |-> n, path |-> q, whole |-> w]
<1>1. /\ zip.entries \in Seq(Entry) /\ zip.broken \in BOOLEAN
      /\ zip \in [state : {"none", "open", "closed"}, broken : BOOLEAN, entries : Seq(Entry)]
  BY DEF TypeOK
<1>2. \A w \in BOOLEAN : z(w) \in Entry
  BY DEF Entry
<1>3. \A w \in BOOLEAN : Append(zip.entries, z(w)) # zip.entries
  <2> TAKE w \in BOOLEAN
  <2>1. Len(Append(zip.entries, z(w))) = Len(zip.entries) + 1 /\ Len(zip.entries) \in Nat
    BY <1>1, <1>2, AppendProperties, LenProperties
  <2> QED
    BY <2>1
<1>4. \A w \in BOOLEAN :
        /\ WithEntry(n, q, w).entries = Append(zip.entries, z(w))
        /\ WithEntry(n, q, w).broken = zip.broken
        /\ Break(WithEntry(n, q, w)).entries = Append(zip.entries, z(w))
        /\ Break(WithEntry(n, q, w)).broken = TRUE
  BY <1>1 DEF WithEntry, Break
<1>5. Break(zip).entries = zip.entries
  BY <1>1 DEF Break
<1>6. CASE zip.broken
  <2>1. zip' = zip
    BY <1>6 DEF CopyEntry, AfterCopy
  <2> QED
    BY <1>3, <1>4, <2>1
<1>7. CASE ~zip.broken
  <2>1. zip' \in {zip, Break(zip), WithEntry(n, q, TRUE), Break(WithEntry(n, q, FALSE))}
    BY <1>7 DEF CopyEntry, AfterCopy
  <2>2. CASE zip' = zip \/ zip' = Break(zip)
    BY <1>3, <1>4, <1>5, <2>2
  <2>3. CASE zip' = WithEntry(n, q, TRUE)
    BY <1>1, <1>4, <1>7, <2>3
  <2>4. CASE zip' = Break(WithEntry(n, q, FALSE))
    BY <1>1, <1>4, <1>7, <2>4
  <2> QED
    BY <2>1, <2>2, <2>3, <2>4
<1> QED
  BY <1>6, <1>7

\* What is in the archive stays there, and a write without a fault adds its path.
LEMMA CopyKeeps ==
  ASSUME TypeOK, NEW n \in StoredName, NEW q \in Path, CopyEntry(n, q)
  PROVE  /\ Range(zip.entries) \subseteq Range(zip'.entries)
         /\ zip' = WithEntry(n, q, TRUE) => \E z \in Range(zip'.entries) : z.path = q /\ z.whole
         /\ \A z \in Range(zip'.entries) :
              z \in Range(zip.entries) \/ (z.path = q /\ (z.whole => zip' = WithEntry(n, q, TRUE)))
<1> DEFINE x(w) == [name |-> n, path |-> q, whole |-> w]
<1>1. zip.entries \in Seq(Entry)
  BY DEF TypeOK
<1>2. \A w \in BOOLEAN : Range(Append(zip.entries, x(w))) = Range(zip.entries) \cup {x(w)}
  BY <1>1, RangeOfAppend
<1>3. CASE zip' = WithEntry(n, q, TRUE)
  <2>1. zip'.entries = Append(zip.entries, x(TRUE))
    BY <1>3, CopyWrites
  <2>2. Range(zip'.entries) = Range(zip.entries) \cup {x(TRUE)}
    BY <1>2, <2>1
  <2>3. x(TRUE).path = q /\ x(TRUE).whole = TRUE
    OBVIOUS
  <2> HIDE DEF x
  <2> QED
    BY <1>3, <2>2, <2>3
<1>4. CASE zip' # WithEntry(n, q, TRUE)
  <2>1. zip'.entries = zip.entries \/ zip'.entries = Append(zip.entries, x(FALSE))
    BY <1>4, CopyWrites
  <2>2. \/ Range(zip'.entries) = Range(zip.entries)
        \/ Range(zip'.entries) = Range(zip.entries) \cup {x(FALSE)}
    BY <1>2, <2>1
  <2>3. x(FALSE).path = q /\ x(FALSE).whole = FALSE
    OBVIOUS
  <2> HIDE DEF x
  <2> QED
    BY <1>4, <2>2, <2>3
<1> QED
  BY <1>3, <1>4

\* So does the list, and a line without a fault is on it.
LEMMA LineKeeps ==
  ASSUME TypeOK, NEW e, AddFileToFileList(e)
  PROVE  /\ Range(filelist) \subseteq Range(filelist')
         /\ filelist' = AddLine(filelist, e) => \E l \in Range(filelist') : l.path = e.path
<1> DEFINE x == [name |-> StoreName(e), path |-> e.path]
<1>1. filelist \in Seq(Line)
  BY DEF TypeOK
<1>2. Range(AddLine(filelist, e)) = Range(filelist) \cup {x}
  BY <1>1, RangeOfAppend DEF AddLine
<1>3. x.path = e.path /\ (filelist' = filelist \/ filelist' = AddLine(filelist, e))
  BY DEF AddFileToFileList
<1> HIDE DEF x
<1> QED
  BY <1>2, <1>3

----------------------------------------------------------------------------
(* The list                                                                *)

\* Entries stay listed when a file is listed and copied.
LEMMA CopyListed ==
  ASSUME TypeOK, NEW n \in StoredName, NEW e, e.path \in Path,
         EntriesListed, CopyEntry(n, e.path), AddFileToFileList(e), faults' = FaultsOf(n, e)
  PROVE  "filelist" \notin faults' =>
           /\ \A z \in Range(zip'.entries) : z.whole => ListedPath(z.path)'
           /\ ListedPath(e.path)'
           /\ \A q : ListedPath(q) => ListedPath(q)'
<1> SUFFICES ASSUME "filelist" \notin faults'
             PROVE  /\ \A z \in Range(zip'.entries) : z.whole => ListedPath(z.path)'
                    /\ ListedPath(e.path)'
                    /\ \A q : ListedPath(q) => ListedPath(q)'
  OBVIOUS
<1>1. filelist' = AddLine(filelist, e) /\ "filelist" \notin faults
  BY DEF FaultsOf
<1>2. /\ Range(filelist) \subseteq Range(filelist')
      /\ \E l \in Range(filelist') : l.path = e.path
  BY <1>1, LineKeeps
<1>3. \A z \in Range(zip'.entries) : z \in Range(zip.entries) \/ z.path = e.path
  BY CopyKeeps
<1> QED
  BY <1>1, <1>2, <1>3 DEF EntriesListed, ListedPath

\* The collector is in no stream while main uses the archive.
LEMMA MainAlone ==
  ASSUME DiagnosticsInv, main \in ZipUsers
  PROVE  collector.pc \notin {"copy", "stream", "noWriter"}
BY ZipHasOneUser DEF OneZipUser

\* A file of -include or of a script is listed when it is copied.
LEMMA WalkListed ==
  ASSUME DiagnosticsInv, ListInv, NEW f \in {"Include", "ScriptOutput"}, walk # << >>,
         CopyWalked(f, Head(walk)), UNCHANGED <<main, collector, archivedList>>,
         main \in {"include", "copyScript"}
  PROVE  ListInv'
<1> DEFINE q == Head(walk)
           g == IF main = "include" THEN NoFolder ELSE f
           e == WithFolder(PlainFile(q), g)
           n == NameUnder(f, q)
<1>1. q \in Path /\ TypeOK
  BY HeadTypes DEF DiagnosticsInv
<1>2. n \in StoredName /\ e.path = q
  BY <1>1, NamesOfWalked
<1>3. main' = main /\ collector' = collector /\ collector.pc # "stream"
  BY MainAlone DEF ZipUsers
<1>4. EmptyAtFirst' /\ ListCopied'
  BY <1>3 DEF EmptyAtFirst, ListCopied
<1>5. "filelist" \notin faults' => \A z \in Range(zip'.entries) : z.whole => ListedPath(z.path)'
  <2>1. CASE UNCHANGED <<zip, filelist, faults>>
    BY <2>1 DEF ListInv, EntriesListed, ListedPath
  <2>2. CASE CopyEntry(n, q) /\ AddFileToFileList(e) /\ faults' = FaultsOf(n, e)
    <3> HIDE DEF n, e, q
    <3> QED
      BY <1>1, <1>2, <2>2, CopyListed DEF ListInv
  <2>3. CASE CopyEntry(n, q) /\ zip' # WithEntry(n, q, TRUE) /\ faults' = faults \cup {"archive"}
             /\ UNCHANGED filelist
    <3> HIDE DEF n, e, q
    <3>1. \A z \in Range(zip'.entries) : z.whole => z \in Range(zip.entries)
      BY <1>1, <1>2, <2>3, CopyKeeps
    <3> QED
      BY <2>3, <3>1 DEF ListInv, EntriesListed, ListedPath
  <2> QED
    BY <2>1, <2>2, <2>3 DEF CopyWalked
<1> QED
  BY <1>3, <1>4, <1>5 DEF ListInv, EntriesListed

\* And so are the report and the list itself.
LEMMA OwnFileListed ==
  ASSUME DiagnosticsInv, ListInv, NEW q \in Path, main \in ZipUsers,
         AddFileToFileList(PlainFile(q)), CopyEntry(StoreName(PlainFile(q)), q),
         faults' = FaultsOf(StoreName(PlainFile(q)), PlainFile(q)), UNCHANGED collector
  PROVE  EntriesListed'
<1> DEFINE e == PlainFile(q)
           n == StoreName(e)
<1>1. TypeOK /\ n \in StoredName /\ e.path = q
  BY NamesOfEnvelopes DEF DiagnosticsInv, PlainFile
<1>2. collector' = collector /\ collector.pc # "stream"
  BY MainAlone
<1>3. "filelist" \notin faults' => \A z \in Range(zip'.entries) : z.whole => ListedPath(z.path)'
  <2>1. CopyEntry(n, e.path) /\ AddFileToFileList(e) /\ faults' = FaultsOf(n, e)
    BY <1>1
  <2> HIDE DEF n, e
  <2> QED
    BY <1>1, <2>1, CopyListed DEF ListInv
<1> QED
  BY <1>2, <1>3 DEF EntriesListed

\* While the collector copies, main gathers results or waits.
LEMMA MainWaits ==
  ASSUME DiagnosticsInv
  PROVE  collector.pc \in {"copy", "stream", "noWriter"} => main \in {"results", "wait"}
BY DEF DiagnosticsInv, TypeOK, MainPc, Control, WaitGroupCounts, Setup, Drained, Waited

\* The collector lists a file before it copies it.
LEMMA CollectorListed ==
  ASSUME DiagnosticsInv, ListInv, StreamHasEntry, Collector
  PROVE  ListInv'
<1> USE DEF collectorElse, CollectorAt
<1>0. UNCHANGED <<main, archivedList>> /\ TypeOK
  BY DEF Collector, ReceiveFiles, ProcessEnvelope, FilesChannelClosed, CopyFile, OpenStream,
         ReadChunk, EndStream, FilesCopied, CollectorDone, DiagnosticsInv
<1>1. CASE ReceiveFiles \/ ProcessEnvelope \/ FilesChannelClosed \/ FilesCopied \/ CollectorDone
  <2>1. UNCHANGED <<zip, filelist, faults>> /\ collector'.pc # "stream"
    BY <1>1 DEF ReceiveFiles, ProcessEnvelope, FilesChannelClosed, FilesCopied, CollectorDone,
                DiagnosticsInv, TypeOK
  <2> QED
    BY <1>0, <2>1 DEF ListInv, EmptyAtFirst, EntriesListed, ListedPath, ListCopied
<1>2. CASE CopyFile \/ OpenStream \/ ReadChunk \/ EndStream
  <2>1. collector.pc \in {"copy", "stream", "noWriter"}
    BY <1>2 DEF CopyFile, OpenStream, ReadChunk, EndStream
  <2>2. EmptyAtFirst' /\ ListCopied'
    BY <1>0, <2>1, MainWaits DEF EmptyAtFirst, ListCopied
  <2>3. CASE CopyFile
    <3> DEFINE e == Head(collector.files)
    <3>1. e \in Envelope /\ e.path \in Path /\ StoreName(e) \in StoredName
      BY <1>0, <2>3, HeadTypes, NamesOfEnvelopes DEF CopyFile
    <3>2. /\ CopyEntry(StoreName(e), e.path) /\ AddFileToFileList(e)
          /\ faults' = FaultsOf(StoreName(e), e) /\ collector'.pc # "stream"
      BY <1>0, <2>3 DEF CopyFile, TypeOK
    <3> HIDE DEF e
    <3>3. "filelist" \notin faults' =>
            \A z \in Range(zip'.entries) : z.whole => ListedPath(z.path)'
      BY <1>0, <3>1, <3>2, CopyListed DEF ListInv
    <3> QED
      BY <2>2, <3>2, <3>3 DEF ListInv, EntriesListed
  <2>4. CASE OpenStream
    <3> DEFINE e == Head(collector.files)
               x == [name |-> StoreName(e), path |-> e.path, whole |-> FALSE]
    <3>1. AddFileToFileList(e) /\ collector'.files = collector.files
      BY <1>0, <2>4 DEF OpenStream, TypeOK
    <3>2. /\ Range(filelist) \subseteq Range(filelist')
          /\ "filelist" \notin faults' =>
               "filelist" \notin faults /\ \E l \in Range(filelist') : l.path = e.path
      <4>1. "filelist" \notin faults' => "filelist" \notin faults /\ filelist' = AddLine(filelist, e)
        BY <2>4 DEF OpenStream
      <4> HIDE DEF e
      <4> QED
        BY <1>0, <3>1, <4>1, LineKeeps
    <3>3. zip'.entries = zip.entries \/ zip'.entries = Append(zip.entries, x)
      BY <1>0, <2>4 DEF OpenStream, WithEntry, Break, TypeOK
    <3>4. /\ zip.entries \in Seq(Entry)
          /\ Range(Append(zip.entries, x)) = Range(zip.entries) \cup {x}
      BY <1>0, RangeOfAppend DEF TypeOK
    <3>5. x.whole = FALSE
      OBVIOUS
    <3>6. Head(collector'.files).path = e.path
      BY <3>1
    <3> HIDE DEF e, x
    <3>7. \A z \in Range(zip'.entries) : z.whole => z \in Range(zip.entries)
      BY <3>3, <3>4, <3>5
    <3> QED
      BY <2>2, <3>2, <3>6, <3>7 DEF ListInv, EntriesListed, ListedPath
  <2>5. CASE ReadChunk
    <3>1. zip'.entries = zip.entries /\ UNCHANGED <<filelist, collector>>
          /\ ("filelist" \in faults => "filelist" \in faults')
      BY <1>0, <2>5 DEF ReadChunk, Break, TypeOK
    <3> QED
      BY <2>2, <3>1 DEF ListInv, EntriesListed, ListedPath
  <2>6. CASE EndStream
    <3>1. /\ UNCHANGED <<filelist, faults>> /\ collector'.pc = "copy"
          /\ zip.entries \in Seq(Entry)
      BY <1>0, <2>6 DEF EndStream, TypeOK
    <3>2. CASE collector.pc = "noWriter"
      <4>1. zip' = zip
        BY <2>6, <3>2 DEF EndStream
      <4> QED
        BY <2>2, <3>1, <4>1 DEF ListInv, EntriesListed, ListedPath
    <3>3. CASE collector.pc = "stream"
      <4>1. PICK n \in Nat : n = Len(zip.entries)
        BY <3>1, LenProperties
      <4>2. DOMAIN zip.entries = 1 .. n /\ n \in 1 .. n
        BY <3>1, <3>3, <4>1, LenProperties, EmptySeq DEF StreamHasEntry
      <4>3. zip'.entries = [zip.entries EXCEPT ![n].whole = ~zip.broken]
        BY <1>0, <2>6, <3>3, <4>1 DEF EndStream, TypeOK
      <4>4. \A k \in 1 .. n : zip.entries[k] \in Entry
        BY <3>1, <4>1, <4>2, ElementOfSeq
      <4>5. /\ DOMAIN zip'.entries = 1 .. n
            /\ \A k \in 1 .. n : k # n => zip'.entries[k] = zip.entries[k]
            /\ zip'.entries[n].path = zip.entries[n].path
        BY <4>2, <4>3, <4>4 DEF Entry
      <4>6. zip.entries[n].path = Head(collector.files).path
        BY <3>3, <4>1 DEF StreamHasEntry
      <4>7. \A z \in Range(zip'.entries) :
              z \in Range(zip.entries) \/ z.path = Head(collector.files).path
        BY <4>2, <4>5, <4>6 DEF Range
      <4> QED
        BY <2>2, <3>1, <3>3, <4>7 DEF ListInv, EntriesListed, ListedPath
    <3> QED
      BY <2>6, <3>2, <3>3 DEF EndStream
  <2> QED
    BY <1>2, <2>3, <2>4, <2>5, <2>6
<1> QED
  BY <1>1, <1>2 DEF Collector

\* Main lists what it copies, and copies the list last.
LEMMA MainListed ==
  ASSUME DiagnosticsInv, ListInv, Main
  PROVE  ListInv'
<1> USE DEF mainElse, MainAt
<1>1. CASE ReturnEarly \/ ReturnFromMain \/ WriteLineResult
  <2>1. UNCHANGED <<main, zip, filelist, archivedList, faults, collector>>
    BY <1>1 DEF ReturnEarly, ReturnFromMain, WriteLineResult
  <2> QED
    BY <2>1 DEF ListInv, EmptyAtFirst, EntriesListed, ListedPath, ListCopied
<1>2. CASE StartRegistrar \/ CreateZip \/ StartTasks \/ ResultsWritten \/ WaitGroup
           \/ WriteOutputFile \/ CloseZip \/ ProcessUploads
  <2>1. /\ zip'.entries = zip.entries /\ UNCHANGED <<filelist, archivedList>>
        /\ "filelist" \in faults => "filelist" \in faults' \/ main = "zip"
        /\ collector'.files = collector.files
        /\ collector'.pc = collector.pc \/ collector'.pc # "stream"
        /\ main' \in {"start", "info", "zip", "filelist"} =>
             main \in {"start", "info", "zip", "filelist"}
        /\ main' \in {"closeZip", "upload", "end"} => main \in {"closeZip", "upload", "end"}
    BY <1>2 DEF StartRegistrar, CreateZip, StartTasks, ResultsWritten, WaitGroup,
           WriteOutputFile, CloseZip, ProcessUploads, DiagnosticsInv, TypeOK
  <2>2. main = "zip" => Range(zip.entries) = {} /\ collector'.pc # "stream"
    BY <1>2, RangeOfEmpty DEF ListInv, EmptyAtFirst, StartRegistrar, CreateZip, StartTasks,
         ResultsWritten, WaitGroup, WriteOutputFile, CloseZip, ProcessUploads, DiagnosticsInv,
         Control, WaitGroupCounts, Setup
  <2> QED
    BY <2>1, <2>2 DEF ListInv, EmptyAtFirst, EntriesListed, ListedPath, ListCopied
<1>3. CASE CreateFileList
  <2>1. /\ UNCHANGED <<zip, archivedList, collector, faults>> /\ main = "filelist"
        /\ main' \in {"filelist", "include"}
    BY <1>3 DEF CreateFileList
  <2>2. Range(zip.entries) = {} /\ collector.pc # "stream"
    BY <2>1, RangeOfEmpty DEF ListInv, EmptyAtFirst, DiagnosticsInv, Control, WaitGroupCounts, Setup
  <2> QED
    BY <2>1, <2>2 DEF ListInv, EmptyAtFirst, EntriesListed, ListCopied
<1>4. CASE IncludeFile \/ CopyScriptOutput
  <2>1. \E f \in {"Include", "ScriptOutput"} : CopyWalked(f, Head(walk))
    BY <1>4 DEF IncludeFile, CopyScriptOutput
  <2>2. /\ UNCHANGED <<main, collector, archivedList>> /\ walk # << >>
        /\ main \in {"include", "copyScript"}
    BY <1>4 DEF IncludeFile, CopyScriptOutput
  <2> QED
    BY <2>1, <2>2, WalkListed
<1>5. CASE CopyOutputToZip
  <2>1. JsonPath \in Path /\ main = "copyOutput" /\ main' = "copyScript" /\ UNCHANGED collector
    BY <1>5, DiagnosticsAssumption DEF CopyOutputToZip
  <2>2. EntriesListed'
    <3>1. CASE UNCHANGED <<filelist, zip, faults>>
      BY <2>1, <3>1 DEF ListInv, EntriesListed, ListedPath
    <3>2. CASE /\ AddFileToFileList(PlainFile(JsonPath))
               /\ CopyEntry(StoreName(PlainFile(JsonPath)), JsonPath)
               /\ faults' = FaultsOf(StoreName(PlainFile(JsonPath)), PlainFile(JsonPath))
      BY <2>1, <3>2, OwnFileListed DEF ZipUsers
    <3> QED
      BY <1>5, <3>1, <3>2 DEF CopyOutputToZip
  <2> QED
    BY <2>1, <2>2 DEF ListInv, EmptyAtFirst, ListCopied
<1>6. CASE CopyFileListToZip
  <2>1. /\ FilelistPath \in Path /\ main = "copyScript" /\ main' = "closeZip"
        /\ UNCHANGED collector /\ archivedList' = filelist'
    BY <1>6, DiagnosticsAssumption DEF CopyFileListToZip
  <2>2. EntriesListed'
    BY <1>6, <2>1, OwnFileListed DEF CopyFileListToZip, ZipUsers
  <2> QED
    BY <2>1, <2>2 DEF ListInv, EmptyAtFirst, ListCopied
<1> QED
  BY <1>1, <1>2, <1>3, <1>4, <1>5, <1>6 DEF Main

\* Nobody else writes to the archive or to the list.
LEMMA OthersListed ==
  ASSUME DiagnosticsInv, ListInv,
         SuiteError \/ Register \/ Worker \/ (\E s \in Stream : CloseStream(s)) \/ UNCHANGED vars
  PROVE  ListInv'
<1>1. UNCHANGED <<main, zip, filelist, archivedList, faults, collector>>
  BY DEF SuiteError, Register, CloseStream, Worker, ReceiveTask, WorkQueueClosed, ProcessTask,
         PublishResult, PublishFiles, CloseResults, CloseFiles, WorkerDone, vars, procVars,
         workerElse, collectorElse
<1> QED
  BY <1>1 DEF ListInv, EmptyAtFirst, EntriesListed, ListedPath, ListCopied

\* Before the run, nothing is listed and nothing has to be.
LEMMA InitListInv == Init => ListInv
BY RangeOfEmpty DEF Init, ListInv, EmptyAtFirst, EntriesListed, ListedPath, ListCopied

\* Every step keeps the list in line with the archive.
LEMMA NextListInv == DiagnosticsInv /\ StreamHasEntry /\ ListInv /\ [Next]_vars => ListInv'
BY CollectorListed, MainListed, OthersListed DEF Next, Ended

\* The archive that main closes has a line of its list for every whole file.
LEMMA ListedAtLast == DiagnosticsInv /\ ListInv => ArchiveListed
<1> SUFFICES ASSUME DiagnosticsInv, ListInv, zip.state = "closed", "filelist" \notin faults,
                    NEW i \in DOMAIN zip.entries, zip.entries[i].whole
             PROVE  \E k \in DOMAIN archivedList : archivedList[k].path = zip.entries[i].path
  BY DEF ArchiveListed
<1>1. main \in {"upload", "end"}
  BY DEF DiagnosticsInv, Control, ZipState
<1>2. zip.entries[i] \in Range(zip.entries)
  BY DEF Range
<1>3. PICK l \in Range(archivedList) : l.path = zip.entries[i].path
  BY <1>1, <1>2 DEF ListInv, ListCopied, EntriesListed, ListedPath
<1> QED
  BY <1>3 DEF Range

----------------------------------------------------------------------------
(* What the worker does to the files                                       *)

\* The worker loses no file: what it has executed it sends, and the files after the
\* result; and no task starts a stream while streams are copied.
LEMMA WorkerTracks ==
  ASSUME DiagnosticsInv, ArchiveInv, Worker
  PROVE  ArchiveInv'
<1> USE DEF WorkerAt, workerElse
<1>0. TypeOK /\ Control /\ Flow
  BY DEF DiagnosticsInv
<1>1. UNCHANGED <<collector, zip, faults, outputResults>>
  BY DEF Worker, ReceiveTask, WorkQueueClosed, ProcessTask, PublishResult, PublishFiles,
         CloseResults, CloseFiles, WorkerDone
<1>2. BreaksNoted' /\ StreamHasEntry' /\ PathsKept'
  BY <1>1 DEF ArchiveInv, BreaksNoted, StreamHasEntry, PathsKept, ToCopy, InArchive
<1>3. Copying' = Copying
  BY <1>1 DEF Copying
<1>4. CASE ReceiveTask \/ WorkQueueClosed \/ CloseResults \/ CloseFiles \/ WorkerDone
  <2>1. /\ UNCHANGED <<results, given, stream>>
        /\ worker.pc \notin {"publish", "files"} /\ worker'.pc \notin {"publish", "files"}
        /\ resultsCh'.buf = resultsCh.buf /\ filesCh'.buf = filesCh.buf
    BY <1>0, <1>4 DEF ReceiveTask, WorkQueueClosed, CloseResults, CloseFiles, WorkerDone, TypeOK,
                      Chan
  <2>2. Published' = Published
    BY <2>1 DEF Published
  <2>3. CopiesInOrder' /\ ClosedWhenSent' /\ ReportedArePublished'
    BY <1>1, <1>3, <2>1, <2>2 DEF ArchiveInv, CopiesInOrder, ClosedWhenSent, ReportedArePublished
  <2>4. FilesTracked'
    BY <1>1, <1>3, <2>1, <2>2 DEF ArchiveInv, FilesTracked, Tracked, Taken, NoName, StreamTaken,
                                  StreamToCopy
  <2> QED
    BY <1>2, <2>3, <2>4 DEF ArchiveInv
<1>5. CASE ProcessTask
  <2>1. PICK t \in Task : t = worker.task /\ t \notin DOMAIN given /\ worker.pc = "execute"
    BY <1>5, ExecutedInOrder DEF ProcessTask
  <2>2. ~Copying
    BY <1>0, <2>1 DEF Control, ClosedInOrder, Copying
  <2>3. /\ UNCHANGED <<resultsCh, filesCh>>
        /\ \A u \in DOMAIN given : results'[u] = results[u]
        /\ \A s \in Stream : stream'[s].state = "closed" => stream'[s] = stream[s]
    BY <1>0, <1>5, <2>1 DEF ProcessTask, TypeOK
  <2>4. Published' = Published /\ worker'.pc # "files" /\ Published \subseteq DOMAIN given
    <3>1. Published = DOMAIN given
      BY <2>1 DEF Published
    <3>2. CASE UNCHANGED <<worker, given>>
      BY <2>1, <3>1, <3>2 DEF Published
    <3>3. CASE worker' = [worker EXCEPT !.pc = "publish"] /\ DOMAIN given' = DOMAIN given \cup {t}
      <4>1. worker'.pc = "publish" /\ worker'.task = t
        BY <1>0, <2>1, <3>3 DEF TypeOK
      <4> QED
        BY <2>1, <3>1, <3>3, <4>1 DEF Published
    <3> QED
      BY <1>5, <2>1, <3>2, <3>3 DEF ProcessTask
  <2>5. CopiesInOrder' /\ ClosedWhenSent' /\ ReportedArePublished'
    BY <1>1, <1>3, <2>2, <2>3, <2>4
    DEF ArchiveInv, CopiesInOrder, ClosedWhenSent, ReportedArePublished, Copying
  <2>6. FilesTracked'
    BY <1>1, <1>3, <2>1, <2>2, <2>3, <2>4 DEF ArchiveInv, FilesTracked, Tracked, Taken, NoName,
                                         StreamTaken, StreamToCopy
  <2> QED
    BY <1>2, <2>5, <2>6 DEF ArchiveInv
<1>6. CASE PublishResult
  <2>1. PICK t \in Task : t = worker.task /\ worker.pc = "publish"
    BY <1>0, <1>6 DEF PublishResult, Control, WorkerHasTask
  <2>2. /\ UNCHANGED <<results, given, filesCh, stream>>
        /\ resultsCh'.buf = Append(resultsCh.buf, t) /\ resultsCh.buf \in Seq(Task)
        /\ results[t].files # << >> => worker'.pc = "files" /\ worker'.task = t
        /\ worker'.pc # "publish"
    BY <1>0, <1>6, <2>1 DEF PublishResult, TypeOK, Chan
  <2>3. t \in DOMAIN given
    <3>1. PICK n \in Nat : n = Len(delivered)
      BY LenProperties DEF DiagnosticsInv, QueueInv, QueueTypeOK
    <3>2. delivered \in Seq(Task) /\ delivered # << >> /\ delivered[n] = t
      BY <1>0, <2>1, <3>1 DEF Flow, AtLast, DiagnosticsInv, QueueInv, QueueTypeOK
    <3>3. n \in DOMAIN delivered
      BY <3>1, <3>2, EmptySeq, LenProperties
    <3> QED
      BY <1>0, <2>1, <3>2, <3>3 DEF Flow, GivenToExecuted, Received
  <2>4. Published' = Published \cup {t} /\ Published = DOMAIN given \ {t}
    BY <2>1, <2>2, <2>3 DEF Published
  <2>5. Range(resultsCh'.buf) = Range(resultsCh.buf) \cup {t}
    BY <2>2, RangeOfAppend
  <2>6. CopiesInOrder' /\ ClosedWhenSent' /\ ReportedArePublished'
    BY <1>1, <1>3, <2>2, <2>4, <2>5
    DEF ArchiveInv, CopiesInOrder, ClosedWhenSent, ReportedArePublished
  <2>7. FilesTracked'
    <3> SUFFICES ASSUME NEW u \in Published'
                 PROVE  \/ worker'.pc = "files" /\ worker'.task = u
                        \/ u \in Range(filesCh'.buf)
                        \/ \A e \in Range(results'[u].files) : Tracked(e)'
      BY DEF FilesTracked
    <3>1. CASE u = t
      BY <2>2, <3>1, RangeOfEmpty
    <3>2. CASE u # t
      <4>1. \/ u \in Range(filesCh.buf)
            \/ \A e \in Range(results[u].files) : Tracked(e)
        BY <2>1, <2>4, <3>2 DEF ArchiveInv, FilesTracked
      <4>2. \A e : Tracked(e) => Tracked(e)'
        BY <1>1, <1>3, <2>2 DEF Tracked, Taken, NoName, StreamTaken, StreamToCopy
      <4> QED
        BY <2>2, <4>1, <4>2
    <3> QED
      BY <3>1, <3>2
  <2> QED
    BY <1>2, <2>6, <2>7 DEF ArchiveInv
<1>7. CASE PublishFiles
  <2>1. PICK t \in Task : t = worker.task /\ worker.pc = "files"
    BY <1>0, <1>7 DEF PublishFiles, Control, WorkerHasTask
  <2>2. /\ UNCHANGED <<results, given, resultsCh, stream>>
        /\ filesCh'.buf = Append(filesCh.buf, t) /\ filesCh.buf \in Seq(Task)
        /\ worker'.pc = "receive"
    BY <1>0, <1>7, <2>1 DEF PublishFiles, TypeOK, Chan
  <2>3. ~Copying
    BY <1>0, <2>1 DEF Control, ClosedInOrder, Copying
  <2>4. Published' = Published
    BY <2>1, <2>2 DEF Published
  <2>5. Range(filesCh'.buf) = Range(filesCh.buf) \cup {t}
    BY <2>2, RangeOfAppend
  <2>6. CopiesInOrder' /\ ClosedWhenSent' /\ ReportedArePublished'
    BY <1>1, <1>3, <2>2, <2>3, <2>4
    DEF ArchiveInv, CopiesInOrder, ClosedWhenSent, ReportedArePublished, Copying
  <2>7. \A e : Tracked(e) => Tracked(e)'
    BY <1>1, <1>3, <2>2 DEF Tracked, Taken, NoName, StreamTaken, StreamToCopy
  <2>8. FilesTracked'
    BY <2>1, <2>2, <2>4, <2>5, <2>7 DEF ArchiveInv, FilesTracked
  <2> QED
    BY <1>2, <2>6, <2>8 DEF ArchiveInv
<1> QED
  BY <1>4, <1>5, <1>6, <1>7 DEF Worker

----------------------------------------------------------------------------
(* What the collector does to them                                         *)

\* The parts of the invariant that a step of the collector keeps, when it leaves
\* what was sent and what main has alone.
LEMMA CollectorLeaves ==
  ASSUME DiagnosticsInv, ArchiveInv, Collector \/ \E s \in Stream : CloseStream(s)
  PROVE  /\ UNCHANGED <<worker, results, given, main>> /\ Published' = Published
         /\ ReportedArePublished'
<1>1. UNCHANGED <<worker, results, given, main, resultsCh, outputResults>>
  BY DEF Collector, ReceiveFiles, ProcessEnvelope, FilesChannelClosed, CopyFile, OpenStream,
         ReadChunk, EndStream, FilesCopied, CollectorDone, CloseStream, collectorElse
<1> QED
  BY <1>1 DEF ArchiveInv, ReportedArePublished, Published

\* A file that is tracked stays so when the collector forgets nothing that it has
\* taken, and no stream that was closed is opened.
LEMMA StaysTracked ==
  ASSUME collector.names \subseteq collector'.names, collector.paths \subseteq collector'.paths,
         \A s : StreamTaken(s) => StreamTaken(s)',
         NEW e, Tracked(e),
         e \in Range(collector.todo) => Tracked(e)'
  PROVE  Tracked(e)'
<1>1. FreeInstances(e, collector'.names) \subseteq FreeInstances(e, collector.names)
  BY DEF FreeInstances
<1> QED
  BY <1>1 DEF Tracked, Taken, NoName

\* The collector takes over the files of the next result.
LEMMA ReceiveTracks ==
  ASSUME DiagnosticsInv, ArchiveInv, ReceiveFiles
  PROVE  ArchiveInv'
<1> USE DEF collectorElse, CollectorAt
<1>0. TypeOK
  BY DEF DiagnosticsInv
<1>1. PICK h \in Task : h = Head(filesCh.buf)
  BY <1>0, HeadTypes DEF ReceiveFiles
<1>2. /\ collector.todo = << >> /\ filesCh.buf # << >> /\ filesCh.buf \in Seq(Task)
      /\ filesCh'.buf = Tail(filesCh.buf)
      /\ UNCHANGED <<stream, zip, faults>>
      /\ collector'.pc = "receive" /\ collector.pc = "receive"
      /\ collector'.names = collector.names /\ collector'.paths = collector.paths
      /\ collector'.files = collector.files
      /\ collector'.todo = results[h].files
  BY <1>0, <1>1 DEF ReceiveFiles, TypeOK, Chan
<1>3. Range(filesCh.buf) = {h} \cup Range(filesCh'.buf) /\ Range(collector.todo) = {}
  BY <1>1, <1>2, RangeOfHeadTail, RangeOfEmpty
<1>4. BreaksNoted' /\ CopiesInOrder' /\ ClosedWhenSent' /\ StreamHasEntry' /\ PathsKept'
  BY <1>2 DEF ArchiveInv, BreaksNoted, CopiesInOrder, ClosedWhenSent, StreamHasEntry, PathsKept,
              ToCopy, InArchive, Copying
<1>5. /\ UNCHANGED <<worker, results, given>> /\ Published' = Published
      /\ ReportedArePublished'
  BY CollectorLeaves DEF Collector
<1>6. ASSUME NEW t \in Published
      PROVE  \/ worker.pc = "files" /\ worker.task = t
             \/ t \in Range(filesCh'.buf)
             \/ \A e \in Range(results[t].files) : Tracked(e)'
  <2>1. \A s : StreamTaken(s) => StreamTaken(s)'
    BY <1>2 DEF StreamTaken, StreamToCopy, Copying
  <2>2. \A e : Tracked(e) => Tracked(e)'
    BY <1>2, <1>3, <2>1, StaysTracked
  <2>3. \A e \in Range(results[h].files) : Tracked(e)'
    BY <1>2 DEF Tracked
  <2> QED
    BY <1>3, <2>2, <2>3 DEF ArchiveInv, FilesTracked
<1>7. FilesTracked'
  BY <1>5, <1>6 DEF FilesTracked
<1> QED
  BY <1>4, <1>5, <1>7 DEF ArchiveInv

\* It takes the path of a file, or the file is not wanted, or is given up.
LEMMA EnvelopeTracks ==
  ASSUME DiagnosticsInv, ArchiveInv, ProcessEnvelope
  PROVE  ArchiveInv'
<1> USE DEF collectorElse, CollectorAt
<1>0. TypeOK
  BY DEF DiagnosticsInv
<1>1. PICK h \in Envelope : h = Head(collector.todo)
  BY <1>0, HeadTypes DEF ProcessEnvelope
<1>2. /\ UNCHANGED <<stream, zip, faults, filesCh>>
      /\ collector'.pc = "receive" /\ collector.pc = "receive"
      /\ collector'.todo = Tail(collector.todo)
      /\ collector.todo # << >> /\ collector.todo \in Seq(Envelope)
      /\ collector.files \in Seq(Envelope)
  BY <1>0 DEF ProcessEnvelope, TypeOK
<1>3. Range(collector.todo) = {h} \cup Range(collector'.todo)
  BY <1>1, <1>2, RangeOfHeadTail
<1>4. /\ collector.names \subseteq collector'.names /\ collector.paths \subseteq collector'.paths
      /\ collector'.paths \subseteq collector.paths \cup {h.path}
      /\ Range(collector.files) \subseteq Range(collector'.files)
      /\ \/ Unwanted(h) \/ NoName(h)
         \/ /\ h.path \in collector'.paths
            /\ \E f \in Range(collector'.files) : f.path = h.path /\ f.stream = h.stream
      /\ h.path \in collector'.paths \ collector.paths =>
           \E f \in Range(collector'.files) : f.path = h.path
  <2>1. ASSUME collector' = [collector EXCEPT !.todo = Tail(@)]
        PROVE  UNCHANGED <<collector.names, collector.paths, collector.files>>
    BY <1>0, <2>1 DEF TypeOK
  <2>2. ASSUME NEW n \in Nat,
               collector' = [[collector EXCEPT !.todo = Tail(@)] EXCEPT
                               !.names = @ \cup {StoreName(Instance(h, n))},
                               !.paths = @ \cup {h.path},
                               !.files = Append(@, WithFolder(Instance(h, n), collector.folder))]
        PROVE  /\ collector.names \subseteq collector'.names
               /\ collector'.paths = collector.paths \cup {h.path}
               /\ Range(collector.files) \subseteq Range(collector'.files)
               /\ \E f \in Range(collector'.files) : f.path = h.path /\ f.stream = h.stream
    <3> DEFINE f == WithFolder(Instance(h, n), collector.folder)
    <3>1. f.path = h.path /\ f.stream = h.stream
      BY DEF WithFolder, Instance, Envelope
    <3>2. /\ collector'.files = Append(collector.files, f)
          /\ collector'.names = collector.names \cup {StoreName(Instance(h, n))}
          /\ collector'.paths = collector.paths \cup {h.path}
      BY <1>0, <2>2 DEF TypeOK
    <3> HIDE DEF f
    <3>3. Range(collector'.files) = Range(collector.files) \cup {f}
      BY <1>2, <3>2, RangeOfAppend
    <3> QED
      BY <3>1, <3>2, <3>3
  <2>3. \A n \in FreeInstances(h, collector.names) : n \in Nat
    <3>1. \A n \in 0 .. MaxTries - 1 : n \in Nat
      OBVIOUS
    <3> QED
      BY <3>1 DEF FreeInstances
  <2>4. \/ /\ Unwanted(h) \/ NoName(h)
           /\ collector' = [collector EXCEPT !.todo = Tail(@)]
        \/ \E n \in FreeInstances(h, collector.names) :
             collector' = [[collector EXCEPT !.todo = Tail(@)] EXCEPT
                            !.names = @ \cup {StoreName(Instance(h, n))},
                            !.paths = @ \cup {h.path},
                            !.files = Append(@, WithFolder(Instance(h, n), collector.folder))]
    BY <1>1 DEF ProcessEnvelope, NoName
  <2> QED
    BY <2>1, <2>2, <2>3, <2>4
<1>5. BreaksNoted' /\ CopiesInOrder' /\ ClosedWhenSent' /\ StreamHasEntry'
  BY <1>2 DEF ArchiveInv, BreaksNoted, CopiesInOrder, ClosedWhenSent, StreamHasEntry, Copying
<1>6. PathsKept'
  BY <1>2, <1>4 DEF ArchiveInv, PathsKept, ToCopy, InArchive
<1>7. /\ UNCHANGED <<worker, results, given>> /\ Published' = Published
      /\ ReportedArePublished'
  BY CollectorLeaves DEF Collector
<1>8. \A s : StreamTaken(s) => StreamTaken(s)'
  BY <1>2, <1>4 DEF StreamTaken, StreamToCopy, Copying
<1>9. Tracked(h)'
  <2>1. CASE Unwanted(h)
    BY <1>4, <2>1 DEF Unwanted, Tracked, Wanted, Taken
  <2>2. CASE NoName(h)
    <3>1. FreeInstances(h, collector'.names) \subseteq FreeInstances(h, collector.names)
      BY <1>4 DEF FreeInstances
    <3> QED
      BY <2>2, <3>1 DEF NoName, Tracked
  <2>3. CASE ~Unwanted(h) /\ ~NoName(h)
    BY <1>4, <2>3 DEF Tracked, Taken, StreamTaken, StreamToCopy
  <2> QED
    BY <2>1, <2>2, <2>3
<1>10. ASSUME NEW e, Tracked(e)
       PROVE  Tracked(e)'
  <2>1. e \in Range(collector.todo) => e = h \/ e \in Range(collector'.todo)
    BY <1>3
  <2>2. e \in Range(collector.todo) => Tracked(e)'
    BY <1>9, <2>1 DEF Tracked
  <2> QED
    BY <1>4, <1>8, <1>10, <2>2, StaysTracked
<1>11. FilesTracked'
  BY <1>2, <1>7, <1>10 DEF ArchiveInv, FilesTracked
<1> QED
  BY <1>5, <1>6, <1>7, <1>11 DEF ArchiveInv

\* When nothing is received, a file stays tracked as long as its stream is still to
\* be copied, or has been closed.
LEMMA FilesStayTracked ==
  ASSUME DiagnosticsInv, ArchiveInv, Collector \/ \E s \in Stream : CloseStream(s),
         UNCHANGED <<filesCh>>,
         collector'.names = collector.names, collector'.paths = collector.paths,
         collector'.todo = collector.todo,
         \A s \in Stream : StreamTaken(s) => StreamTaken(s)'
  PROVE  FilesTracked'
<1>1. /\ UNCHANGED <<worker, results, given>> /\ Published' = Published
  BY CollectorLeaves
<1>2. ASSUME NEW t \in Published, NEW e \in Range(results[t].files), Tracked(e)
      PROVE  Tracked(e)'
  <2>1. e.stream # NoStream => e.stream \in Stream
    <3>1. results[t].files \in Seq(Envelope)
      BY DEF DiagnosticsInv, TypeOK, Result, Published
    <3>2. \A k \in DOMAIN results[t].files : results[t].files[k] \in Envelope
      BY <3>1, ElementOfSeq, LenProperties
    <3>3. e \in Envelope
      BY <3>2 DEF Range
    <3> QED
      BY <3>3 DEF Envelope
  <2> QED
    BY <1>2, <2>1 DEF Tracked, Taken, NoName
<1> QED
  BY <1>1, <1>2 DEF ArchiveInv, FilesTracked

\* The first of the files that are to be copied leaves the others.
LEMMA FirstCopied ==
  ASSUME TypeOK, collector.files # << >>, collector'.files = Tail(collector.files),
         NEW e, e = Head(collector.files)
  PROVE  /\ \A p : ToCopy(p) => p = e.path \/ ToCopy(p)'
         /\ \A s : StreamToCopy(s) => s = e.stream \/ StreamToCopy(s)'
<1>1. Range(collector.files) = {e} \cup Range(collector'.files)
  BY RangeOfHeadTail DEF TypeOK
<1> QED
  BY <1>1 DEF ToCopy, StreamToCopy

\* A copy that is no fault has its file in the archive, and what was there stays.
LEMMA CopyArchives ==
  ASSUME TypeOK, BreaksNoted, NEW n \in StoredName, NEW q \in Path, CopyEntry(n, q),
         faults \subseteq faults', zip' # WithEntry(n, q, TRUE) => "archive" \in faults'
  PROVE  /\ BreaksNoted'
         /\ \A p : InArchive(p) => InArchive(p)'
         /\ "archive" \notin faults' => "archive" \notin faults /\ InArchive(q)'
<1>1. BreaksNoted'
  BY CopyWrites DEF BreaksNoted
<1>2. \A p : InArchive(p) => InArchive(p)'
  BY CopyKeeps DEF InArchive
<1>3. "archive" \notin faults' => "archive" \notin faults /\ InArchive(q)'
  BY CopyKeeps DEF InArchive
<1> QED
  BY <1>1, <1>2, <1>3

\* A file leaves the collector for the archive.
LEMMA CopyTracks ==
  ASSUME DiagnosticsInv, ArchiveInv, CopyFile
  PROVE  ArchiveInv'
<1> USE DEF collectorElse, CollectorAt
<1>0. TypeOK
  BY DEF DiagnosticsInv
<1>1. PICK e \in Envelope : e = Head(collector.files)
  BY <1>0, HeadTypes DEF CopyFile
<1>2. /\ UNCHANGED <<stream, filesCh>>
      /\ collector.pc = "copy" /\ collector'.pc = "copy"
      /\ collector.files # << >> /\ collector'.files = Tail(collector.files)
      /\ collector'.names = collector.names /\ collector'.paths = collector.paths
      /\ collector'.todo = collector.todo
      /\ e.stream = NoStream /\ NoStream \notin Stream
      /\ e.path \in Path /\ StoreName(e) \in StoredName
  BY <1>0, <1>1, NamesOfEnvelopes, FileNamesAssumption DEF CopyFile, TypeOK
<1>3. /\ CopyEntry(StoreName(e), e.path)
      /\ faults \subseteq faults'
      /\ zip' # WithEntry(StoreName(e), e.path, TRUE) => "archive" \in faults'
  BY <1>1 DEF CopyFile, FaultsOf
<1>4. /\ BreaksNoted'
      /\ \A p : InArchive(p) => InArchive(p)'
      /\ "archive" \notin faults' => "archive" \notin faults /\ InArchive(e.path)'
  BY <1>0, <1>2, <1>3, CopyArchives DEF ArchiveInv
<1>5. /\ \A p : ToCopy(p) => p = e.path \/ ToCopy(p)'
      /\ \A s : StreamToCopy(s) => s = e.stream \/ StreamToCopy(s)'
  BY <1>0, <1>1, <1>2, FirstCopied
<1>6. PathsKept'
  BY <1>2, <1>4, <1>5 DEF ArchiveInv, PathsKept
<1>7. Copying /\ Copying'
  BY <1>2 DEF Copying
<1>8. CopiesInOrder' /\ ClosedWhenSent' /\ StreamHasEntry'
  BY <1>2, <1>7 DEF ArchiveInv, CopiesInOrder, ClosedWhenSent, StreamHasEntry
<1>9. \A s \in Stream : StreamTaken(s) => StreamTaken(s)'
  BY <1>2, <1>5, <1>7 DEF StreamTaken
<1>10. FilesTracked' /\ ReportedArePublished'
  BY <1>2, <1>9, FilesStayTracked, CollectorLeaves DEF Collector
<1> QED
  BY <1>4, <1>6, <1>8, <1>10 DEF ArchiveInv

\* A stream gets its entry, which is not whole before the stream has ended.
LEMMA OpenTracks ==
  ASSUME DiagnosticsInv, ArchiveInv, OpenStream
  PROVE  ArchiveInv'
<1> USE DEF collectorElse, CollectorAt
<1>0. TypeOK
  BY DEF DiagnosticsInv
<1>1. PICK e \in Envelope : e = Head(collector.files)
  BY <1>0, HeadTypes DEF OpenStream
<1> DEFINE x == [name |-> StoreName(e), path |-> e.path, whole |-> FALSE]
<1>2. /\ UNCHANGED <<stream, filesCh>>
      /\ collector.pc = "copy" /\ collector'.pc \in {"stream", "noWriter"}
      /\ collector'.files = collector.files
      /\ collector'.names = collector.names /\ collector'.paths = collector.paths
      /\ collector'.todo = collector.todo
      /\ e.path \in Path /\ StoreName(e) \in StoredName
  BY <1>0, <1>1, NamesOfEnvelopes DEF OpenStream, TypeOK
<1>3. x \in Entry /\ x.path = e.path
  BY <1>2 DEF Entry
<1>4. /\ zip.entries \in Seq(Entry)
      /\ \/ collector'.pc = "stream" /\ zip'.entries = Append(zip.entries, x)
         \/ collector'.pc = "noWriter" /\ zip'.entries = zip.entries
  BY <1>0, <1>1 DEF OpenStream, WithEntry, Break, TypeOK
<1>5. faults \subseteq faults' /\ (zip'.broken => "archive" \in faults')
  BY <1>1 DEF OpenStream
<1> HIDE DEF x
<1>6. Range(zip.entries) \subseteq Range(zip'.entries)
  <2>1. Range(Append(zip.entries, x)) = Range(zip.entries) \cup {x}
    BY <1>4, RangeOfAppend
  <2> QED
    BY <1>4, <2>1
<1>7. StreamHasEntry'
  <2> SUFFICES ASSUME collector'.pc = "stream"
               PROVE  /\ zip'.entries # << >>
                      /\ zip'.entries[Len(zip'.entries)].path = Head(collector'.files).path
    BY DEF StreamHasEntry
  <2>1. zip'.entries = Append(zip.entries, x)
    BY <1>4
  <2>2. zip'.entries # << >> /\ zip'.entries[Len(zip'.entries)] = x
    BY <1>3, <1>4, <2>1, AppendProperties
  <2> QED
    BY <1>1, <1>2, <1>3, <2>2
<1>8. Copying /\ Copying'
  BY <1>2 DEF Copying
<1>9. BreaksNoted' /\ CopiesInOrder' /\ ClosedWhenSent' /\ PathsKept'
  BY <1>2, <1>5, <1>6, <1>8 DEF ArchiveInv, BreaksNoted, CopiesInOrder, ClosedWhenSent, PathsKept,
                                ToCopy, InArchive
<1>10. \A s \in Stream : StreamTaken(s) => StreamTaken(s)'
  BY <1>2, <1>8 DEF StreamTaken, StreamToCopy
<1>11. FilesTracked' /\ ReportedArePublished'
  BY <1>2, <1>10, FilesStayTracked, CollectorLeaves DEF Collector
<1> QED
  BY <1>7, <1>9, <1>11 DEF ArchiveInv

\* A string more of a stream leaves everything where it is.
LEMMA ReadTracks ==
  ASSUME DiagnosticsInv, ArchiveInv, ReadChunk
  PROVE  ArchiveInv'
<1> USE DEF collectorElse
<1>0. TypeOK
  BY DEF DiagnosticsInv
<1>1. /\ UNCHANGED <<collector, filesCh>> /\ collector.pc \in {"stream", "noWriter"}
      /\ zip'.entries = zip.entries /\ faults \subseteq faults'
      /\ BreaksNoted => BreaksNoted'
  BY <1>0 DEF ReadChunk, Break, BreaksNoted, TypeOK
<1>2. \A s \in Stream : /\ stream'[s].state = stream[s].state
                        /\ stream[s].state = "closed" => stream'[s] = stream[s]
  BY <1>0 DEF ReadChunk, TypeOK
<1>3. Copying /\ Copying'
  BY <1>1 DEF Copying
<1>4. /\ BreaksNoted' /\ CopiesInOrder' /\ ClosedWhenSent' /\ StreamHasEntry' /\ PathsKept'
  BY <1>1, <1>2, <1>3 DEF ArchiveInv, CopiesInOrder, ClosedWhenSent, StreamHasEntry, PathsKept,
                          ToCopy, InArchive
<1>5. \A s \in Stream : StreamTaken(s) => StreamTaken(s)'
  BY <1>1, <1>2, <1>3 DEF StreamTaken, StreamToCopy
<1>6. FilesTracked' /\ ReportedArePublished'
  BY <1>1, <1>5, FilesStayTracked, CollectorLeaves DEF Collector
<1> QED
  BY <1>4, <1>6 DEF ArchiveInv

\* The end of a stream makes its entry whole, unless the archive is broken.
LEMMA EndTracks ==
  ASSUME DiagnosticsInv, ArchiveInv, EndStream
  PROVE  ArchiveInv'
<1> USE DEF collectorElse
<1>0. TypeOK /\ ReadsStream
  BY DEF DiagnosticsInv, Control
<1>1. PICK e \in Envelope : e = Head(collector.files)
  BY <1>0, HeadTypes DEF EndStream, ReadsStream
<1>2. /\ UNCHANGED <<stream, filesCh, faults>>
      /\ collector.pc \in {"stream", "noWriter"} /\ collector'.pc = "copy"
      /\ collector.files # << >> /\ collector'.files = Tail(collector.files)
      /\ collector'.names = collector.names /\ collector'.paths = collector.paths
      /\ collector'.todo = collector.todo
      /\ stream[e.stream].state = "closed"
      /\ collector.pc = "noWriter" => zip' = zip /\ zip.broken
  BY <1>0, <1>1 DEF EndStream, CurrentStream, ReadsStream, TypeOK
<1>3. Copying /\ Copying'
  BY <1>2 DEF Copying
<1>4. BreaksNoted'
  BY <1>0, <1>2 DEF EndStream, ArchiveInv, BreaksNoted, TypeOK
<1>5. CopiesInOrder' /\ ClosedWhenSent' /\ StreamHasEntry'
  BY <1>2, <1>3 DEF ArchiveInv, CopiesInOrder, ClosedWhenSent, StreamHasEntry
<1>6. /\ \A p : ToCopy(p) => p = e.path \/ ToCopy(p)'
      /\ \A s : StreamToCopy(s) => s = e.stream \/ StreamToCopy(s)'
  BY <1>0, <1>1, <1>2, FirstCopied
<1>7. ASSUME "archive" \notin faults
      PROVE  InArchive(e.path)' /\ \A p : InArchive(p) => InArchive(p)'
  <2>1. collector.pc = "stream" /\ ~zip.broken
    BY <1>2, <1>7 DEF ArchiveInv, BreaksNoted
  <2>2. zip.entries \in Seq(Entry) /\ zip.entries # << >>
    BY <1>0, <2>1 DEF TypeOK, ArchiveInv, StreamHasEntry
  <2>3. PICK n \in Nat : n = Len(zip.entries)
    BY <2>2, LenProperties
  <2>4. DOMAIN zip.entries = 1 .. n /\ n \in 1 .. n
    BY <2>2, <2>3, LenProperties, EmptySeq
  <2>5. zip'.entries = [zip.entries EXCEPT ![n].whole = ~zip.broken]
    BY <1>0, <1>2, <2>1, <2>3 DEF EndStream, TypeOK
  <2>6. \A k \in 1 .. n : zip.entries[k] \in Entry
    BY <2>2, <2>3, <2>4, ElementOfSeq
  <2>7. /\ DOMAIN zip'.entries = 1 .. n
        /\ \A k \in 1 .. n : k # n => zip'.entries[k] = zip.entries[k]
        /\ zip'.entries[n].path = zip.entries[n].path /\ zip'.entries[n].whole
    <3>1. [zip.entries[n] EXCEPT !.whole = TRUE].path = zip.entries[n].path
      BY <2>4, <2>6 DEF Entry
    <3>2. [zip.entries[n] EXCEPT !.whole = TRUE].whole = TRUE
      BY <2>4, <2>6 DEF Entry
    <3>3. zip'.entries = [zip.entries EXCEPT ![n] = [@ EXCEPT !.whole = TRUE]]
      BY <2>1, <2>5
    <3>4. zip'.entries[n] = [zip.entries[n] EXCEPT !.whole = TRUE]
      BY <2>4, <3>3
    <3> QED
      BY <2>4, <3>1, <3>2, <3>3, <3>4
  <2>8. zip.entries[n].path = e.path
    BY <1>1, <2>1, <2>3 DEF ArchiveInv, StreamHasEntry
  <2>9. zip'.entries[n] \in Range(zip'.entries)
    BY <2>4, <2>7 DEF Range
  <2>10. InArchive(e.path)'
    BY <2>7, <2>8, <2>9 DEF InArchive
  <2>11. ASSUME NEW p, InArchive(p)
         PROVE  InArchive(p)'
    <3>1. PICK k \in 1 .. n : zip.entries[k].path = p /\ zip.entries[k].whole
      BY <2>4, <2>11 DEF InArchive, Range
    <3>2. CASE k = n
      BY <2>8, <2>10, <3>1, <3>2
    <3>3. CASE k # n
      <4>1. zip'.entries[k] = zip.entries[k] /\ zip'.entries[k] \in Range(zip'.entries)
        BY <2>7, <3>3 DEF Range
      <4> QED
        BY <3>1, <4>1 DEF InArchive
    <3> QED
      BY <3>2, <3>3
  <2> QED
    BY <2>10, <2>11
<1>8. PathsKept'
  BY <1>2, <1>6, <1>7 DEF ArchiveInv, PathsKept
<1>9. \A s \in Stream : StreamTaken(s) => StreamTaken(s)'
  BY <1>2, <1>3, <1>6 DEF StreamTaken
<1>10. FilesTracked' /\ ReportedArePublished'
  BY <1>2, <1>9, FilesStayTracked, CollectorLeaves DEF Collector
<1> QED
  BY <1>4, <1>5, <1>8, <1>10 DEF ArchiveInv

\* The collector turns to copying when everything is received, and ends when
\* everything is copied.
LEMMA TurnsTrack ==
  ASSUME DiagnosticsInv, ArchiveInv, FilesChannelClosed \/ FilesCopied \/ CollectorDone
  PROVE  ArchiveInv'
<1> USE DEF collectorElse, CollectorAt
<1>1. /\ UNCHANGED <<stream, zip, faults, filesCh>> /\ Collector
      /\ collector'.names = collector.names /\ collector'.paths = collector.paths
      /\ collector'.todo = collector.todo /\ collector'.files = collector.files
      /\ Copying' /\ collector'.pc \in {"copy", "done", "returned"}
      /\ collector'.pc = "copy" => collector.todo = << >> /\ filesCh.buf = << >>
      /\ collector'.pc # "copy" => Copying
      /\ collector'.pc \in {"done", "returned"} =>
           collector.files = << >> \/ collector.pc = "done"
  BY DEF FilesChannelClosed, FilesCopied, CollectorDone, Collector, Copying, DiagnosticsInv, TypeOK
<1>2. /\ BreaksNoted' /\ CopiesInOrder' /\ ClosedWhenSent' /\ StreamHasEntry' /\ PathsKept'
  BY <1>1 DEF ArchiveInv, BreaksNoted, CopiesInOrder, ClosedWhenSent, StreamHasEntry, PathsKept,
              ToCopy, InArchive
<1>3. /\ UNCHANGED <<worker, results, given>> /\ Published' = Published
      /\ ReportedArePublished'
  BY <1>1, CollectorLeaves
<1>4. \A e : Tracked(e) => Tracked(e)'
  BY <1>1 DEF Tracked, Taken, NoName, StreamTaken, StreamToCopy
<1>5. FilesTracked'
  BY <1>1, <1>3, <1>4 DEF ArchiveInv, FilesTracked
<1> QED
  BY <1>2, <1>3, <1>5 DEF ArchiveInv

\* A producer closes its stream when it has sent everything.
LEMMA CloseTracks ==
  ASSUME DiagnosticsInv, ArchiveInv, NEW s \in Stream, CloseStream(s)
  PROVE  ArchiveInv'
<1> USE DEF collectorElse, CloseStream
<1>1. UNCHANGED <<collector, zip, faults, filesCh>>
  OBVIOUS
<1>2. /\ stream'[s].state = "closed" /\ stream'[s].sent = Chunks[s]
      /\ \A r \in Stream \ {s} : stream'[r] = stream[r]
  BY DEF DiagnosticsInv, TypeOK
<1>3. BreaksNoted' /\ CopiesInOrder' /\ ClosedWhenSent' /\ StreamHasEntry' /\ PathsKept'
  BY <1>1, <1>2 DEF ArchiveInv, BreaksNoted, CopiesInOrder, ClosedWhenSent, StreamHasEntry,
                    PathsKept, ToCopy, InArchive, Copying
<1>4. /\ UNCHANGED <<worker, results, given>> /\ Published' = Published
      /\ ReportedArePublished'
  BY CollectorLeaves
<1>5. \A r \in Stream : StreamTaken(r) => StreamTaken(r)'
  BY <1>1, <1>2 DEF StreamTaken, StreamToCopy, Copying
<1>6. FilesTracked'
  BY <1>1, <1>5, FilesStayTracked
<1> QED
  BY <1>3, <1>4, <1>6 DEF ArchiveInv

----------------------------------------------------------------------------
(* What main does to them                                                  *)

\* The parts of the invariant that main leaves alone: it sends and receives no
\* files, and reports what was sent.
LEMMA MainLeaves ==
  ASSUME DiagnosticsInv, ArchiveInv, Main
  PROVE  CopiesInOrder' /\ ClosedWhenSent' /\ FilesTracked' /\ ReportedArePublished'
<1> USE DEF MainAt, mainElse
<1>0. TypeOK /\ Control
  BY DEF DiagnosticsInv
<1>1. /\ UNCHANGED <<results, given, filesCh, stream>>
      /\ \/ UNCHANGED <<worker, collector>>
         \/ /\ worker.pc = "off" /\ collector.pc = "off"
            /\ worker' = [worker EXCEPT !.pc = "receive"]
            /\ collector' = [collector EXCEPT !.pc = "receive"]
  BY <1>0 DEF Main, StartRegistrar, ReturnEarly, CreateZip, CreateFileList, IncludeFile, StartTasks,
      WriteLineResult, ResultsWritten, WaitGroup, WriteOutputFile, CopyOutputToZip,
      CopyScriptOutput, CopyFileListToZip, CloseZip, ProcessUploads, ReturnFromMain,
      Control, WaitGroupCounts, Setup
<1>2. /\ worker'.task = worker.task
      /\ worker'.pc = worker.pc \/ (worker.pc = "off" /\ worker'.pc = "receive")
      /\ collector'.pc = collector.pc \/ (collector.pc = "off" /\ collector'.pc = "receive")
      /\ collector'.todo = collector.todo /\ collector'.files = collector.files
      /\ collector'.names = collector.names /\ collector'.paths = collector.paths
  BY <1>0, <1>1 DEF TypeOK
<1>3. Copying' = Copying /\ Published' = Published
  BY <1>1, <1>2 DEF Copying, Published
<1>4. CopiesInOrder' /\ ClosedWhenSent'
  BY <1>1, <1>2, <1>3 DEF ArchiveInv, CopiesInOrder, ClosedWhenSent
<1>5. \A e : Tracked(e) => Tracked(e)'
  BY <1>1, <1>2, <1>3 DEF Tracked, Taken, NoName, StreamTaken, StreamToCopy
<1>6. FilesTracked'
  BY <1>1, <1>2, <1>3, <1>5 DEF ArchiveInv, FilesTracked
<1>7. ReportedArePublished'
  <2>1. CASE WriteLineResult
    <3>1. PICK h \in Task : h = Head(resultsCh.buf)
      BY <1>0, <2>1, HeadTypes DEF WriteLineResult
    <3>2. /\ resultsCh.buf \in Seq(Task) /\ resultsCh.buf # << >> /\ outputResults \in Seq(Task)
          /\ resultsCh'.buf = Tail(resultsCh.buf)
          /\ outputResults' \in {outputResults, Append(outputResults, h)}
      BY <1>0, <2>1, <3>1 DEF WriteLineResult, TypeOK, Chan
    <3>3. /\ Range(resultsCh.buf) = {h} \cup Range(resultsCh'.buf)
          /\ Range(Append(outputResults, h)) = Range(outputResults) \cup {h}
      BY <3>1, <3>2, RangeOfHeadTail, RangeOfAppend
    <3> QED
      BY <1>3, <3>2, <3>3 DEF ArchiveInv, ReportedArePublished
  <2>2. CASE ~WriteLineResult
    <3>1. UNCHANGED <<resultsCh, outputResults>>
      BY <2>2 DEF Main, StartRegistrar, ReturnEarly, CreateZip, CreateFileList, IncludeFile,
         StartTasks, ResultsWritten, WaitGroup, WriteOutputFile, CopyOutputToZip,
         CopyScriptOutput, CopyFileListToZip, CloseZip, ProcessUploads, ReturnFromMain
    <3> QED
      BY <1>3, <3>1 DEF ArchiveInv, ReportedArePublished
  <2> QED
    BY <2>1, <2>2
<1> QED
  BY <1>4, <1>6, <1>7

\* A file that main copies itself leaves those of the tasks where they are.
LEMMA OwnFileTracks ==
  ASSUME DiagnosticsInv, ArchiveInv, NEW n \in StoredName, NEW q \in Path, CopyEntry(n, q),
         UNCHANGED collector, faults \subseteq faults',
         zip' # WithEntry(n, q, TRUE) => "archive" \in faults'
  PROVE  BreaksNoted' /\ PathsKept'
<1>1. /\ BreaksNoted'
      /\ \A p : InArchive(p) => InArchive(p)'
      /\ "archive" \notin faults' => "archive" \notin faults
  BY CopyArchives DEF DiagnosticsInv, ArchiveInv
<1> QED
  BY <1>1 DEF ArchiveInv, PathsKept, ToCopy

\* Main keeps the invariant: it writes to the archive while nobody copies.
LEMMA MainTracks ==
  ASSUME DiagnosticsInv, ArchiveInv, Main
  PROVE  ArchiveInv'
<1> USE DEF MainAt, mainElse
<1>0. TypeOK /\ Control
  BY DEF DiagnosticsInv
<1>1. CopiesInOrder' /\ ClosedWhenSent' /\ FilesTracked' /\ ReportedArePublished'
  BY MainLeaves
<1>2. CASE StartRegistrar \/ ReturnEarly \/ CreateFileList \/ StartTasks \/ WriteLineResult
           \/ ResultsWritten \/ WaitGroup \/ WriteOutputFile \/ ProcessUploads \/ ReturnFromMain
  <2>1. /\ UNCHANGED zip /\ collector'.files = collector.files
        /\ collector'.paths = collector.paths
        /\ "archive" \in faults' <=> "archive" \in faults
        /\ collector'.pc = "stream" => collector.pc = "stream"
    BY <1>0, <1>2 DEF StartRegistrar, ReturnEarly, CreateFileList, StartTasks, WriteLineResult,
           ResultsWritten, WaitGroup, WriteOutputFile, ProcessUploads, ReturnFromMain, TypeOK
  <2> QED
    BY <1>1, <2>1 DEF ArchiveInv, BreaksNoted, StreamHasEntry, PathsKept, ToCopy, InArchive
<1>3. CASE CreateZip \/ CloseZip
  <2>1. /\ zip'.entries = zip.entries /\ UNCHANGED collector /\ main \in {"zip", "closeZip"}
        /\ zip'.broken => zip.broken \/ "archive" \in faults'
        /\ "archive" \in faults => "archive" \in faults'
    BY <1>0, <1>3 DEF CreateZip, CloseZip, TypeOK
  <2>2. collector.pc # "stream"
    BY <1>0, <2>1 DEF Control, WaitGroupCounts, Setup, Waited, Drained
  <2> QED
    BY <1>1, <2>1, <2>2 DEF ArchiveInv, BreaksNoted, StreamHasEntry, PathsKept, ToCopy, InArchive
<1>4. CASE IncludeFile \/ CopyScriptOutput
  <2>1. /\ UNCHANGED collector /\ main \in ZipUsers /\ walk # << >>
        /\ \E f \in {"Include", "ScriptOutput"} : CopyWalked(f, Head(walk))
    BY <1>4 DEF IncludeFile, CopyScriptOutput, ZipUsers
  <2>2. PICK f \in {"Include", "ScriptOutput"} : CopyWalked(f, Head(walk))
    BY <2>1
  <2>3. Head(walk) \in Path /\ NameUnder(f, Head(walk)) \in StoredName
    BY <1>0, <2>1, HeadTypes, NamesOfWalked
  <2> DEFINE q == Head(walk)
             n == NameUnder(f, q)
             e == WithFolder(PlainFile(q), IF main = "include" THEN NoFolder ELSE f)
  <2>4. e.path = q
    BY <2>3, NamesOfWalked
  <2>5. \/ UNCHANGED <<zip, faults>>
        \/ CopyEntry(n, q) /\ faults' = FaultsOf(n, e)
        \/ CopyEntry(n, q) /\ faults' = faults \cup {"archive"}
    BY <2>2 DEF CopyWalked
  <2>6. n \in StoredName /\ q \in Path
    BY <2>3
  <2> HIDE DEF n, e, q
  <2>7. BreaksNoted' /\ PathsKept'
    <3>1. CASE UNCHANGED <<zip, faults>>
      BY <2>1, <3>1 DEF ArchiveInv, BreaksNoted, PathsKept, ToCopy, InArchive
    <3>2. CASE CopyEntry(n, q) /\ (faults' = FaultsOf(n, e) \/ faults' = faults \cup {"archive"})
      <4>1. /\ faults \subseteq faults'
            /\ zip' # WithEntry(n, q, TRUE) => "archive" \in faults'
        BY <2>4, <3>2 DEF FaultsOf
      <4> QED
        BY <2>1, <2>6, <3>2, <4>1, OwnFileTracks
    <3> QED
      BY <2>5, <3>1, <3>2
  <2>8. StreamHasEntry'
    BY <2>1, MainAlone DEF StreamHasEntry
  <2> QED
    BY <1>1, <2>7, <2>8 DEF ArchiveInv
<1>5. CASE CopyOutputToZip \/ CopyFileListToZip
  <2>1. /\ UNCHANGED collector /\ main \in ZipUsers
        /\ \/ UNCHANGED <<zip, faults>>
           \/ \E q \in {JsonPath, FilelistPath} :
                /\ CopyEntry(StoreName(PlainFile(q)), q)
                /\ faults' = FaultsOf(StoreName(PlainFile(q)), PlainFile(q))
    BY <1>5 DEF CopyOutputToZip, CopyFileListToZip, ZipUsers
  <2>2. BreaksNoted' /\ PathsKept'
    <3>1. CASE UNCHANGED <<zip, faults>>
      BY <2>1, <3>1 DEF ArchiveInv, BreaksNoted, PathsKept, ToCopy, InArchive
    <3>2. ASSUME NEW q \in {JsonPath, FilelistPath},
                 CopyEntry(StoreName(PlainFile(q)), q),
                 faults' = FaultsOf(StoreName(PlainFile(q)), PlainFile(q))
          PROVE  BreaksNoted' /\ PathsKept'
      <4>1. q \in Path /\ StoreName(PlainFile(q)) \in StoredName
        BY DiagnosticsAssumption, NamesOfEnvelopes
      <4>2. PlainFile(q).path = q
        BY DEF PlainFile
      <4>3. /\ faults \subseteq faults'
            /\ zip' # WithEntry(StoreName(PlainFile(q)), q, TRUE) => "archive" \in faults'
        BY <3>2, <4>2 DEF FaultsOf
      <4> QED
        BY <2>1, <3>2, <4>1, <4>3, OwnFileTracks
    <3> QED
      BY <2>1, <3>1, <3>2
  <2>3. StreamHasEntry'
    BY <2>1, MainAlone DEF StreamHasEntry
  <2> QED
    BY <1>1, <2>2, <2>3 DEF ArchiveInv
<1> QED
  BY <1>2, <1>3, <1>4, <1>5 DEF Main

\* The invariant holds before the run, and every step keeps it.
LEMMA InitArchiveInv == Init => ArchiveInv
<1> SUFFICES ASSUME Init PROVE ArchiveInv
  OBVIOUS
<1>1. /\ DOMAIN given = {} /\ outputResults = << >> /\ resultsCh.buf = << >>
      /\ zip.broken = FALSE /\ collector.pc = "off" /\ collector.paths = {}
      /\ \A s \in Stream : stream[s].state = "idle"
  BY DEF Init
<1>2. Range(outputResults) = {} /\ Range(resultsCh.buf) = {} /\ Published = {}
  BY <1>1, RangeOfEmpty DEF Published
<1> QED
  BY <1>1, <1>2 DEF ArchiveInv, BreaksNoted, CopiesInOrder, ClosedWhenSent, StreamHasEntry,
                    PathsKept, FilesTracked, ReportedArePublished, Copying

\* Every step keeps the invariant of the archive.
LEMMA NextArchiveInv == DiagnosticsInv /\ ArchiveInv /\ [Next]_vars => ArchiveInv'
<1> SUFFICES ASSUME DiagnosticsInv, ArchiveInv, [Next]_vars PROVE ArchiveInv'
  OBVIOUS
<1>1. CASE Collector
  BY <1>1, ReceiveTracks, EnvelopeTracks, CopyTracks, OpenTracks, ReadTracks, EndTracks, TurnsTrack
  DEF Collector
<1>2. CASE SuiteError \/ Register \/ UNCHANGED vars
  <2>1. UNCHANGED <<worker, results, given, resultsCh, filesCh, collector, stream, zip, faults,
                    outputResults>>
    BY <1>2 DEF SuiteError, Register, vars, procVars
  <2>2. Published' = Published
    BY <2>1 DEF Published
  <2>3. \A e : Tracked(e) => Tracked(e)'
    BY <2>1 DEF Tracked, Taken, NoName, StreamTaken, StreamToCopy, Copying
  <2>4. FilesTracked'
    BY <2>1, <2>2, <2>3 DEF ArchiveInv, FilesTracked
  <2> QED
    BY <2>1, <2>2, <2>4 DEF ArchiveInv, BreaksNoted, CopiesInOrder, ClosedWhenSent, StreamHasEntry,
                            PathsKept, ReportedArePublished, Copying, ToCopy, InArchive
<1> QED
  BY <1>1, <1>2, WorkerTracks, CloseTracks, MainTracks DEF Next, Ended

\* At the end of the run nothing is on the way any more.
LEMMA ArchivedAtLast == DiagnosticsInv /\ ArchiveInv => ArchiveComplete
<1> SUFFICES ASSUME DiagnosticsInv, ArchiveInv, zip.state = "closed", "archive" \notin faults,
                    NEW t \in Range(outputResults), NEW i \in DOMAIN results[t].files,
                    NEW e, e = results[t].files[i], Wanted(e)
             PROVE  \/ /\ \E k \in DOMAIN zip.entries :
                            zip.entries[k].path = e.path /\ zip.entries[k].whole
                       /\ e.stream # NoStream => stream[e.stream].sent = Chunks[e.stream]
                    \/ FreeInstances(e, collector.names) = {}
  BY DEF ArchiveComplete
<1>0. TypeOK /\ Control
  BY DEF DiagnosticsInv
<1>1. worker.pc = "returned" /\ collector.pc = "returned"
  <2>1. main \in {"upload", "end"}
    BY <1>0 DEF Control, ZipState
  <2>2. wg = 0 /\ worker.pc # "off" /\ collector.pc # "off"
    BY <1>0, <2>1 DEF Control, WaitGroupCounts, Setup, Waited, Drained
  <2> QED
    BY <1>0, <2>2 DEF Control, WaitGroupCounts
<1>2. /\ Range(filesCh.buf) = {} /\ Range(collector.todo) = {} /\ Range(collector.files) = {}
  BY <1>1, RangeOfEmpty DEF ArchiveInv, CopiesInOrder, Copying
<1>3. t \in Published /\ e \in Range(results[t].files)
  BY DEF ArchiveInv, ReportedArePublished, Range
<1>4. Taken(e) \/ NoName(e)
  BY <1>1, <1>2, <1>3 DEF ArchiveInv, FilesTracked, Tracked
<1>5. ASSUME Taken(e)
      PROVE  /\ \E k \in DOMAIN zip.entries :
                  zip.entries[k].path = e.path /\ zip.entries[k].whole
             /\ e.stream # NoStream => stream[e.stream].sent = Chunks[e.stream]
  <2>1. InArchive(e.path)
    BY <1>2, <1>5 DEF ArchiveInv, PathsKept, Taken, ToCopy
  <2>2. e.stream # NoStream => stream[e.stream].state = "closed"
    BY <1>2, <1>5 DEF Taken, StreamTaken, StreamToCopy
  <2>3. e.stream # NoStream => e.stream \in Stream
    <3>1. results[t].files \in Seq(Envelope)
      BY <1>0, <1>3 DEF TypeOK, Result, Published
    <3>2. e \in Envelope
      BY <3>1, ElementOfSeq, LenProperties
    <3> QED
      BY <3>2 DEF Envelope
  <2> QED
    BY <2>1, <2>2, <2>3 DEF InArchive, Range, ArchiveInv, ClosedWhenSent
<1> QED
  BY <1>4, <1>5 DEF NoName

----------------------------------------------------------------------------

\* No file is lost between a task's result and the archive (processTasks,
\* ProcessFilesChannel, copyFilesToZip): once the archive is closed, and unless a
\* read or a write has failed, every file a reported task returned is in it whole
\* and every string of its streams was read, unless no free name was found.
THEOREM ArchiveIsComplete == Spec => []ArchiveComplete
BY InitArchiveInv, NextArchiveInv, ArchivedAtLast, RunInvariant, PTL DEF Spec

\* "copy the file list to the zip file last to ensure it's up to date": unless a line
\* could not be written, the list in the archive names every file that is in it whole.
THEOREM ArchiveIsListed == Spec => []ArchiveListed
<1>1. ArchiveInv => StreamHasEntry
  BY DEF ArchiveInv
<1> QED
  BY <1>1, InitArchiveInv, NextArchiveInv, InitListInv, NextListInv, ListedAtLast, RunInvariant,
     PTL DEF Spec

----------------------------------------------------------------------------
(***************************************************************************)
(* The names in the archive.                                               *)
(***************************************************************************)

\* The name that was reserved for the file that is stored under a name.
Reserved(name) == [name EXCEPT !.folder = IF name.numbers = << >> THEN "" ELSE NoFolder]

\* The entries that may share their name: those of a script, and the files of tasks
\* that the collector cannot tell apart.
OddName(name, path) ==
  \/ name.folder = "ScriptOutput"
  \/ name.folder \in Folder /\ path \in OddPaths

\* The names of the others.
EntryNames == {z.name : z \in {x \in Range(zip.entries) : ~OddName(x.name, x.path)}}

\* A script's file has its path as its name.
ScriptNamed(name, path) == name.folder = "ScriptOutput" => name.stem = path

\* No other entries share their name.
Unshared ==
  /\ \A i, j \in DOMAIN zip.entries :
       i # j =>
         \/ OddName(zip.entries[i].name, zip.entries[i].path)
         \/ OddName(zip.entries[j].name, zip.entries[j].path)
         \/ zip.entries[i].name # zip.entries[j].name
  /\ \A i \in DOMAIN zip.entries : ScriptNamed(zip.entries[i].name, zip.entries[i].path)

\* The files that have no entry yet.
Uncopied == IF collector.pc = "stream" THEN Tail(collector.files) ELSE collector.files

ResultsReturned == \A t \in Task : Range(results[t].files) \subseteq Returned(t)

\* The collector looks at the files of one task, and knows its folder.
TodoReturned ==
  collector.todo # << >> =>
    \E t \in Task : collector.folder = FolderOf[t] /\ Range(collector.todo) \subseteq Returned(t)

\* Whatever the collector has stored, or will store, was reserved.
NamesReserved ==
  /\ \A m \in EntryNames : m.folder \in Folder => Reserved(m) \in collector.names
  /\ \A f \in Range(collector.files) :
       /\ StoreName(f).folder \in Folder
       /\ f.path \notin OddPaths => Reserved(StoreName(f)) \in collector.names

Differ(e, f) == e.path \in OddPaths \/ f.path \in OddPaths \/ StoreName(e) # StoreName(f)

Apart(files) == \A i, j \in DOMAIN files : i # j => Differ(files[i], files[j])

FilesApart ==
  /\ Apart(collector.files)
  /\ \A f \in Range(Uncopied) : f.path \notin OddPaths => StoreName(f) \notin EntryNames

\* The files under the folder of -include have the names of paths main has come by.
WalkedNames ==
  NoRepeats(walk) /\ \A m \in EntryNames : m.folder = "Include" => m.stem \notin Range(walk)

\* Main stores the files of -include, then the report, those of a script, and the
\* list.
OwnNames ==
  /\ main = "include" => WalkedNames
  /\ \A m \in EntryNames :
       m.folder = "" =>
         /\ main \in {"copyScript", "closeZip", "upload", "end"}
         /\ main = "copyScript" => m = StoreName(PlainFile(JsonPath))

NameInv ==
  /\ ResultsReturned /\ TodoReturned /\ NamesReserved /\ FilesApart /\ OwnNames
  /\ Unshared

\* Nothing in a sequence without repetitions is in it again.
LEMMA NoRepeatsTail ==
  ASSUME NEW S, NEW s \in Seq(S), s # << >>, NoRepeats(s)
  PROVE  NoRepeats(Tail(s)) /\ Head(s) \notin Range(Tail(s))
<1>1. PICK n \in Nat \ {0} : n = Len(s)
  BY LenProperties, EmptySeq
<1>2. /\ DOMAIN s = 1 .. n /\ DOMAIN Tail(s) = 1 .. n - 1
      /\ Head(s) = s[1] /\ \A k \in 1 .. n - 1 : Tail(s)[k] = s[k + 1]
  BY <1>1
<1>3. 1 \in 1 .. n /\ \A k \in 1 .. n - 1 : k + 1 \in 1 .. n /\ k + 1 # 1
  OBVIOUS
<1>4. \A j, k \in 1 .. n - 1 : j # k => j + 1 # k + 1
  OBVIOUS
<1> QED
  BY <1>2, <1>3, <1>4 DEF NoRepeats, Range

\* The same of the names files are stored under.
LEMMA ApartTail ==
  ASSUME NEW S, NEW s \in Seq(S), s # << >>, Apart(s)
  PROVE  Apart(Tail(s)) /\ \A f \in Range(Tail(s)) : Differ(f, Head(s))
<1>1. PICK n \in Nat \ {0} : n = Len(s)
  BY LenProperties, EmptySeq
<1>2. /\ DOMAIN s = 1 .. n /\ DOMAIN Tail(s) = 1 .. n - 1
      /\ Head(s) = s[1] /\ \A k \in 1 .. n - 1 : Tail(s)[k] = s[k + 1]
  BY <1>1
<1>3. 1 \in 1 .. n /\ \A k \in 1 .. n - 1 : k + 1 \in 1 .. n /\ k + 1 # 1
  OBVIOUS
<1>4. \A j, k \in 1 .. n - 1 : j # k => j + 1 # k + 1
  OBVIOUS
<1>5. \A j, k \in 1 .. n : j # k => Differ(s[j], s[k])
  BY <1>2 DEF Apart
<1>6. \A j, k \in 1 .. n - 1 : j # k => Differ(Tail(s)[j], Tail(s)[k])
  BY <1>2, <1>3, <1>4, <1>5
<1>7. \A k \in 1 .. n - 1 : Differ(Tail(s)[k], Head(s))
  BY <1>2, <1>3, <1>5
<1> QED
  BY <1>2, <1>6, <1>7 DEF Apart, Range

\* A file more, under a name that none of the others has.
LEMMA ApartAppend ==
  ASSUME NEW S, NEW s \in Seq(S), NEW x \in S, Apart(s),
         \A f \in Range(s) : Differ(f, x)
  PROVE  Apart(Append(s, x))
<1>1. PICK n \in Nat : n = Len(s)
  BY LenProperties
<1>2. /\ DOMAIN s = 1 .. n /\ DOMAIN Append(s, x) = 1 .. n + 1
      /\ Append(s, x)[n + 1] = x /\ \A k \in 1 .. n : Append(s, x)[k] = s[k]
  BY <1>1
<1>3. \A k \in 1 .. n + 1 : k # n + 1 => k \in 1 .. n
  OBVIOUS
<1>4. \A k \in 1 .. n : Differ(s[k], x) /\ Differ(x, s[k])
  BY <1>2 DEF Range, Differ
<1>5. \A j, k \in 1 .. n : j # k => Differ(s[j], s[k])
  BY <1>2 DEF Apart
<1>6. \A j, k \in 1 .. n + 1 : j # k => Differ(Append(s, x)[j], Append(s, x)[k])
  BY <1>2, <1>3, <1>4, <1>5
<1> QED
  BY <1>2, <1>6 DEF Apart

\* An entry more, likewise; or none.
LEMMA UniqueAppend ==
  ASSUME TypeOK, Unshared, NEW x, zip'.entries \in {zip.entries, Append(zip.entries, x)},
         OddName(x.name, x.path) \/ x.name \notin EntryNames, ScriptNamed(x.name, x.path)
  PROVE  /\ Unshared' /\ EntryNames \subseteq EntryNames'
         /\ \A m \in EntryNames' \ EntryNames : m = x.name /\ ~OddName(x.name, x.path)
<1>1. zip.entries \in Seq(Entry)
  BY DEF TypeOK
<1>2. PICK n \in Nat : n = Len(zip.entries)
  BY <1>1, LenProperties
<1>3. CASE zip'.entries = zip.entries
  BY <1>3 DEF Unshared, EntryNames
<1>4. CASE zip'.entries = Append(zip.entries, x)
  <2>1. /\ DOMAIN zip.entries = 1 .. n /\ DOMAIN zip'.entries = 1 .. n + 1
        /\ zip'.entries[n + 1] = x /\ \A k \in 1 .. n : zip'.entries[k] = zip.entries[k]
    BY <1>1, <1>2, <1>4
  <2>2. \A k \in 1 .. n + 1 : k # n + 1 => k \in 1 .. n
    OBVIOUS
  <2>3. \A k \in 1 .. n : \/ OddName(zip.entries[k].name, zip.entries[k].path)
                          \/ OddName(x.name, x.path)
                          \/ zip.entries[k].name # x.name
    BY <2>1 DEF EntryNames, Range
  <2>4. Unshared'
    BY <2>1, <2>2, <2>3 DEF Unshared
  <2>5. Range(zip'.entries) = Range(zip.entries) \cup {x}
    BY <1>1, <1>4, RangeOfAppend
  <2> QED
    BY <2>4, <2>5 DEF EntryNames
<1> QED
  BY <1>3, <1>4

\* A file that is copied under a name that is free keeps the names apart.
LEMMA CopyNames ==
  ASSUME TypeOK, Unshared, NEW n \in StoredName, NEW q \in Path, CopyEntry(n, q),
         OddName(n, q) \/ n \notin EntryNames, ScriptNamed(n, q)
  PROVE  Unshared' /\ \A m \in EntryNames' \ EntryNames : m = n /\ ~OddName(n, q)
<1> DEFINE x(w) == [name |-> n, path |-> q, whole |-> w]
<1>1. PICK w \in BOOLEAN : zip'.entries \in {zip.entries, Append(zip.entries, x(w))}
  BY CopyWrites
<1>2. x(w).name = n /\ x(w).path = q
  OBVIOUS
<1> HIDE DEF x
<1> QED
  BY <1>1, <1>2, UniqueAppend

\* The collector stores a file under a name that tells which name it has reserved.
LEMMA ReservedName ==
  ASSUME NEW t \in Task, NEW e \in Returned(t), e \in Envelope, NEW n \in Nat,
         NEW name, name = StoreName(WithFolder(Instance(e, n), FolderOf[t]))
  PROVE  /\ name.folder \in Folder
         /\ e.path \notin OddPaths => Reserved(name) = StoreName(Instance(e, n))
<1> DEFINE stem == BaseName[e.path].stem
           folder == IF e.folder = NoFolder THEN FolderOf[t] ELSE e.folder
           numbers == IF n = 0 THEN << >> ELSE << n >>
           raw == [folder |-> IF n = 0 THEN "" ELSE NoFolder, stem |-> stem, numbers |-> numbers]
           stored == [folder |-> folder, stem |-> stem, numbers |-> numbers]
<1>1. /\ e.instance = 0
      /\ e.path \notin OddPaths =>
           e.folder = NoFolder /\ BaseName[e.path].numbers = << >>
      /\ FolderOf[t] \in Folder /\ e.folder \in Folder \cup {NoFolder}
      /\ NoFolder = "." /\ NoFolder \notin Folder /\ "" \notin Folder
  <2>1. e \in UNION {Returned(u) : u \in Task}
    OBVIOUS
  <2>2. e.path \notin OddPaths => e.folder = NoFolder /\ BaseName[e.path].numbers = << >>
    BY <2>1 DEF OddPaths
  <2>3. e.instance = 0
    BY NamesAssumption
  <2>4. /\ FolderOf[t] \in Folder /\ e.folder \in Folder \cup {NoFolder}
        /\ NoFolder = "." /\ NoFolder \notin Folder /\ "" \notin Folder
    BY FileNamesAssumption, DiagnosticsAssumption DEF NoFolder, Envelope
  <2> QED
    BY <2>2, <2>3, <2>4
<1>2. /\ Instance(e, n).instance = n /\ Instance(e, n).path = e.path
      /\ Instance(e, n).folder = e.folder
      /\ Instance(e, n) \in Envelope
  <2>1. 0 + n = n
    OBVIOUS
  <2>2. Instance(e, n) = [e EXCEPT !.instance = n]
    BY <1>1, <2>1 DEF Instance
  <2> QED
    BY <2>2, NamesOfEnvelopes DEF Envelope
<1>3. Append(<< >>, n) = << n >> /\ (n # 0 => << n >> # << >>)
  OBVIOUS
<1>4. /\ WithFolder(Instance(e, n), FolderOf[t]) \in Envelope
      /\ WithFolder(Instance(e, n), FolderOf[t]).path = e.path
      /\ WithFolder(Instance(e, n), FolderOf[t]).instance = n
      /\ WithFolder(Instance(e, n), FolderOf[t]).folder = folder
  BY <1>1, <1>2, NamesOfEnvelopes DEF WithFolder, Envelope
<1>5. folder \in Folder /\ folder # NoFolder
  BY <1>1
<1>6. name.folder \in Folder
  BY <1>4, <1>5 DEF StoreName, Name, Envelope
<1>7. ASSUME e.path \notin OddPaths
      PROVE  Reserved(name) = StoreName(Instance(e, n))
  <2>1. \A d \in Envelope : d.path = e.path /\ d.instance = n =>
          StoreName(d) = [folder |-> IF d.folder = NoFolder /\ n = 0 THEN "" ELSE d.folder,
                          stem |-> stem, numbers |-> numbers]
    BY <1>1, <1>3, <1>7 DEF StoreName, Name
  <2>2. StoreName(Instance(e, n)) = raw
    BY <1>1, <1>2, <1>7, <2>1
  <2>3. name = stored
    BY <1>4, <1>5, <2>1
  <2>4. numbers = << >> <=> n = 0
    BY <1>3
  <2> HIDE DEF stem, folder, numbers
  <2>5. Reserved(stored) = [stored EXCEPT !.folder = IF n = 0 THEN "" ELSE NoFolder]
    BY <2>4 DEF Reserved
  <2>6. Reserved(stored) = raw
    BY <2>5
  <2> QED
    BY <2>2, <2>3, <2>6
<1> QED
  BY <1>6, <1>7

\* A step that changes neither what is stored, nor what is to be, nor where main is
\* and what it has to walk, changes nothing about the names.
LEMMA NamesLeft ==
  ASSUME NameInv, zip'.entries = zip.entries, UNCHANGED <<collector, main, walk>>,
         ResultsReturned'
  PROVE  NameInv'
BY DEF NameInv, TodoReturned, NamesReserved, FilesApart, OwnNames, Unshared, EntryNames,
       Uncopied, WalkedNames

\* A result is one that the task may return, or an override, which has no files.
LEMMA ResultsAreReturned ==
  ASSUME DiagnosticsInv, ResultsReturned, [Next]_vars
  PROVE  ResultsReturned'
<1>1. CASE ProcessTask
  <2>1. PICK t \in Task : t = worker.task
    BY <1>1, ExecutedInOrder DEF ProcessTask, WorkerAt
  <2>2. PICK r \in Outcomes[t] \cup {OverrideResult(overrides[t]), results[t]} :
          results' = [results EXCEPT ![t] = r]
    BY <1>1, <2>1 DEF ProcessTask, DiagnosticsInv, TypeOK
  <2>3. Range(r.files) \subseteq Returned(t)
    <3>1. OverrideResult(overrides[t]).files = << >>
      BY DEF OverrideResult, ZeroResult
    <3> QED
      BY <2>2, <3>1, RangeOfEmpty DEF Returned, ResultsReturned
  <2> QED
    BY <2>2, <2>3 DEF ResultsReturned, DiagnosticsInv, TypeOK
<1>2. CASE ~ProcessTask
  <2>1. results' = results
    BY <1>2, OnlyProcessTask
  <2> QED
    BY <2>1 DEF ResultsReturned
<1> QED
  BY <1>1, <1>2

\* The collector has the files of one task before it, and the folder of that task.
LEMMA ReceiveNames ==
  ASSUME DiagnosticsInv, NameInv, ReceiveFiles, ResultsReturned'
  PROVE  NameInv'
<1> USE DEF collectorElse, CollectorAt
<1>0. TypeOK
  BY DEF DiagnosticsInv
<1>1. PICK t \in Task : t = Head(filesCh.buf)
  BY <1>0, HeadTypes DEF ReceiveFiles
<1>2. /\ UNCHANGED <<zip, main, walk>>
      /\ collector.pc = "receive" /\ collector'.pc = "receive"
      /\ collector'.folder = FolderOf[t] /\ collector'.todo = results[t].files
      /\ collector'.names = collector.names /\ collector'.files = collector.files
  BY <1>0, <1>1 DEF ReceiveFiles, TypeOK
<1>3. TodoReturned'
  BY <1>2 DEF TodoReturned, NameInv, ResultsReturned
<1>4. NamesReserved' /\ FilesApart' /\ OwnNames' /\ Unshared'
  BY <1>2 DEF NameInv, NamesReserved, FilesApart, OwnNames, Unshared, EntryNames,
              Uncopied, WalkedNames
<1> QED
  BY <1>3, <1>4 DEF NameInv

\* The name that is reserved for a file was free, so no file, stored or to be stored,
\* has the one it is to be stored under.
LEMMA EnvelopeNames ==
  ASSUME DiagnosticsInv, NameInv, ProcessEnvelope, ResultsReturned'
  PROVE  NameInv'
<1> USE DEF collectorElse, CollectorAt
<1>0. TypeOK
  BY DEF DiagnosticsInv
<1>1. PICK e \in Envelope : e = Head(collector.todo)
  BY <1>0, HeadTypes DEF ProcessEnvelope
<1>2. /\ UNCHANGED <<zip, main, walk>>
      /\ collector.pc = "receive" /\ collector'.pc = "receive"
      /\ collector.todo # << >> /\ collector.todo \in Seq(Envelope)
      /\ collector'.todo = Tail(collector.todo) /\ collector'.folder = collector.folder
  BY <1>0 DEF ProcessEnvelope, TypeOK
<1>3. PICK t \in Task : collector.folder = FolderOf[t] /\ Range(collector.todo) \subseteq Returned(t)
  BY <1>2 DEF NameInv, TodoReturned
<1>4. Range(collector.todo) = {e} \cup Range(collector'.todo)
  BY <1>1, <1>2, RangeOfHeadTail
<1>5. TodoReturned' /\ e \in Returned(t)
  BY <1>2, <1>3, <1>4 DEF TodoReturned
<1>6. OwnNames' /\ Unshared' /\ EntryNames' = EntryNames
  BY <1>2 DEF NameInv, OwnNames, Unshared, EntryNames, WalkedNames
<1>7. CASE collector' = [collector EXCEPT !.todo = Tail(@)]
  <2>1. collector'.names = collector.names /\ collector'.files = collector.files
    BY <1>0, <1>7 DEF TypeOK
  <2> QED
    BY <1>2, <1>5, <1>6, <2>1 DEF NameInv, NamesReserved, FilesApart, Uncopied
<1>8. ASSUME NEW n \in FreeInstances(e, collector.names),
             collector' = [[collector EXCEPT !.todo = Tail(@)] EXCEPT
                             !.names = @ \cup {StoreName(Instance(e, n))},
                             !.paths = @ \cup {e.path},
                             !.files = Append(@, WithFolder(Instance(e, n), collector.folder))]
      PROVE  NameInv'
  <2> DEFINE f == WithFolder(Instance(e, n), FolderOf[t])
             own == StoreName(f)
             key == StoreName(Instance(e, n))
  <2>1. n \in Nat /\ key \notin collector.names
    <3>1. \A k \in 0 .. MaxTries - 1 : k \in Nat
      OBVIOUS
    <3> QED
      BY <3>1 DEF FreeInstances
  <2>2. own.folder \in Folder /\ (e.path \notin OddPaths => Reserved(own) = key)
    BY <1>5, <2>1, ReservedName
  <2>3. f \in Envelope /\ f.path = e.path
    BY <2>1, NamesOfEnvelopes, DiagnosticsAssumption DEF WithFolder, Instance, Envelope
  <2>4. /\ collector'.names = collector.names \cup {key}
        /\ collector'.files = Append(collector.files, f) /\ collector.files \in Seq(Envelope)
    BY <1>0, <1>3, <1>8 DEF TypeOK
  <2>5. own = StoreName(f)
    OBVIOUS
  <2> HIDE DEF f, own, key
  <2>6. Range(collector'.files) = Range(collector.files) \cup {f}
    BY <2>4, RangeOfAppend
  <2>7. /\ f.path \notin OddPaths => own \notin EntryNames
        /\ \A d \in Range(collector.files) : Differ(d, f)
    BY <2>1, <2>2, <2>3, <2>5 DEF NameInv, NamesReserved, Differ
  <2>8. NamesReserved'
    BY <1>6, <2>2, <2>3, <2>4, <2>5, <2>6 DEF NameInv, NamesReserved
  <2>9. Apart(collector'.files)
    BY <2>3, <2>4, <2>7, ApartAppend DEF NameInv, FilesApart
  <2>10. FilesApart'
    BY <1>2, <1>6, <2>5, <2>6, <2>7, <2>9 DEF NameInv, FilesApart, Uncopied
  <2> QED
    BY <1>5, <1>6, <2>8, <2>10 DEF NameInv
<1> QED
  BY <1>1, <1>7, <1>8 DEF ProcessEnvelope

\* While the collector copies, main has no file of its own to store.
LEMMA NoOwnNames ==
  ASSUME DiagnosticsInv, NameInv, collector.pc \in {"copy", "stream", "noWriter"},
         UNCHANGED <<main, walk>>, \A m \in EntryNames' \ EntryNames : m.folder \in Folder
  PROVE  OwnNames'
<1>1. main \in {"results", "wait"}
  BY MainWaits
<1>2. "" \notin Folder
  BY FileNamesAssumption
<1> QED
  BY <1>1, <1>2 DEF NameInv, OwnNames, EntryNames

\* The first of the files that are to be stored leaves the others apart.
LEMMA FirstStored ==
  ASSUME DiagnosticsInv, NameInv, collector.files # << >>
  PROVE  /\ Apart(Tail(collector.files))
         /\ Range(Tail(collector.files)) \subseteq Range(collector.files)
         /\ Head(collector.files) \in Range(collector.files)
         /\ \A f \in Range(Tail(collector.files)) : Differ(f, Head(collector.files))
BY RangeOfHeadTail, ApartTail DEF DiagnosticsInv, TypeOK, NameInv, FilesApart

\* A file is stored under the name that was reserved for it.
LEMMA CopyFileNames ==
  ASSUME DiagnosticsInv, NameInv, CopyFile, ResultsReturned'
  PROVE  NameInv'
<1> USE DEF collectorElse, CollectorAt
<1>0. TypeOK
  BY DEF DiagnosticsInv
<1>1. PICK e \in Envelope : e = Head(collector.files)
  BY <1>0, HeadTypes DEF CopyFile
<1>2. /\ UNCHANGED <<main, walk>> /\ collector.pc = "copy" /\ collector'.pc = "copy"
      /\ collector.files # << >> /\ collector'.files = Tail(collector.files)
      /\ collector'.names = collector.names /\ collector'.todo = collector.todo
      /\ collector'.folder = collector.folder
      /\ CopyEntry(StoreName(e), e.path)
  BY <1>0, <1>1 DEF CopyFile, TypeOK
<1>3. PICK n \in StoredName : n = StoreName(e) /\ e.path \in Path
  BY NamesOfEnvelopes
<1>4. /\ Apart(collector'.files) /\ Range(collector'.files) \subseteq Range(collector.files)
      /\ e \in Range(collector.files) /\ \A f \in Range(collector'.files) : Differ(f, e)
  BY <1>1, <1>2, FirstStored
<1>5. /\ \A f \in Range(collector.files) : f.path \notin OddPaths => StoreName(f) \notin EntryNames
      /\ n.folder \in Folder /\ (e.path \notin OddPaths => Reserved(n) \in collector.names)
      /\ n.folder # "ScriptOutput"
  BY <1>2, <1>3, <1>4, NamesAssumption DEF NameInv, FilesApart, Uncopied, NamesReserved
<1>6. Unshared' /\ \A m \in EntryNames' \ EntryNames : m = n /\ e.path \notin OddPaths
  BY <1>0, <1>2, <1>3, <1>4, <1>5, CopyNames DEF NameInv, OddName, ScriptNamed
<1>7. TodoReturned'
  BY <1>2 DEF NameInv, TodoReturned
<1>8. NamesReserved'
  BY <1>2, <1>4, <1>5, <1>6 DEF NameInv, NamesReserved
<1>9. FilesApart'
  BY <1>2, <1>3, <1>4, <1>5, <1>6 DEF FilesApart, Uncopied, Differ
<1>10. OwnNames'
  BY <1>2, <1>5, <1>6, NoOwnNames
<1> QED
  BY <1>6, <1>7, <1>8, <1>9, <1>10 DEF NameInv

\* And so is a stream, whose entry comes before its strings.
LEMMA OpenStreamNames ==
  ASSUME DiagnosticsInv, NameInv, OpenStream, ResultsReturned'
  PROVE  NameInv'
<1> USE DEF collectorElse, CollectorAt
<1>0. TypeOK
  BY DEF DiagnosticsInv
<1>1. PICK e \in Envelope : e = Head(collector.files)
  BY <1>0, HeadTypes DEF OpenStream
<1> DEFINE x == [name |-> StoreName(e), path |-> e.path, whole |-> FALSE]
<1>2. /\ UNCHANGED <<main, walk>> /\ collector.pc = "copy"
      /\ collector.files # << >> /\ collector'.files = collector.files
      /\ collector'.names = collector.names /\ collector'.todo = collector.todo
      /\ collector'.folder = collector.folder
  BY <1>0, <1>1 DEF OpenStream, TypeOK
<1>3. \/ collector'.pc = "stream" /\ zip'.entries = Append(zip.entries, x)
      \/ collector'.pc = "noWriter" /\ zip'.entries = zip.entries
  BY <1>0, <1>1 DEF OpenStream, WithEntry, Break, TypeOK
<1>4. x.name = StoreName(e) /\ x.path = e.path
  OBVIOUS
<1> HIDE DEF x
<1>5. /\ Apart(collector.files)
      /\ Range(Tail(collector.files)) \subseteq Range(collector.files)
      /\ e \in Range(collector.files)
      /\ \A f \in Range(Tail(collector.files)) : Differ(f, e)
  BY <1>1, <1>2, FirstStored DEF NameInv, FilesApart
<1>6. /\ \A f \in Range(collector.files) : f.path \notin OddPaths => StoreName(f) \notin EntryNames
      /\ StoreName(e).folder \in Folder
      /\ e.path \notin OddPaths => Reserved(StoreName(e)) \in collector.names
      /\ StoreName(e).folder # "ScriptOutput"
  BY <1>2, <1>5, NamesAssumption DEF NameInv, FilesApart, Uncopied, NamesReserved
<1>7. Unshared' /\ \A m \in EntryNames' \ EntryNames : m = StoreName(e) /\ e.path \notin OddPaths
  BY <1>0, <1>3, <1>4, <1>5, <1>6, UniqueAppend DEF NameInv, OddName, ScriptNamed
<1>8. TodoReturned'
  BY <1>2 DEF NameInv, TodoReturned
<1>9. NamesReserved'
  BY <1>2, <1>6, <1>7 DEF NameInv, NamesReserved
<1>10. FilesApart'
  <2>1. CASE collector'.pc = "stream"
    BY <1>2, <1>5, <1>6, <1>7, <2>1 DEF FilesApart, Uncopied, Differ
  <2>2. CASE collector'.pc = "noWriter" /\ zip'.entries = zip.entries
    BY <1>2, <1>5, <1>6, <2>2 DEF FilesApart, Uncopied, EntryNames
  <2> QED
    BY <1>3, <2>1, <2>2
<1>11. OwnNames'
  BY <1>2, <1>6, <1>7, NoOwnNames
<1> QED
  BY <1>7, <1>8, <1>9, <1>10, <1>11 DEF NameInv

\* The end of a stream changes no name.
LEMMA EndStreamNames ==
  ASSUME DiagnosticsInv, ArchiveInv, NameInv, EndStream, ResultsReturned'
  PROVE  NameInv'
<1> USE DEF collectorElse
<1>0. TypeOK
  BY DEF DiagnosticsInv
<1>1. /\ UNCHANGED <<main, walk>> /\ collector.pc \in {"stream", "noWriter"}
      /\ collector.files # << >> /\ collector'.files = Tail(collector.files)
      /\ collector'.names = collector.names /\ collector'.todo = collector.todo
      /\ collector'.folder = collector.folder /\ collector'.pc = "copy"
  BY <1>0 DEF EndStream, DiagnosticsInv, Control, ReadsStream, TypeOK
<1>2. /\ DOMAIN zip'.entries = DOMAIN zip.entries
      /\ \A k \in DOMAIN zip.entries : /\ zip'.entries[k].name = zip.entries[k].name
                                       /\ zip'.entries[k].path = zip.entries[k].path
  <2>1. CASE collector.pc = "noWriter"
    BY <2>1 DEF EndStream
  <2>2. CASE collector.pc = "stream"
    <3>1. zip.entries \in Seq(Entry) /\ zip.entries # << >>
      BY <1>0, <2>2 DEF TypeOK, ArchiveInv, StreamHasEntry
    <3>2. PICK n \in Nat : n = Len(zip.entries)
      BY <3>1, LenProperties
    <3>3. DOMAIN zip.entries = 1 .. n /\ n \in 1 .. n
      BY <3>1, <3>2, LenProperties, EmptySeq
    <3>4. zip'.entries = [zip.entries EXCEPT ![n] = [@ EXCEPT !.whole = ~zip.broken]]
      BY <1>0, <2>2, <3>2 DEF EndStream, TypeOK
    <3>5. \A k \in 1 .. n : zip.entries[k] \in Entry
      BY <3>1, <3>2, <3>3, ElementOfSeq
    <3>6. /\ [zip.entries[n] EXCEPT !.whole = ~zip.broken].name = zip.entries[n].name
          /\ [zip.entries[n] EXCEPT !.whole = ~zip.broken].path = zip.entries[n].path
      BY <3>3, <3>5 DEF Entry
    <3> QED
      BY <3>3, <3>4, <3>6
  <2> QED
    BY <1>1, <2>1, <2>2
<1>3. Unshared' /\ EntryNames' = EntryNames
  BY <1>2 DEF NameInv, Unshared, EntryNames, Range
<1>4. /\ Apart(collector'.files) /\ Range(collector'.files) \subseteq Range(collector.files)
  BY <1>1, FirstStored
<1>5. TodoReturned'
  BY <1>1 DEF NameInv, TodoReturned
<1>6. NamesReserved'
  BY <1>1, <1>3, <1>4 DEF NameInv, NamesReserved
<1>7. FilesApart'
  BY <1>1, <1>3, <1>4 DEF NameInv, FilesApart, Uncopied
<1>8. OwnNames'
  BY <1>1, <1>3, NoOwnNames
<1> QED
  BY <1>3, <1>5, <1>6, <1>7, <1>8 DEF NameInv

\* So the collector keeps the names apart.
LEMMA CollectorNames ==
  ASSUME DiagnosticsInv, ArchiveInv, NameInv, Collector, ResultsReturned'
  PROVE  NameInv'
<1> USE DEF collectorElse, CollectorAt
<1>1. CASE FilesChannelClosed \/ FilesCopied \/ CollectorDone
  <2>1. /\ UNCHANGED <<zip, main, walk>>
        /\ collector.pc # "stream" /\ collector'.pc # "stream"
        /\ collector'.names = collector.names /\ collector'.todo = collector.todo
        /\ collector'.files = collector.files /\ collector'.folder = collector.folder
    BY <1>1 DEF FilesChannelClosed, FilesCopied, CollectorDone, DiagnosticsInv, TypeOK
  <2> QED
    BY <2>1 DEF NameInv, TodoReturned, NamesReserved, FilesApart, OwnNames, Unshared,
                EntryNames, Uncopied, WalkedNames
<1>2. CASE ReadChunk
  <2>1. zip'.entries = zip.entries /\ UNCHANGED <<collector, main, walk>>
    BY <1>2 DEF ReadChunk, Break, DiagnosticsInv, TypeOK
  <2> QED
    BY <2>1, NamesLeft
<1> QED
  BY <1>1, <1>2, ReceiveNames, EnvelopeNames, CopyFileNames, OpenStreamNames, EndStreamNames
  DEF Collector

\* What main stores itself, under a name nobody has, keeps the names apart.
LEMMA OwnFileNames ==
  ASSUME DiagnosticsInv, NameInv, main \in ZipUsers, UNCHANGED collector,
         NEW n \in StoredName, NEW q \in Path, CopyEntry(n, q),
         n.folder \notin Folder, OddName(n, q) \/ n \notin EntryNames, ScriptNamed(n, q)
  PROVE  /\ TodoReturned' /\ NamesReserved' /\ FilesApart' /\ Unshared'
         /\ \A m \in EntryNames' \ EntryNames : m = n /\ ~OddName(n, q)
<1>1. Unshared' /\ \A m \in EntryNames' \ EntryNames : m = n /\ ~OddName(n, q)
  BY CopyNames DEF DiagnosticsInv, NameInv
<1>2. collector.pc # "stream"
  BY MainAlone
<1>3. TodoReturned' /\ NamesReserved'
  BY <1>1 DEF NameInv, TodoReturned, NamesReserved
<1>4. FilesApart'
  BY <1>1, <1>2 DEF NameInv, FilesApart, NamesReserved, Uncopied
<1> QED
  BY <1>1, <1>3, <1>4

\* The report and the list have names of their own.
LEMMA ReportNames ==
  ASSUME NEW p \in {JsonPath, FilelistPath}
  PROVE  /\ StoreName(PlainFile(p)) \in StoredName /\ p \in Path
         /\ StoreName(PlainFile(p)).folder = "" /\ "" \notin Folder
         /\ StoreName(PlainFile(p)).stem = BaseName[p].stem
         /\ StoreName(PlainFile(p)).numbers = BaseName[p].numbers
<1>1. p \in Path /\ StoreName(PlainFile(p)) \in StoredName
  BY DiagnosticsAssumption, NamesOfEnvelopes
<1> DEFINE name == StoreName(PlainFile(p))
<1>2. /\ name.folder = "" /\ name.stem = BaseName[p].stem
      /\ name.numbers = BaseName[p].numbers
  <2>1. PICK stem, numbers : stem = BaseName[p].stem /\ numbers = BaseName[p].numbers
    OBVIOUS
  <2>2. name = [folder |-> "", stem |-> stem, numbers |-> numbers]
    BY <2>1 DEF StoreName, Name, PlainFile, NoFolder
  <2> HIDE DEF name
  <2> QED
    BY <2>1, <2>2
<1>3. "" \notin Folder
  BY FileNamesAssumption
<1> HIDE DEF name
<1> QED
  BY <1>1, <1>2, <1>3 DEF name

\* The files of -include and of a script are stored under their paths.
LEMMA WalkNames ==
  ASSUME DiagnosticsInv, NameInv,
         NEW folder \in {"Include", "ScriptOutput"}, folder = "Include" => WalkedNames,
         main = (IF folder = "Include" THEN "include" ELSE "copyScript"),
         walk # << >>, CopyWalked(folder, Head(walk)), UNCHANGED <<main, collector>>,
         ResultsReturned'
  PROVE  NameInv'
<1>0. TypeOK /\ walk \in Seq(Path)
  BY DEF DiagnosticsInv, TypeOK
<1>1. PICK q \in Path : q = Head(walk)
  BY <1>0, HeadTypes
<1>2. Range(walk) = {q} \cup Range(Tail(walk)) /\ NoRepeats(<< >>) /\ Range(<< >>) = {}
  BY <1>0, <1>1, RangeOfHeadTail, RangeOfEmpty DEF NoRepeats
<1>3. PICK n \in StoredName : n = NameUnder(folder, q)
  BY NamesOfWalked
<1>4. n.folder = folder /\ n.stem = q /\ folder \notin Folder
  BY <1>3, NamesAssumption DEF NameUnder
<1>5. ScriptNamed(n, q) /\ (OddName(n, q) \/ n \notin EntryNames) /\ (OddName(n, q) <=> folder = "ScriptOutput")
  BY <1>2, <1>4 DEF WalkedNames, ScriptNamed, OddName
<1>6. /\ zip' = zip \/ CopyEntry(n, q)
      /\ walk' \in {<< >>, Tail(walk)}
  BY <1>1, <1>3 DEF CopyWalked
<1>7. /\ TodoReturned' /\ NamesReserved' /\ FilesApart' /\ Unshared'
      /\ \A m \in EntryNames' \ EntryNames : m = n /\ ~OddName(n, q)
  <2>1. CASE zip' = zip
    BY <2>1 DEF NameInv, TodoReturned, NamesReserved, FilesApart, Unshared, EntryNames, Uncopied
  <2>2. CASE CopyEntry(n, q)
    BY <1>4, <1>5, <2>2, OwnFileNames DEF ZipUsers
  <2> QED
    BY <1>6, <2>1, <2>2
<1>8. folder = "Include" => WalkedNames'
  <2> SUFFICES ASSUME folder = "Include" PROVE WalkedNames'
    OBVIOUS
  <2>1. NoRepeats(Tail(walk)) /\ q \notin Range(Tail(walk))
    BY <1>0, <1>1, NoRepeatsTail DEF WalkedNames
  <2>2. NoRepeats(walk') /\ Range(walk') \subseteq Range(walk) /\ q \notin Range(walk')
    BY <1>2, <1>6, <2>1
  <2> QED
    BY <1>4, <1>7, <2>2 DEF WalkedNames
<1>9. OwnNames'
  BY <1>4, <1>5, <1>7, <1>8 DEF NameInv, OwnNames
<1> QED
  BY <1>7, <1>9 DEF NameInv

\* Main keeps the names apart.
LEMMA MainNames ==
  ASSUME DiagnosticsInv, ListInv, NameInv, Main, ResultsReturned'
  PROVE  NameInv'
<1> USE DEF MainAt, mainElse
<1>0. TypeOK /\ flags \in FlagChoices
  BY DEF DiagnosticsInv, TypeOK
<1>1. CASE StartRegistrar \/ ReturnEarly \/ CreateZip \/ StartTasks \/ WriteLineResult
           \/ ResultsWritten \/ WaitGroup \/ WriteOutputFile \/ CloseZip \/ ProcessUploads
           \/ ReturnFromMain
  <2>1. /\ UNCHANGED walk /\ zip'.entries = zip.entries
        /\ collector'.names = collector.names /\ collector'.todo = collector.todo
        /\ collector'.files = collector.files /\ collector'.folder = collector.folder
        /\ main' \notin {"include", "copyScript"}
        /\ main \in {"closeZip", "upload", "end"} => main' \in {"closeZip", "upload", "end"}
        /\ main # "copyScript"
        /\ collector'.pc = "stream" <=> collector.pc = "stream"
    BY <1>0, <1>1, MainAlone DEF StartRegistrar, ReturnEarly, CreateZip, StartTasks, ZipUsers,
         WriteLineResult, ResultsWritten, WaitGroup, WriteOutputFile, CloseZip, ProcessUploads,
         ReturnFromMain, TypeOK
  <2> QED
    BY <2>1 DEF NameInv, TodoReturned, NamesReserved, FilesApart, OwnNames, Unshared,
                EntryNames, Uncopied
<1>2. CASE CreateFileList
  <2>1. /\ UNCHANGED <<zip, collector>>
        /\ main' = "include" => walk' = flags.include
        /\ main = "filelist" /\ main' \in {"include", "filelist"}
    BY <1>2 DEF CreateFileList
  <2>2. EntryNames = {} /\ EntryNames' = EntryNames
    BY <2>1, RangeOfEmpty DEF ListInv, EmptyAtFirst, EntryNames
  <2>3. OwnNames'
    BY <1>0, <2>1, <2>2, NamesAssumption DEF OwnNames, WalkedNames
  <2> QED
    BY <2>1, <2>2, <2>3 DEF NameInv, TodoReturned, NamesReserved, FilesApart, Unshared,
                            Uncopied
<1>3. CASE IncludeFile
  BY <1>3, WalkNames DEF IncludeFile, NameInv, OwnNames
<1>4. CASE CopyScriptOutput
  BY <1>4, WalkNames DEF CopyScriptOutput, NameInv, OwnNames
<1>5. CASE CopyOutputToZip
  <2>1. PICK n : n = StoreName(PlainFile(JsonPath))
    OBVIOUS
  <2>2. n \in StoredName /\ JsonPath \in Path /\ n.folder = "" /\ n.folder \notin Folder
    BY <2>1, ReportNames
  <2>3. /\ UNCHANGED collector /\ main = "copyOutput" /\ main' = "copyScript"
        /\ walk' = flags.script
        /\ zip' = zip \/ CopyEntry(n, JsonPath)
    BY <1>5, <2>1 DEF CopyOutputToZip
  <2>4. \A m \in EntryNames : m.folder # ""
    BY <2>3 DEF NameInv, OwnNames
  <2>5. /\ TodoReturned' /\ NamesReserved' /\ FilesApart' /\ Unshared'
        /\ \A m \in EntryNames' \ EntryNames : m = n
    <3>1. CASE zip' = zip
      BY <2>3, <3>1 DEF NameInv, TodoReturned, NamesReserved, FilesApart, Unshared,
                        EntryNames, Uncopied
    <3>2. CASE CopyEntry(n, JsonPath)
      BY <2>2, <2>3, <2>4, <3>2, OwnFileNames DEF ZipUsers, ScriptNamed
    <3> QED
      BY <2>3, <3>1, <3>2
  <2>6. OwnNames'
    BY <1>0, <2>1, <2>2, <2>3, <2>4, <2>5 DEF OwnNames, WalkedNames
  <2> QED
    BY <2>5, <2>6 DEF NameInv
<1>6. CASE CopyFileListToZip
  <2>1. PICK n : n = StoreName(PlainFile(FilelistPath))
    OBVIOUS
  <2>2. n \in StoredName /\ FilelistPath \in Path /\ n.folder = "" /\ n.folder \notin Folder
    BY <2>1, ReportNames
  <2>3. /\ UNCHANGED collector /\ main = "copyScript" /\ main' = "closeZip"
        /\ CopyEntry(n, FilelistPath)
    BY <1>6, <2>1 DEF CopyFileListToZip
  <2>4. n # StoreName(PlainFile(JsonPath))
    <3>1. /\ BaseName[JsonPath] \in [stem : STRING, numbers : Seq(Nat)]
          /\ BaseName[FilelistPath] \in [stem : STRING, numbers : Seq(Nat)]
          /\ BaseName[JsonPath] # BaseName[FilelistPath]
      BY DiagnosticsAssumption, FileNamesAssumption, NamesAssumption
    <3>2. \A x, y \in [stem : STRING, numbers : Seq(Nat)] :
            x.stem = y.stem /\ x.numbers = y.numbers => x = y
      OBVIOUS
    <3>3. BaseName[JsonPath].stem # BaseName[FilelistPath].stem
            \/ BaseName[JsonPath].numbers # BaseName[FilelistPath].numbers
      BY <3>1, <3>2
    <3> QED
      BY <2>1, <3>3, ReportNames
  <2>5. n \notin EntryNames
    BY <2>2, <2>3, <2>4 DEF NameInv, OwnNames
  <2>6. /\ TodoReturned' /\ NamesReserved' /\ FilesApart' /\ Unshared'
        /\ \A m \in EntryNames' \ EntryNames : m = n
    BY <2>2, <2>3, <2>5, OwnFileNames DEF ZipUsers, ScriptNamed
  <2>7. OwnNames'
    BY <2>3 DEF OwnNames
  <2> QED
    BY <2>6, <2>7 DEF NameInv
<1> QED
  BY <1>1, <1>2, <1>3, <1>4, <1>5, <1>6 DEF Main

\* The names are apart before the run, and after every step.
LEMMA InitNameInv == Init => NameInv
<1> SUFFICES ASSUME Init PROVE NameInv
  OBVIOUS
<1>1. /\ \A t \in Task : results[t].files = << >>
      /\ collector.todo = << >> /\ collector.files = << >> /\ collector.pc = "off"
      /\ zip.entries = << >> /\ main = "start"
  BY DEF Init, ZeroResult
<1>2. /\ Range(zip.entries) = {} /\ Range(collector.files) = {}
      /\ \A t \in Task : Range(results[t].files) = {}
      /\ DOMAIN zip.entries = {} /\ DOMAIN collector.files = {}
  BY <1>1, RangeOfEmpty
<1> QED
  BY <1>1, <1>2 DEF NameInv, ResultsReturned, TodoReturned, NamesReserved, FilesApart, Apart,
                    OwnNames, Unshared, EntryNames, Uncopied

\* Every step keeps the names apart.
LEMMA NextNameInv ==
  DiagnosticsInv /\ ArchiveInv /\ ListInv /\ NameInv /\ [Next]_vars => NameInv'
<1> SUFFICES ASSUME DiagnosticsInv, ArchiveInv, ListInv, NameInv, [Next]_vars PROVE NameInv'
  OBVIOUS
<1>1. ResultsReturned'
  BY ResultsAreReturned DEF NameInv
<1>2. CASE SuiteError \/ Register \/ Worker \/ (\E s \in Stream : CloseStream(s)) \/ UNCHANGED vars
  <2>1. UNCHANGED <<zip, collector, main, walk>>
    BY <1>2 DEF SuiteError, Register, CloseStream, Worker, ReceiveTask, WorkQueueClosed,
         ProcessTask, PublishResult, PublishFiles, CloseResults, CloseFiles, WorkerDone, vars,
         procVars, workerElse, collectorElse
  <2> QED
    BY <1>1, <2>1, NamesLeft
<1> QED
  BY <1>1, <1>2, CollectorNames, MainNames DEF Next, Ended

\* ProcessFilesChannel: for every registry, result, file, flag and failure of the
\* disk, two entries of the archive have one name only if one is a file of a task
\* whose name ends in a number or whose folder the task gave, or one file that two
\* patterns of a script have matched.
THEOREM ArchiveNamesShared == Spec => []SharedNamesHaveCause
<1>1. ASSUME NameInv PROVE SharedNamesHaveCause
  <2> SUFFICES ASSUME NEW i \in DOMAIN zip.entries, NEW j \in DOMAIN zip.entries,
                      i # j, zip.entries[i].name = zip.entries[j].name
               PROVE  \/ /\ zip.entries[i].name.folder \in Folder
                         /\ {zip.entries[i].path, zip.entries[j].path} \cap OddPaths # {}
                      \/ /\ zip.entries[i].name.folder = "ScriptOutput"
                         /\ zip.entries[i].path = zip.entries[j].path
    BY DEF SharedNamesHaveCause
  <2>1. \/ OddName(zip.entries[i].name, zip.entries[i].path)
        \/ OddName(zip.entries[j].name, zip.entries[j].path)
    BY <1>1 DEF NameInv, Unshared
  <2>2. /\ ScriptNamed(zip.entries[i].name, zip.entries[i].path)
        /\ ScriptNamed(zip.entries[j].name, zip.entries[j].path)
    BY <1>1 DEF NameInv, Unshared
  <2> QED
    BY <2>1, <2>2 DEF OddName, ScriptNamed
<1>2. NameInv => SharedNamesHaveCause
  BY <1>1
<1>3. ArchiveInv => StreamHasEntry
  BY DEF ArchiveInv
<1> QED
  BY <1>2, <1>3, InitArchiveInv, NextArchiveInv, InitListInv, NextListInv, InitNameInv,
     NextNameInv, RunInvariant, PTL DEF Spec

=============================================================================
