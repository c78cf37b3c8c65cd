----------------------------- MODULE TaskQueue -----------------------------
(***************************************************************************)
(* The registrar goroutine: registration.go walks what the user asked for, *)
(* queues the dependencies of a task before the task, and hands the tasks  *)
(* one by one to the work queue, an unbuffered channel closed at the end.  *)
(*                                                                         *)
(* AddTaskToQueue calls AddTasksByIdentifier, which calls AddTaskToQueue:  *)
(* the call stack of the goroutine is the variable stack, a sequence of    *)
(* frames whose last element is the running call.                          *)
(***************************************************************************)
EXTENDS Integers, Sequences

CONSTANTS
  Task,          \* the registered tasks (registeredTasks)
  NoTask,        \* the absence of a task
  DefaultTasks,  \* the tasks registered with runByDefault
  Ref,           \* the task names users, suites and Dependencies() write
  Wildcards,     \* the names that hold a "*"
  Matches,       \* Matches[ref]: the tasks whose lower-cased identifier the
                 \* lower-cased name equals, or matches when it is a wildcard
  Dependencies,  \* Dependencies[task]: what Task.Dependencies() returns
  Requests       \* what a run may be asked for: [all, refs]

ASSUME NoTaskAssumption == NoTask \notin Task

ASSUME RegistryAssumption ==
  /\ DefaultTasks \subseteq Task
  /\ Wildcards \subseteq Ref
  /\ Matches \in [Ref -> SUBSET Task]
  /\ Dependencies \in [Task -> Seq(Ref)]
  /\ Requests \subseteq [all : BOOLEAN, refs : Seq(Ref)]

\* Mutant: a name nobody registered stands for a nil task.

\* The tasks a name stands for. A wildcard only finds default tasks.
TasksForIdentifierString(ref) ==
  IF ref \in Wildcards THEN Matches[ref] \cap DefaultTasks ELSE Matches[ref]

\* The tasks a sequence of names stands for.
NamedBy(refs) == UNION {TasksForIdentifierString(refs[i]) : i \in DOMAIN refs}

\* The tasks that have to run before a task.
DependenciesOf(task) == NamedBy(Dependencies[task])

\* The tasks a run was asked for, their dependencies left aside.
Selected(req) == (IF req.all THEN DefaultTasks ELSE {}) \cup NamedBy(req.refs)

\* A set of tasks that holds what was asked for, the dependencies of its
\* members, and nothing else. When the dependencies have no cycle there is
\* exactly one such set.
IsClosureOf(S, req) == S = Selected(req) \cup UNION {DependenciesOf(t) : t \in S}

----------------------------------------------------------------------------

VARIABLES
  request,    \* what this run was asked for
  stack,      \* the registrar's calls, the running one last
  queued,     \* the keys of queuedTasks
  sending,    \* the task of the pending "Work.WorkQueue <- p", or NoTask
  delivered,  \* the tasks the worker has received, in order
  closed      \* close(Work.WorkQueue) has happened

queueVars == <<request, stack, queued, sending, delivered, closed>>

\* A call of AddTaskToQueue for task (NoTask: the entry point of the request),
\* refs: the names still to look at, todo: the tasks the current name was
\* resolved to that are still to be added.
Frame == [task : Task \cup {NoTask}, refs : Seq(Ref), todo : SUBSET Task]

Top == stack[Len(stack)]
Pop == SubSeq(stack, 1, Len(stack) - 1)

QueueTypeOK ==
  /\ request \in Requests
  /\ stack \in Seq(Frame)
  /\ queued \subseteq Task
  /\ sending \in Task \cup {NoTask}
  /\ delivered \in Seq(Task)
  /\ closed \in BOOLEAN

QueueInit ==
  /\ request \in Requests
  /\ stack = << [task |-> NoTask, refs |-> request.refs,
                 todo |-> IF request.all THEN DefaultTasks ELSE {}] >>
  /\ queued = {}
  /\ sending = NoTask
  /\ delivered = << >>
  /\ closed = FALSE

\* The registrar is running: not blocked in a send, not finished.
Running == /\ ~closed
           /\ sending = NoTask
           /\ stack # << >>

\* "for _, task := range tasks { AddTaskToQueue(task) }": the tasks come from a
\* Go map, so in any order.
AddTask ==
  /\ Running
  /\ \E t \in Top.todo :
       stack' = Append(Append(Pop, [Top EXCEPT !.todo = @ \ {t}]),
                       [task |-> t, refs |-> Dependencies[t], todo |-> {}])
  /\ UNCHANGED <<request, queued, sending, delivered, closed>>

\* Mutant: the first name that stands for no task ends the call.
StopAtUnknownName ==
  /\ Running
  /\ Top.todo = {}
  /\ Top.refs # << >>
  /\ LET named == TasksForIdentifierString(Head(Top.refs))
     IN stack' = Append(Pop, [Top EXCEPT !.refs = IF named = {} THEN << >> ELSE Tail(@),
                                         !.todo = named])
  /\ UNCHANGED <<request, queued, sending, delivered, closed>>

\* AddTasksByIdentifier on the next name; one that names no task is skipped.
AddTasksByIdentifier ==
  /\ Running
  /\ Top.todo = {}
  /\ Top.refs # << >>
  /\ stack' = Append(Pop, [Top EXCEPT !.refs = Tail(@),
                                      !.todo = TasksForIdentifierString(Head(Top.refs))])
  /\ UNCHANGED <<request, queued, sending, delivered, closed>>

\* Every name of the running call has been looked at.
CallDone == Running /\ Top.todo = {} /\ Top.refs = << >>

\* Mutant: the task is queued before its dependencies are looked at.
EnqueueFirst ==
  /\ Running
  /\ Top.task \in Task \ queued
  /\ queued' = queued \cup {Top.task}
  /\ sending' = Top.task
  /\ UNCHANGED <<request, stack, delivered, closed>>

\* Mutant: nobody looks whether the task is queued already.
EnqueueAgain ==
  /\ CallDone
  /\ Top.task \in Task
  /\ queued' = queued \cup {Top.task}
  /\ sending' = Top.task
  /\ UNCHANGED <<request, stack, delivered, closed>>

\* The task is new: mark it queued, then block in the send.
Enqueue ==
  /\ CallDone
  /\ Top.task \in Task \ queued
  /\ queued' = queued \cup {Top.task}
  /\ sending' = Top.task
  /\ UNCHANGED <<request, stack, delivered, closed>>

\* Mutant: a task that is queued already is looked at again.
QueuedLooksAgain ==
  /\ CallDone
  /\ Top.task \in queued
  /\ stack' = Append(Pop, [Top EXCEPT !.refs = Dependencies[Top.task]])
  /\ UNCHANGED <<request, queued, sending, delivered, closed>>

\* "already had in queue".
AlreadyQueued ==
  /\ CallDone
  /\ Top.task \in queued
  /\ stack' = Pop
  /\ UNCHANGED <<request, queued, sending, delivered, closed>>

\* The worker receives: the send returns, and the call with it.
Deliver ==
  /\ sending # NoTask
  /\ delivered' = Append(delivered, sending)
  /\ sending' = NoTask
  /\ stack' = Pop
  /\ UNCHANGED <<request, queued, closed>>

CompleteTaskRegistration ==
  /\ CallDone
  /\ Top.task = NoTask
  /\ closed' = TRUE
  /\ stack' = Pop
  /\ UNCHANGED <<request, queued, sending, delivered>>

\* A step of the registrar alone; Deliver needs the worker too.
RegistrarStep ==
  \/ AddTask
  \/ AddTasksByIdentifier
  \/ Enqueue
  \/ AlreadyQueued
  \/ CompleteTaskRegistration

\* Registration is over: the goroutine has returned.
QueueDone == closed /\ UNCHANGED queueVars

QueueNext == RegistrarStep \/ Deliver \/ QueueDone

\* Go schedules every goroutine that can run, and here the worker always
\* comes back to receive.
QueueSpec == /\ QueueInit
             /\ [][QueueNext]_queueVars
             /\ WF_queueVars(RegistrarStep)
             /\ WF_queueVars(Deliver)

----------------------------------------------------------------------------

\* When the worker receives a task, it has already received every task the
\* dependencies of that task name: the results they left are there to be read
\* (processTasks.go:71-74 looks them up without checking).
DependenciesFirst ==
  \A i \in DOMAIN delivered : \A d \in DependenciesOf(delivered[i]) :
    \E j \in 1 .. (i - 1) : delivered[j] = d

\* A task that several requests and several dependents name is run once.
DeliveredOnce ==
  \A i, j \in DOMAIN delivered : i # j => delivered[i] # delivered[j]

\* When the queue is closed, the worker has received what was asked for with
\* all its dependencies, transitively, and no other task.
QueueIsClosure ==
  closed => IsClosureOf({delivered[i] : i \in DOMAIN delivered}, request)

\* Registration ends: the recursion over the dependencies and the sends come
\* to an end, and the range loop of the worker with them.
QueueCloses == <>closed

=============================================================================
