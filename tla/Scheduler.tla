-------------------------------- MODULE Scheduler --------------------------------
(***************************************************************************)
(* The repeating timers of a Python application: the task list of          *)
(* micropython_iot_modules/scheduler/mod_iot_scheduler.c, the clock of     *)
(* python/micropython_runtime.cpp that drives it, and the wait of the main *)
(* loop in runtime/main.cpp.                                               *)
(*                                                                         *)
(* Time is a number of ticks and a millisecond has several of them,        *)
(* because the runtime carries fractions of a millisecond from one update  *)
(* to the next while the timers count whole milliseconds.                  *)
(***************************************************************************)
EXTENDS Integers, SequencesExt, SubSequences

CONSTANTS
  TicksPerMillisecond,    \* resolution of steady_clock
  Intervals,              \* intervals the application asks for, in milliseconds
  MaximumTasks,           \* IOT_SCHEDULER_MAXIMUM_TASK_COUNT
  MaximumElapsed,         \* UINT32_MAX: longest time one update can report
  MaximumTaskId,          \* bound: every() is not called once the IDs are used up
  MaximumTime             \* bound: the clock stops here

ASSUME SchedulerAssumption ==
  /\ TicksPerMillisecond \in Nat \ {0}
  /\ Intervals \subseteq Nat \ {0}
  /\ MaximumTasks \in Nat \ {0}
  /\ MaximumElapsed \in Nat \ {0}
  /\ MaximumTaskId \in Nat \ {0}
  /\ MaximumTime \in Nat

VARIABLES
  phase,      \* "startup": main.py runs; "waiting": the main loop waits or does other work;
              \* "callbacks": due callbacks run; "stopped": an exception ended the application
  now,        \* steady_clock
  updated,    \* m_previousSchedulerUpdateTime
  tasks,      \* the linked list, head first
  nextTaskId, \* next_task_id
  due,        \* callbacks gathered by this update that have not returned yet
  began,      \* history: when the first interval of each task began for the application
  finished    \* history: when main.py finished

vars == <<phase, now, updated, tasks, nextTaskId, due, began, finished>>

TaskIds  == 1..MaximumTaskId
TaskList == {tasks[i] : i \in DOMAIN tasks}
NotSet   == -1

Init ==
  /\ phase = "startup"
  /\ now = 0
  /\ updated = NotSet
  /\ tasks = << >>
  /\ nextTaskId = 1
  /\ due = << >>
  /\ began = [id \in TaskIds |-> NotSet]
  /\ finished = NotSet

-----------------------------------------------------------------------------
(***************************************************************************)
(* Calls of the application, from main.py or from a callback.              *)
(***************************************************************************)

PythonRuns == phase \in {"startup", "callbacks"}

\* scheduler_every(): a full list raises an exception and changes nothing.
Every(interval) ==
  /\ PythonRuns
  /\ Len(tasks) < MaximumTasks
  /\ nextTaskId \in TaskIds
  /\ tasks' = <<[id |-> nextTaskId, interval |-> interval, remaining |-> interval]>> \o tasks
  /\ nextTaskId' = nextTaskId + 1
  /\ began' = [began EXCEPT ![nextTaskId] = now]
  /\ UNCHANGED <<phase, now, updated, due, finished>>

\* scheduler_cancel(): gathered callbacks are not affected.
Cancel(id) ==
  /\ PythonRuns
  /\ \E i \in DOMAIN tasks : tasks[i].id = id /\ tasks' = RemoveAt(tasks, i)
  /\ UNCHANGED <<phase, now, updated, nextTaskId, due, began, finished>>

\* scheduler_clear().
Clear ==
  /\ PythonRuns
  /\ tasks # << >>
  /\ tasks' = << >>
  /\ UNCHANGED <<phase, now, updated, nextTaskId, due, began, finished>>

\* executeApplication() returns: the intervals begin when main.py has finished.
StartupEnds ==
  /\ phase = "startup"
  /\ phase' = "waiting"
  /\ updated' = now
  /\ finished' = now
  /\ began' = [id \in TaskIds |-> IF id < nextTaskId THEN now ELSE NotSet]
  /\ UNCHANGED <<now, tasks, nextTaskId, due>>

-----------------------------------------------------------------------------
(***************************************************************************)
(* The main loop.                                                          *)
(***************************************************************************)

\* Whole milliseconds since the last update.
Elapsed == (now - updated) \div TicksPerMillisecond

SmallerOf(a, b) == IF a < b THEN a ELSE b
Shortest(delays) == CHOOSE d \in delays : \A e \in delays : d <= e

\* Fault: the time since the last update is not taken off.
TimeUntilNextIgnoresElapsed == Shortest({task.remaining : task \in TaskList})

\* timeUntilNextScheduledCallback(), for a list that is not empty.
TimeUntilNext ==
  LET delay == Shortest({task.remaining : task \in TaskList})
  IN  IF Elapsed >= delay THEN 0 ELSE delay - Elapsed

\* What an update of elapsed milliseconds makes of a task: the next deadline stays on
\* the task's own grid, missed intervals are skipped.
Advanced(task, elapsed) ==
  IF elapsed < task.remaining
  THEN [task EXCEPT !.remaining = @ - elapsed]
  ELSE [task EXCEPT !.remaining =
          task.interval - ((elapsed - task.remaining) % task.interval)]

\* Fault: the fraction of a millisecond is dropped.
UpdateDropsFraction ==
  /\ phase = "waiting"
  /\ LET elapsed == SmallerOf(Elapsed, MaximumElapsed)
     IN  /\ due' = ElementsAt(tasks, {i \in DOMAIN tasks : elapsed >= tasks[i].remaining})
         /\ tasks' = [i \in DOMAIN tasks |-> Advanced(tasks[i], elapsed)]
  /\ updated' = now
  /\ phase' = IF due' = << >> THEN "waiting" ELSE "callbacks"
  /\ UNCHANGED <<now, nextTaskId, began, finished>>

\* runScheduledCallbacks(): the timers advance and the due callbacks are gathered
\* before the first of them is called.
Update ==
  /\ phase = "waiting"
  /\ LET elapsed == SmallerOf(Elapsed, MaximumElapsed)
     IN  /\ due' = ElementsAt(tasks, {i \in DOMAIN tasks : elapsed >= tasks[i].remaining})
         /\ tasks' = [i \in DOMAIN tasks |-> Advanced(tasks[i], elapsed)]
  /\ updated' = updated + Elapsed * TicksPerMillisecond
  /\ phase' = IF due' = << >> THEN "waiting" ELSE "callbacks"
  /\ UNCHANGED <<now, nextTaskId, began, finished>>

\* mp_call_function_0() returns.
CallbackReturns ==
  /\ phase = "callbacks"
  /\ due' = Tail(due)
  /\ phase' = IF due' = << >> THEN "waiting" ELSE "callbacks"
  /\ UNCHANGED <<now, updated, tasks, nextTaskId, began, finished>>

\* A callback raises: the others are skipped and the interpreter is destroyed.
CallbackRaises ==
  /\ phase = "callbacks"
  /\ phase' = "stopped"
  /\ due' = << >>
  /\ tasks' = << >>
  /\ UNCHANGED <<now, updated, nextTaskId, began, finished>>

\* Time passes in main.py, in a callback, in the wait or in other work of the main loop.
Tick ==
  /\ now < MaximumTime
  /\ now' = now + 1
  /\ UNCHANGED <<phase, updated, tasks, nextTaskId, due, began, finished>>

Next ==
  \/ \E interval \in Intervals : Every(interval)
  \/ \E id \in TaskIds : Cancel(id)
  \/ Clear \/ StartupEnds
  \/ Update \/ CallbackReturns \/ CallbackRaises
  \/ Tick

Spec == Init /\ [][Next]_vars

-----------------------------------------------------------------------------
(***************************************************************************)
(* Properties.                                                             *)
(***************************************************************************)

\* Types; the list never outgrows its limit and every remaining time is positive.
TypeOK ==
  /\ phase \in {"startup", "waiting", "callbacks", "stopped"}
  /\ now \in 0..MaximumTime
  /\ updated \in {NotSet} \cup 0..now
  /\ tasks \in Seq([id : TaskIds, interval : Intervals, remaining : Nat \ {0}])
  /\ Len(tasks) <= MaximumTasks
  /\ nextTaskId \in 1..(MaximumTaskId + 1)
  /\ due \in Seq([id : TaskIds, interval : Intervals, remaining : Nat \ {0}])
  /\ began \in [TaskIds -> {NotSet} \cup 0..now]
  /\ finished \in {NotSet} \cup 0..now

\* A task that main.py registered.
FromStartup(task) == began[task.id] = finished

Duration(task) == task.interval * TicksPerMillisecond

\* A multiple of the task's interval, counted from the end of main.py, falls after one
\* time and not after the other.
DeadlineBetween(task, after, upTo) ==
  (upTo - finished) \div Duration(task) > (after - finished) \div Duration(task)

\* A callback of a task that main.py registered is called in an update exactly if one
\* or more of its deadlines have passed since the update before, however late the
\* updates come and however their times fall between milliseconds: no call is lost,
\* none is repeated, and the deadlines never drift.
CallsMatchDeadlines ==
  [][phase = "waiting" /\ updated' # updated =>
       \A i \in DOMAIN tasks :
         FromStartup(tasks[i]) =>
           (Contains(due', tasks[i]) <=> DeadlineBetween(tasks[i], updated, updated'))]_vars

\* The main loop waits for the nearest deadline: it neither oversleeps by a whole
\* millisecond nor wakes up before it, which would make it spin.
WaitEndsAtDeadline ==
  phase = "waiting" /\ tasks # << >> =>
    LET wakeUp   == now + TimeUntilNext * TicksPerMillisecond
        deadline == updated
                    + Shortest({task.remaining : task \in TaskList}) * TicksPerMillisecond
    IN  IF now >= deadline THEN wakeUp = now
        ELSE wakeUp >= deadline /\ wakeUp < deadline + TicksPerMillisecond

\* What the API guide says of every task: "The callback is not called immediately".  A
\* callback that is due belongs to a task registered at an earlier time.
CallIsNotImmediate == \A i \in DOMAIN due : now > began[due[i].id]
=============================================================================
