---------------------------- MODULE SchedulerProofs ----------------------------
(***************************************************************************)
(* Theorems about Scheduler, for every set of intervals, every number of   *)
(* timers and every resolution of the clock.                               *)
(***************************************************************************)
EXTENDS Scheduler, CollectionLemmas

Task == [id : TaskIds, interval : Intervals, remaining : Nat \ {0}]

-----------------------------------------------------------------------------
(***************************************************************************)
(* Arithmetic.                                                             *)
(***************************************************************************)

LEMMA Division ==
  ASSUME NEW a \in Nat, NEW b \in Nat \ {0}
  PROVE  /\ a \div b \in Nat /\ a % b \in 0..(b - 1)
         /\ a = b * (a \div b) + (a % b)
OBVIOUS

LEMMA QuotientIs ==
  ASSUME NEW b \in Nat \ {0}, NEW q \in Nat, NEW r \in 0..(b - 1)
  PROVE  (b * q + r) \div b = q
OBVIOUS

LEMMA OrderOfMultiples ==
  ASSUME NEW a \in Nat \ {0}, NEW b \in Nat, NEW c \in Nat
  PROVE  /\ a * b \in Nat
         /\ b <= c => a * b <= a * c
         /\ b < c => a * b + a <= a * c
OBVIOUS

LEMMA ProductWithSum ==
  ASSUME NEW a \in Int, NEW b \in Int, NEW c \in Int
  PROVE  a * (b + c) = a * b + a * c /\ a * b = b * a /\ a * b \in Int
OBVIOUS

\* A common factor does not change a quotient.
LEMMA QuotientOfMultiples ==
  ASSUME NEW t \in Nat \ {0}, NEW a \in Nat, NEW b \in Nat \ {0}
  PROVE  (t * a) \div (b * t) = a \div b
<1> DEFINE q == a \div b
           r == a % b
<1>1. q \in Nat /\ r \in 0..(b - 1) /\ a = b * q + r
  BY Division
<1> HIDE DEF q, r
<1>2. b * t \in Nat \ {0} /\ t * r \in Nat /\ t * r < b * t
  BY <1>1
<1>3. t * a = (b * t) * q + t * r
  BY <1>1
<1>4. (t * a) \div (b * t) = q
  <2> DEFINE c == b * t
             s == t * r
  <2>1. c \in Nat \ {0} /\ s \in 0..(c - 1) /\ t * a = c * q + s
    BY <1>2, <1>3
  <2> HIDE DEF c, s
  <2>2. (t * a) \div c = q
    BY <1>1, <2>1, QuotientIs
  <2>3. QED
    BY <2>2 DEF c
<1>5. QED
  BY <1>4 DEF q

\* With r left of an interval at the time m, the number of whole intervals grows within
\* e exactly if e reaches r.
LEMMA IntervalEnds ==
  ASSUME NEW interval \in Nat \ {0}, NEW m \in Nat, NEW e \in Nat, NEW q \in Nat,
         NEW r \in 1..interval, m + r = interval * q
  PROVE  (m + e) \div interval > m \div interval <=> e >= r
<1>1. q # 0
  OBVIOUS
<1>2. m = interval * (q - 1) + (interval - r) /\ q - 1 \in Nat /\ interval - r \in 0..(interval - 1)
  BY <1>1
<1>3. m \div interval = q - 1
  BY <1>2, QuotientIs
<1> DEFINE p == (m + e) \div interval
           s == (m + e) % interval
<1>4. p \in Nat /\ s \in 0..(interval - 1) /\ m + e = interval * p + s
  <2>1. m + e \in Nat
    OBVIOUS
  <2>2. QED
    BY <2>1, Division
<1> HIDE DEF p, s
<1>5. CASE e >= r
  <2>1. interval * p + s >= interval * q
    BY <1>4, <1>5
  <2>2. ~(p < q)
    <3>1. p < q => interval * p + interval <= interval * q
      BY <1>4, OrderOfMultiples
    <3>2. interval * p \in Nat /\ interval * q \in Nat
      BY <1>4, OrderOfMultiples
    <3>3. QED
      BY <1>4, <2>1, <3>1, <3>2
  <2>3. QED
    BY <1>1, <1>3, <1>4, <1>5, <2>2 DEF p
<1>6. CASE e < r
  <2>1. interval * p + s < interval * q
    BY <1>4, <1>6
  <2>2. ~(q <= p)
    <3>1. q <= p => interval * q <= interval * p
      BY <1>4, OrderOfMultiples
    <3>2. interval * p \in Nat /\ interval * q \in Nat
      BY <1>4, OrderOfMultiples
    <3>3. QED
      BY <1>4, <2>1, <3>1, <3>2
  <2>3. QED
    BY <1>1, <1>3, <1>4, <1>6, <2>2 DEF p
<1>7. QED
  BY <1>5, <1>6

-----------------------------------------------------------------------------
(***************************************************************************)
(* Types.  What a variable can hold depends on the phase.                  *)
(***************************************************************************)

PhaseOK ==
  /\ phase = "startup" =>
       /\ finished = NotSet /\ updated = NotSet
       /\ \A i \in DOMAIN tasks : tasks[i].remaining = tasks[i].interval
  /\ phase \in {"waiting", "callbacks"} => finished \in Nat /\ updated \in Nat
  /\ phase = "callbacks" => due # << >>
  /\ phase = "stopped" => tasks = << >>

TypeInv == TypeOK /\ PhaseOK

\* The whole milliseconds since the last update.
LEMMA ElapsedType ==
  ASSUME TypeOK, updated \in Nat
  PROVE  /\ Elapsed \in Nat /\ Elapsed * TicksPerMillisecond \in Nat
         /\ updated + Elapsed * TicksPerMillisecond <= now
         /\ now < updated + Elapsed * TicksPerMillisecond + TicksPerMillisecond
<1> DEFINE t == TicksPerMillisecond
           late == now - updated
<1>1. t \in Nat \ {0} /\ now \in Nat /\ updated <= now
  BY SchedulerAssumption DEF TypeOK, NotSet
<1>2. late \in Nat /\ now = updated + late
  BY <1>1
<1>3. Elapsed = late \div t
  BY DEF Elapsed
<1> HIDE DEF t, late
<1>4. Elapsed \in Nat /\ late % t \in 0..(t - 1) /\ late = t * Elapsed + (late % t)
  BY <1>1, <1>2, <1>3, Division
<1>5. t * Elapsed = Elapsed * t /\ t * Elapsed \in Nat
  BY <1>1, <1>4
<1>6. QED
  BY <1>1, <1>2, <1>4, <1>5 DEF t

\* An update leaves a task its identity, and a remaining time within its interval.
LEMMA AdvancedType ==
  ASSUME NEW task \in Task, NEW e \in Nat
  PROVE  /\ Advanced(task, e) \in Task
         /\ Advanced(task, e).id = task.id /\ Advanced(task, e).interval = task.interval
         /\ e < task.remaining => Advanced(task, e).remaining = task.remaining - e
         /\ e >= task.remaining =>
              Advanced(task, e).remaining = task.interval - ((e - task.remaining) % task.interval)
<1>1. task.interval \in Nat \ {0} /\ task.remaining \in Nat \ {0}
  BY SchedulerAssumption DEF Task
<1>2. CASE e < task.remaining
  BY <1>1, <1>2 DEF Advanced, Task
<1>3. CASE e >= task.remaining
  <2> DEFINE over == (e - task.remaining) % task.interval
  <2>1. e - task.remaining \in Nat
    BY <1>1, <1>3
  <2>2. over \in 0..(task.interval - 1)
    BY <1>1, <2>1, Division
  <2>3. task.interval - over \in Nat \ {0}
    BY <1>1, <2>2
  <2> HIDE DEF over
  <2>4. Advanced(task, e) = [task EXCEPT !.remaining = task.interval - over]
    BY <1>1, <1>3 DEF Advanced, over
  <2>5. QED
    BY <1>1, <1>3, <2>3, <2>4 DEF Task, over
<1>4. QED
  BY <1>1, <1>2, <1>3

\* Where the tasks of a list come from that one was taken out of.
LEMMA RemovedAt ==
  ASSUME NEW S, NEW s \in Seq(S), NEW i \in DOMAIN s
  PROVE  /\ RemoveAt(s, i) \in Seq(S) /\ Len(RemoveAt(s, i)) = Len(s) - 1
         /\ \A j \in DOMAIN RemoveAt(s, i) : \E k \in DOMAIN s : RemoveAt(s, i)[j] = s[k]
<1> DEFINE before == SubSeq(s, 1, i - 1)
           after  == SubSeq(s, i + 1, Len(s))
<1>1. Len(s) \in Nat /\ i \in 1..Len(s) /\ \A j \in 1..Len(s) : s[j] \in S
  OBVIOUS
<1>2. /\ before \in Seq(S) /\ Len(before) = i - 1
      /\ \A j \in 1..(i - 1) : before[j] = s[j]
  BY <1>1, SubSeqProperties
<1>3. /\ after \in Seq(S) /\ Len(after) = Len(s) - i
      /\ \A j \in 1..(Len(s) - i) : after[j] = s[i + j]
  BY <1>1, SubSeqProperties
<1>4. RemoveAt(s, i) = before \o after
  BY DEF RemoveAt
<1> HIDE DEF before, after
<1>5. /\ before \o after \in Seq(S) /\ Len(before \o after) = Len(s) - 1
      /\ \A j \in 1..(Len(s) - 1) :
           (before \o after)[j] = IF j <= i - 1 THEN before[j] ELSE after[j - (i - 1)]
  BY <1>1, <1>2, <1>3, ConcatProperties, SMTT(30)
<1>6. ASSUME NEW j \in 1..(Len(s) - 1)
      PROVE  \E k \in DOMAIN s : (before \o after)[j] = s[k]
  <2>1. CASE j <= i - 1
    <3>1. j \in 1..(i - 1) /\ j \in DOMAIN s
      BY <1>1, <2>1
    <3>2. QED
      BY <1>2, <1>5, <2>1, <3>1
  <2>2. CASE j > i - 1
    <3>1. j - (i - 1) \in 1..(Len(s) - i) /\ j + 1 \in DOMAIN s /\ i + (j - (i - 1)) = j + 1
      BY <1>1, <2>2
    <3>2. (before \o after)[j] = after[j - (i - 1)]
      BY <1>1, <1>5, <2>2
    <3>3. after[j - (i - 1)] = s[j + 1]
      BY <1>3, <3>1
    <3>4. QED
      BY <3>1, <3>2, <3>3
  <2>3. i \in Nat /\ j \in Nat
    BY <1>1
  <2>4. j <= i - 1 \/ j > i - 1
    BY <2>3
  <2>5. QED
    BY <2>1, <2>2, <2>4
<1>7. QED
  BY <1>1, <1>4, <1>5, <1>6, SMTT(30)

\* The new list with a task in front.
LEMMA InFront ==
  ASSUME NEW S, NEW s \in Seq(S), NEW e \in S
  PROVE  /\ <<e>> \o s \in Seq(S) /\ Len(<<e>> \o s) = Len(s) + 1
         /\ (<<e>> \o s)[1] = e
         /\ \A j \in DOMAIN (<<e>> \o s) : j # 1 => j - 1 \in DOMAIN s /\ (<<e>> \o s)[j] = s[j - 1]
OBVIOUS

\* Which places of the list an update calls, and what it makes of the list.
Reached(e) == {i \in DOMAIN tasks : e >= tasks[i].remaining}

LEMMA UpdateIs ==
  ASSUME TypeInv, Update
  PROVE  LET e == SmallerOf(Elapsed, MaximumElapsed)
         IN  /\ e \in Nat /\ Elapsed \in Nat /\ updated \in Nat
             /\ due' = ElementsAt(tasks, Reached(e)) /\ Reached(e) \in SUBSET (1..Len(tasks))
             /\ due' \in Seq(Task)
             /\ tasks' \in Seq(Task) /\ Len(tasks') = Len(tasks)
             /\ \A i \in DOMAIN tasks' : i \in DOMAIN tasks /\ tasks'[i] = Advanced(tasks[i], e)
             /\ updated' = updated + Elapsed * TicksPerMillisecond
             /\ updated' \in Nat /\ updated' <= now
<1> DEFINE e == SmallerOf(Elapsed, MaximumElapsed)
<1>1. tasks \in Seq(Task)
  BY DEF TypeInv, TypeOK, Task
<1>2. phase = "waiting" /\ updated \in Nat /\ TypeOK
  BY DEF TypeInv, PhaseOK, Update
<1>3. /\ Elapsed \in Nat /\ Elapsed * TicksPerMillisecond \in Nat
      /\ updated + Elapsed * TicksPerMillisecond <= now
  BY <1>2, ElapsedType
<1>4. e \in Nat
  BY <1>3, SchedulerAssumption DEF SmallerOf
<1>5. /\ due' = ElementsAt(tasks, Reached(e))
      /\ tasks' = [i \in DOMAIN tasks |-> Advanced(tasks[i], e)]
      /\ updated' = updated + Elapsed * TicksPerMillisecond
  BY DEF Update, Reached
<1> HIDE DEF e
<1>6. Reached(e) \in SUBSET (1..Len(tasks))
  BY <1>1 DEF Reached
<1>7. due' \in Seq(Task)
  BY <1>1, <1>5, <1>6, ElementsAtType
<1>8. Len(tasks) \in Nat /\ DOMAIN tasks = 1..Len(tasks) /\ \A i \in 1..Len(tasks) : tasks[i] \in Task
  BY <1>1
<1>9. \A i \in 1..Len(tasks) : Advanced(tasks[i], e) \in Task
  BY <1>4, <1>8, AdvancedType
<1>10. tasks' \in Seq(Task) /\ Len(tasks') = Len(tasks)
  BY <1>5, <1>8, <1>9
<1>11. QED
  BY <1>2, <1>3, <1>4, <1>5, <1>6, <1>7, <1>8, <1>10 DEF e

\* Init and every step keep the types.
LEMMA TypeInvariant == Spec => []TypeInv
<1> USE SchedulerAssumption
<1>1. Init => TypeInv
  BY DEF Init, TypeInv, TypeOK, PhaseOK, NotSet, TaskIds
<1>2. TypeInv /\ [Next]_vars => TypeInv'
  <2> SUFFICES ASSUME TypeInv, [Next]_vars
               PROVE  TypeInv'
    OBVIOUS
  <2>0. /\ tasks \in Seq(Task) /\ due \in Seq(Task) /\ TypeOK /\ PhaseOK
        /\ Seq(Task) = Seq([id : TaskIds, interval : Intervals, remaining : Nat \ {0}])
    BY DEF TypeInv, TypeOK, Task
  <2> USE DEF TypeInv, TypeOK, NotSet
  <2>1. ASSUME NEW interval \in Intervals, Every(interval)
        PROVE  TypeInv'
    <3> DEFINE new == [id |-> nextTaskId, interval |-> interval, remaining |-> interval]
    <3>1. new \in Task /\ tasks' = <<new>> \o tasks /\ Len(tasks) < MaximumTasks
      BY <2>1 DEF Every, Task
    <3> HIDE DEF new
    <3>2. tasks' \in Seq(Task) /\ Len(tasks') <= MaximumTasks
      BY <2>0, <3>1, InFront
    <3>3. phase = "startup" => \A i \in DOMAIN tasks' : tasks'[i].remaining = tasks'[i].interval
      <4>1. new.remaining = new.interval
        BY DEF new
      <4>2. QED
        BY <2>0, <3>1, <4>1, InFront DEF PhaseOK
    <3>4. TypeOK'
      BY <2>0, <2>1, <3>2 DEF Every, TaskIds
    <3>5. PhaseOK'
      BY <2>0, <2>1, <3>3 DEF Every, PhaseOK, PythonRuns
    <3>6. QED
      BY <3>4, <3>5
  <2>2. ASSUME NEW id \in TaskIds, Cancel(id)
        PROVE  TypeInv'
    <3>1. PICK i \in DOMAIN tasks : tasks' = RemoveAt(tasks, i)
      BY <2>2 DEF Cancel
    <3>2. /\ tasks' \in Seq(Task) /\ Len(tasks') = Len(tasks) - 1
          /\ \A j \in DOMAIN tasks' : \E k \in DOMAIN tasks : tasks'[j] = tasks[k]
      BY <2>0, <3>1, RemovedAt
    <3>3. TypeOK'
      BY <2>0, <2>2, <3>2 DEF Cancel
    <3>4. PhaseOK'
      BY <2>0, <2>2, <3>2 DEF Cancel, PhaseOK, PythonRuns
    <3>5. QED
      BY <3>3, <3>4
  <2>3. CASE Clear
    BY <2>0, <2>3 DEF Clear, PhaseOK, PythonRuns
  <2>4. CASE StartupEnds
    BY <2>0, <2>4 DEF StartupEnds, PhaseOK
  <2>5. CASE Update
    <3>1. /\ due' \in Seq(Task) /\ tasks' \in Seq(Task) /\ Len(tasks') = Len(tasks)
          /\ updated' \in Nat /\ updated' <= now
      BY <2>5, UpdateIs
    <3>2. phase' \in {"waiting", "callbacks"} /\ (phase' = "callbacks" => due' # << >>)
      BY <2>5 DEF Update
    <3>3. /\ phase = "waiting" /\ now' = now /\ nextTaskId' = nextTaskId
          /\ began' = began /\ finished' = finished
      BY <2>5 DEF Update
    <3>4. TypeOK'
      BY <2>0, <3>1, <3>2, <3>3
    <3>5. PhaseOK'
      BY <2>0, <3>1, <3>2, <3>3 DEF PhaseOK
    <3>6. QED
      BY <3>4, <3>5
  <2>6. CASE CallbackReturns
    <3>1. Tail(due) \in Seq(Task)
      BY <2>0, <2>6, HeadTailProperties DEF CallbackReturns, PhaseOK
    <3>2. QED
      BY <2>0, <2>6, <3>1 DEF CallbackReturns, PhaseOK
  <2>7. CASE CallbackRaises
    BY <2>0, <2>7 DEF CallbackRaises, PhaseOK
  <2>8. CASE Tick
    <3>1. now' = now + 1 /\ now' \in 0..MaximumTime /\ 0..now \subseteq 0..now'
      BY <2>0, <2>8 DEF Tick
    <3>2. \A id \in TaskIds : began[id] \in {NotSet} \cup 0..now'
      BY <2>0, <3>1
    <3>3. QED
      BY <2>0, <2>8, <3>1, <3>2 DEF Tick, PhaseOK
  <2>9. CASE UNCHANGED vars
    BY <2>0, <2>9 DEF vars, PhaseOK
  <2>10. QED
    BY <2>1, <2>2, <2>3, <2>4, <2>5, <2>6, <2>7, <2>8, <2>9 DEF Next
<1>3. QED
  BY <1>1, <1>2, PTL DEF Spec

THEOREM TypeCorrect == Spec => []TypeOK
<1>1. TypeInv => TypeOK
  BY DEF TypeInv
<1>2. QED
  BY <1>1, TypeInvariant, PTL

-----------------------------------------------------------------------------
(***************************************************************************)
(* The wait of the main loop.                                              *)
(***************************************************************************)

\* The nearest deadline of a list that is not empty is a positive number of milliseconds.
LEMMA ShortestType ==
  ASSUME tasks \in Seq(Task), tasks # << >>
  PROVE  Shortest({task.remaining : task \in TaskList}) \in Nat \ {0}
<1> DEFINE delays == {task.remaining : task \in TaskList}
<1>1. Len(tasks) \in Nat \ {0} /\ \A i \in 1..Len(tasks) : tasks[i] \in Task
  BY EmptySeq
<1>2. TaskList = {tasks[i] : i \in 1..Len(tasks)} /\ tasks[1] \in TaskList
  BY <1>1 DEF TaskList
<1>3. delays \in SUBSET Nat /\ delays # {} /\ 0 \notin delays
  BY <1>1, <1>2 DEF Task
<1> HIDE DEF delays
<1>4. \E d \in delays : \A f \in delays : d <= f
  BY <1>3, LeastNumber
<1>5. Shortest(delays) \in delays
  BY <1>4 DEF Shortest
<1>6. QED
  BY <1>3, <1>5 DEF delays

LEMMA WaitIsRight ==
  ASSUME TypeInv
  PROVE  WaitEndsAtDeadline
<1> SUFFICES ASSUME phase = "waiting", tasks # << >>
             PROVE  WaitEndsAtDeadline
  BY DEF WaitEndsAtDeadline
<1> DEFINE t == TicksPerMillisecond
           d == Shortest({task.remaining : task \in TaskList})
<1>1. TypeOK /\ updated \in Nat /\ now \in Nat /\ t \in Nat \ {0} /\ tasks \in Seq(Task)
  BY SchedulerAssumption DEF TypeInv, TypeOK, PhaseOK, Task
<1>2. d \in Nat \ {0}
  BY <1>1, ShortestType
<1>3. /\ Elapsed \in Nat /\ Elapsed * t \in Nat
      /\ updated + Elapsed * t <= now /\ now < updated + Elapsed * t + t
  BY <1>1, ElapsedType
<1>4. TimeUntilNext = IF Elapsed >= d THEN 0 ELSE d - Elapsed
  BY DEF TimeUntilNext
<1> DEFINE wakeUp == now + TimeUntilNext * t
           deadline == updated + d * t
<1>5. d * t \in Nat
  BY <1>1, <1>2
<1>6. CASE Elapsed >= d
  <2>1. TimeUntilNext = 0 /\ TimeUntilNext * t = 0
    BY <1>1, <1>4, <1>6
  <2>2. t * d <= t * Elapsed /\ t * d = d * t /\ t * Elapsed = Elapsed * t
    BY <1>1, <1>2, <1>3, <1>6, OrderOfMultiples, ProductWithSum
  <2> HIDE DEF d, t
  <2>3. now >= deadline
    BY <1>1, <1>3, <1>5, <2>2
  <2>4. wakeUp = now
    BY <1>1, <2>1
  <2>5. QED
    BY <2>3, <2>4 DEF WaitEndsAtDeadline, d, t
<1>7. CASE Elapsed < d
  <2>1. TimeUntilNext = d - Elapsed /\ d - Elapsed \in Nat
    BY <1>2, <1>3, <1>4, <1>7
  <2> HIDE DEF d, t
  <2>2. d * t = Elapsed * t + (d - Elapsed) * t /\ (d - Elapsed) * t \in Nat
    BY <1>1, <1>2, <1>3, <2>1
  <2>3. Elapsed * t + t <= d * t
    <3>1. t * Elapsed + t <= t * d
      BY <1>1, <1>2, <1>3, <1>7, OrderOfMultiples
    <3>2. t * Elapsed = Elapsed * t /\ t * d = d * t
      BY <1>1, <1>2, <1>3, ProductWithSum
    <3>3. QED
      BY <3>1, <3>2
  <2>4. now < deadline
    BY <1>1, <1>3, <1>5, <2>3
  <2>5. wakeUp = now + (d - Elapsed) * t
    BY <2>1
  <2>6. wakeUp >= deadline /\ wakeUp < deadline + t
    BY <1>1, <1>3, <1>5, <2>2, <2>5
  <2>7. QED
    BY <1>1, <1>5, <2>4, <2>6 DEF WaitEndsAtDeadline, d, t
<1>8. QED
  BY <1>2, <1>3, <1>6, <1>7

\* The main loop neither oversleeps nor spins, whatever the intervals are and however
\* finely the clock counts.
THEOREM WaitsEndAtDeadlines == Spec => []WaitEndsAtDeadline
BY TypeInvariant, WaitIsRight, PTL

-----------------------------------------------------------------------------
(***************************************************************************)
(* Deadlines.  A task of main.py runs out at multiples of its interval     *)
(* from the end of main.py, and an update falls on a whole millisecond     *)
(* from there.  It is m milliseconds after the end of main.py that the     *)
(* list was brought up to date.                                            *)
(***************************************************************************)

OnItsGrid(task, m) ==
  /\ task.remaining <= task.interval
  /\ \E q \in Nat : m + task.remaining = task.interval * q

OnGrid(m) ==
  /\ updated = finished + TicksPerMillisecond * m
  /\ \A i \in DOMAIN tasks : FromStartup(tasks[i]) => OnItsGrid(tasks[i], m)

IInv ==
  /\ TypeInv
  /\ \A i \in DOMAIN tasks : tasks[i].id < nextTaskId
  /\ phase \in {"waiting", "callbacks"} => \E m \in Nat : OnGrid(m)

\* An update keeps a task on its grid.
LEMMA GridIsKept ==
  ASSUME NEW task \in Task, NEW m \in Nat, NEW e \in Nat, OnItsGrid(task, m)
  PROVE  OnItsGrid(Advanced(task, e), m + e)
<1> DEFINE v == task.interval
           r == task.remaining
           new == Advanced(task, e)
<1>1. v \in Nat \ {0} /\ r \in Nat \ {0} /\ r <= v
  BY SchedulerAssumption DEF Task, OnItsGrid
<1>2. PICK q \in Nat : m + r = v * q
  BY DEF OnItsGrid
<1>3. /\ new.interval = v
      /\ e < r => new.remaining = r - e
      /\ e >= r => new.remaining = v - ((e - r) % v)
  BY AdvancedType
<1> HIDE DEF v, r, new
<1>4. CASE e < r
  <2>1. new.remaining <= v
    BY <1>1, <1>3, <1>4
  <2>2. m + e + new.remaining = v * q
    BY <1>1, <1>2, <1>3, <1>4
  <2>3. QED
    BY <1>3, <2>1, <2>2 DEF OnItsGrid, new
<1>5. CASE e >= r
  <2> DEFINE k == (e - r) \div v
             x == (e - r) % v
  <2>1. k \in Nat /\ x \in 0..(v - 1) /\ e - r = v * k + x
    <3>1. e - r \in Nat
      BY <1>1, <1>5
    <3>2. QED
      BY <1>1, <3>1, Division
  <2>2. new.remaining = v - x
    BY <1>3, <1>5
  <2> HIDE DEF k, x
  <2>3. v * (q + k + 1) = v * q + v * k + v /\ v * q \in Nat /\ v * k \in Nat /\ q + k + 1 \in Nat
    BY <1>1, <2>1
  <2>4. m + e + new.remaining = v * (q + k + 1)
    BY <1>1, <1>2, <1>5, <2>1, <2>2, <2>3
  <2>5. new.remaining <= v
    BY <1>1, <2>1, <2>2
  <2>6. QED
    BY <1>3, <2>3, <2>4, <2>5 DEF OnItsGrid, new
<1>6. QED
  BY <1>1, <1>4, <1>5

\* Every update is made within the time that an update can report.
UpdatesComeInTime == [][Update => Elapsed <= MaximumElapsed]_vars

LEMMA GridInvariant == Spec /\ UpdatesComeInTime => []IInv
<1> USE SchedulerAssumption
<1>1. Init => IInv
  <2>1. Init => TypeInv
    BY DEF Init, TypeInv, TypeOK, PhaseOK, NotSet, TaskIds
  <2>2. QED
    BY <2>1 DEF Init, IInv
<1>2. IInv /\ TypeInv' /\ [Next]_vars /\ [Update => Elapsed <= MaximumElapsed]_vars => IInv'
  <2> SUFFICES ASSUME IInv, TypeInv', [Next]_vars, [Update => Elapsed <= MaximumElapsed]_vars
               PROVE  IInv'
    OBVIOUS
  <2>0. /\ tasks \in Seq(Task) /\ nextTaskId \in Nat
        /\ \A i \in DOMAIN tasks : tasks[i] \in Task /\ tasks[i].id \in TaskIds /\ tasks[i].id \in Nat
        /\ \A id \in TaskIds : began[id] \in {NotSet} \cup 0..now
        /\ began \in [TaskIds -> {NotSet} \cup 0..now]
        /\ now \in Nat /\ TypeInv /\ TypeOK /\ PhaseOK
    <3>1. tasks \in Seq(Task) /\ TypeInv /\ TypeOK /\ PhaseOK
      BY DEF IInv, TypeInv, TypeOK, Task
    <3>2. \A i \in DOMAIN tasks : tasks[i] \in Task
      BY <3>1
    <3>3. \A task \in Task : task.id \in TaskIds /\ task.id \in Nat
      BY DEF Task, TaskIds
    <3>4. nextTaskId \in Nat /\ now \in Nat /\ began \in [TaskIds -> {NotSet} \cup 0..now]
      BY <3>1 DEF TypeOK
    <3>5. QED
      BY <3>1, <3>2, <3>3, <3>4
  <2> USE DEF IInv
  <2>1. ASSUME NEW interval \in Intervals, Every(interval)
        PROVE  IInv'
    <3> DEFINE new == [id |-> nextTaskId, interval |-> interval, remaining |-> interval]
    <3>1. new \in Task /\ tasks' = <<new>> \o tasks /\ nextTaskId' = nextTaskId + 1
      BY <2>1 DEF Every, Task
    <3>2. new.id = nextTaskId /\ new.interval = interval /\ new.remaining = interval
      OBVIOUS
    <3> HIDE DEF new
    <3>3. /\ tasks'[1] = new
          /\ \A j \in DOMAIN tasks' : j # 1 => j - 1 \in DOMAIN tasks /\ tasks'[j] = tasks[j - 1]
      BY <2>0, <3>1, InFront
    <3>4. ASSUME NEW j \in DOMAIN tasks'
          PROVE  tasks'[j].id < nextTaskId'
      <4>1. CASE j = 1
        BY <2>0, <3>1, <3>2, <3>3, <4>1
      <4>2. CASE j # 1
        <5>1. j - 1 \in DOMAIN tasks /\ tasks'[j] = tasks[j - 1]
          BY <3>3, <4>2
        <5>2. tasks[j - 1].id < nextTaskId /\ tasks[j - 1].id \in Nat
          BY <2>0, <5>1
        <5>3. QED
          BY <2>0, <3>1, <5>1, <5>2
      <4>3. QED
        BY <4>1, <4>2
    <3>5. ASSUME phase' \in {"waiting", "callbacks"}
          PROVE  \E m \in Nat : OnGrid(m)'
      <4>1. phase = "callbacks" /\ began' = [began EXCEPT ![nextTaskId] = now] /\ UNCHANGED <<updated, finished, now>>
        BY <2>1, <3>5 DEF Every, PythonRuns
      <4>2. PICK m \in Nat : OnGrid(m)
        BY <4>1
      <4>3. updated' = finished' + TicksPerMillisecond * m
        BY <4>1, <4>2 DEF OnGrid
      <4>4. ASSUME NEW j \in DOMAIN tasks', began'[tasks'[j].id] = finished', j # 1
            PROVE  OnItsGrid(tasks'[j], m)
        <5>1. tasks'[j] = tasks[j - 1] /\ j - 1 \in DOMAIN tasks
          BY <3>3, <4>4
        <5>2. tasks[j - 1].id # nextTaskId
          BY <2>0, <5>1
        <5>3. FromStartup(tasks[j - 1])
          BY <2>0, <4>1, <4>4, <5>1, <5>2 DEF FromStartup
        <5>4. QED
          BY <4>2, <5>1, <5>3 DEF OnGrid
      <4>5. ASSUME began'[new.id] = finished'
            PROVE  OnItsGrid(new, m)
        <5>1. now = finished
          BY <2>0, <2>1, <3>2, <4>1, <4>5 DEF FromStartup, Every
        <5>2. updated \in Nat /\ finished \in Nat /\ updated <= now
          BY <2>0, <4>1 DEF PhaseOK, TypeOK, NotSet
        <5>3. m = 0
          <6>1. TicksPerMillisecond * m <= 0
            BY <4>2, <5>1, <5>2 DEF OnGrid
          <6>2. m # 0 => TicksPerMillisecond * 1 <= TicksPerMillisecond * m
            BY OrderOfMultiples
          <6>3. QED
            BY <6>1, <6>2
        <5>4. interval \in Nat /\ interval <= interval /\ m + interval = interval * 1
          BY <5>3
        <5>5. new.remaining <= new.interval /\ m + new.remaining = new.interval * 1
          BY <3>2, <5>4
        <5>6. QED
          BY <5>5 DEF OnItsGrid
      <4>6. \A j \in DOMAIN tasks' : began'[tasks'[j].id] = finished' => OnItsGrid(tasks'[j], m)
        BY <3>3, <4>4, <4>5
      <4>7. QED
        BY <4>3, <4>6 DEF OnGrid, OnItsGrid, FromStartup
    <3>6. QED
      BY <3>4, <3>5
  <2>2. ASSUME NEW id \in TaskIds, Cancel(id)
        PROVE  IInv'
    <3>1. PICK i \in DOMAIN tasks : tasks' = RemoveAt(tasks, i)
      BY <2>2 DEF Cancel
    <3>2. \A j \in DOMAIN tasks' : \E k \in DOMAIN tasks : tasks'[j] = tasks[k]
      BY <2>0, <3>1, RemovedAt
    <3>3. UNCHANGED <<phase, updated, nextTaskId, began, finished>>
      BY <2>2 DEF Cancel
    <3>4. \A j \in DOMAIN tasks' : tasks'[j].id < nextTaskId'
      BY <3>2, <3>3
    <3>5. \A m \in Nat : OnGrid(m) => OnGrid(m)'
      BY <3>2, <3>3 DEF OnGrid, OnItsGrid, FromStartup
    <3>6. QED
      BY <3>3, <3>4, <3>5
  <2>3. CASE Clear
    <3>1. tasks' = << >> /\ UNCHANGED <<phase, updated, finished>>
      BY <2>3 DEF Clear
    <3>2. \A m \in Nat : OnGrid(m) => OnGrid(m)'
      BY <3>1 DEF OnGrid
    <3>3. QED
      BY <3>1, <3>2
  <2>4. CASE StartupEnds
    <3>1. /\ phase = "startup" /\ updated' = now /\ finished' = now
          /\ tasks' = tasks /\ nextTaskId' = nextTaskId
      BY <2>4 DEF StartupEnds
    <3>2. \A i \in DOMAIN tasks : OnItsGrid(tasks[i], 0)
      <4> SUFFICES ASSUME NEW i \in DOMAIN tasks
                   PROVE  OnItsGrid(tasks[i], 0)
        OBVIOUS
      <4>1. tasks[i].interval \in Nat /\ tasks[i].remaining = tasks[i].interval
        BY <2>0, <3>1 DEF PhaseOK, Task
      <4>2. 0 + tasks[i].remaining = tasks[i].interval * 1
        BY <4>1
      <4>3. QED
        BY <4>1, <4>2 DEF OnItsGrid
    <3>3. updated' = finished' + TicksPerMillisecond * 0
      BY <2>0, <3>1
    <3>4. OnGrid(0)'
      BY <3>1, <3>2, <3>3 DEF OnGrid, OnItsGrid
    <3>5. QED
      BY <3>1, <3>4
  <2>5. CASE Update
    <3> DEFINE e == SmallerOf(Elapsed, MaximumElapsed)
               t == TicksPerMillisecond
    <3>1. /\ e \in Nat /\ Elapsed \in Nat /\ updated \in Nat
          /\ \A i \in DOMAIN tasks' : i \in DOMAIN tasks /\ tasks'[i] = Advanced(tasks[i], e)
          /\ updated' = updated + Elapsed * t
      BY <2>0, <2>5, UpdateIs
    <3>2. phase = "waiting" /\ UNCHANGED <<nextTaskId, began, finished>>
      BY <2>5 DEF Update
    <3>3. CASE UNCHANGED vars
      BY <3>3 DEF vars, OnGrid, OnItsGrid, FromStartup
    <3>4. CASE Elapsed <= MaximumElapsed
      <4>1. PICK n \in Nat : n = e /\ n = Elapsed
        BY <3>1, <3>4 DEF SmallerOf
      <4> HIDE DEF e
      <4>2. PICK m \in Nat : OnGrid(m)
        BY <3>2
      <4>3. finished \in Nat
        BY <2>0, <3>2 DEF PhaseOK
      <4>4. updated' = finished' + t * (m + n)
        BY <3>1, <3>2, <4>1, <4>2, <4>3 DEF OnGrid
      <4>5. ASSUME NEW i \in DOMAIN tasks', began'[tasks'[i].id] = finished'
            PROVE  OnItsGrid(tasks'[i], m + n)
        <5>1. i \in DOMAIN tasks /\ tasks[i] \in Task /\ tasks'[i] = Advanced(tasks[i], n)
          BY <2>0, <3>1, <4>1
        <5>2. tasks'[i].id = tasks[i].id
          BY <5>1, AdvancedType
        <5>3. FromStartup(tasks[i])
          BY <3>2, <4>5, <5>2 DEF FromStartup
        <5>4. OnItsGrid(tasks[i], m)
          BY <4>2, <5>1, <5>3 DEF OnGrid
        <5>5. QED
          BY <4>1, <5>1, <5>4, GridIsKept
      <4>6. OnGrid(m + n)'
        BY <4>4, <4>5 DEF OnGrid, OnItsGrid, FromStartup
      <4>7. m + n \in Nat
        OBVIOUS
      <4>8. \A i \in DOMAIN tasks' : tasks'[i].id < nextTaskId'
        <5> SUFFICES ASSUME NEW i \in DOMAIN tasks'
                     PROVE  tasks'[i].id < nextTaskId'
          OBVIOUS
        <5>1. i \in DOMAIN tasks /\ tasks[i] \in Task /\ tasks'[i] = Advanced(tasks[i], n)
          BY <2>0, <3>1, <4>1
        <5>2. tasks'[i].id = tasks[i].id
          BY <5>1, AdvancedType
        <5>3. QED
          BY <3>2, <5>1, <5>2
      <4>9. QED
        BY <4>6, <4>7, <4>8
    <3>5. QED
      BY <2>5, <3>3, <3>4
  <2>6. CASE CallbackReturns
    BY <2>6 DEF CallbackReturns, OnGrid, OnItsGrid, FromStartup
  <2>7. CASE CallbackRaises
    BY <2>7 DEF CallbackRaises
  <2>8. CASE Tick
    BY <2>8 DEF Tick, OnGrid, OnItsGrid, FromStartup
  <2>9. CASE UNCHANGED vars
    BY <2>9 DEF vars, OnGrid, OnItsGrid, FromStartup
  <2>10. QED
    BY <2>1, <2>2, <2>3, <2>4, <2>5, <2>6, <2>7, <2>8, <2>9 DEF Next
<1>3. QED
  BY <1>1, <1>2, TypeInvariant, PTL DEF Spec, UpdatesComeInTime

\* The step that says which callbacks are due: an update of tasks on their grids.
LEMMA UpdateCallsDeadlines ==
  ASSUME IInv, Update, Elapsed <= MaximumElapsed,
         NEW i \in DOMAIN tasks, FromStartup(tasks[i])
  PROVE  Contains(due', tasks[i]) <=> DeadlineBetween(tasks[i], updated, updated')
<1> DEFINE t == TicksPerMillisecond
           v == tasks[i].interval
           r == tasks[i].remaining
<1>1. TypeInv /\ phase = "waiting" /\ tasks \in Seq(Task) /\ t \in Nat \ {0}
  BY SchedulerAssumption DEF IInv, TypeInv, TypeOK, Task, Update
<1>2. PICK e \in Nat : e = SmallerOf(Elapsed, MaximumElapsed) /\ e = Elapsed
  BY <1>1, UpdateIs DEF SmallerOf
<1>3. /\ due' = ElementsAt(tasks, Reached(e)) /\ Reached(e) \in SUBSET (1..Len(tasks))
      /\ due' \in Seq(Task) /\ updated' = updated + e * t
  BY <1>1, <1>2, UpdateIs
<1>4. v \in Nat \ {0} /\ r \in Nat \ {0} /\ finished \in Nat
  <2>1. tasks[i] \in Task /\ finished \in Nat
    BY <1>1 DEF TypeInv, PhaseOK
  <2>2. QED
    BY <2>1, SchedulerAssumption DEF Task
<1>5. PICK m \in Nat : OnGrid(m)
  BY <1>1 DEF IInv
<1>6. PICK q \in Nat : r <= v /\ m + r = v * q
  BY <1>5 DEF OnGrid, OnItsGrid
<1>7. Contains(due', tasks[i]) <=> e >= r
  <2>1. CASE e >= r
    <3>1. i \in Reached(e)
      BY <2>1 DEF Reached
    <3>2. \E n \in 1..Len(due') : due'[n] = tasks[i]
      BY <1>1, <1>3, <3>1, ElementsAtHas
    <3>3. QED
      BY <2>1, <3>2 DEF Contains
  <2>2. ASSUME Contains(due', tasks[i])
        PROVE  e >= r
    <3>1. PICK n \in 1..Len(due') : due'[n] = tasks[i]
      BY <2>2 DEF Contains
    <3>2. \E j \in Reached(e) : due'[n] = tasks[j]
      BY <1>1, <1>3, <3>1, ElementsAtIsFrom, SMTT(30)
    <3>3. QED
      BY <3>1, <3>2 DEF Reached
  <2>3. QED
    BY <2>1, <2>2
<1> HIDE DEF t, v, r
<1>8. (m + e) \div v > m \div v <=> e >= r
  <2>1. r \in 1..v
    BY <1>4, <1>6
  <2>2. QED
    BY <1>4, <1>6, <2>1, IntervalEnds
<1>9. updated - finished = t * m /\ updated' - finished = t * (m + e)
  BY <1>1, <1>3, <1>4, <1>5 DEF OnGrid, t
<1>10. (t * m) \div (v * t) = m \div v /\ (t * (m + e)) \div (v * t) = (m + e) \div v
  <2>1. m + e \in Nat
    OBVIOUS
  <2>2. QED
    BY <1>1, <1>4, <2>1, QuotientOfMultiples
<1>11. DeadlineBetween(tasks[i], updated, updated') <=> (m + e) \div v > m \div v
  BY <1>9, <1>10 DEF DeadlineBetween, Duration, t, v
<1>12. QED
  BY <1>7, <1>8, <1>11

\* The timers of main.py never drift: whatever the intervals are, whichever timers come and
\* go and however irregularly the updates come, a callback is called in exactly the updates
\* that one of its deadlines has passed before.
THEOREM CallsMatchTheirDeadlines == Spec /\ UpdatesComeInTime => CallsMatchDeadlines
<1>1. IInv /\ [Next]_vars /\ [Update => Elapsed <= MaximumElapsed]_vars =>
        [phase = "waiting" /\ updated' # updated =>
           \A i \in DOMAIN tasks :
             FromStartup(tasks[i]) =>
               (Contains(due', tasks[i]) <=> DeadlineBetween(tasks[i], updated, updated'))]_vars
  <2> SUFFICES ASSUME IInv, [Next]_vars, [Update => Elapsed <= MaximumElapsed]_vars,
                      phase = "waiting", updated' # updated
               PROVE  \A i \in DOMAIN tasks :
                        FromStartup(tasks[i]) =>
                          (Contains(due', tasks[i]) <=> DeadlineBetween(tasks[i], updated, updated'))
    OBVIOUS
  <2>1. Update
    BY DEF Next, vars, Every, Cancel, Clear, StartupEnds, CallbackReturns, CallbackRaises, Tick,
           PythonRuns
  <2>2. Elapsed <= MaximumElapsed
    BY <2>1 DEF vars
  <2>3. QED
    BY <2>1, <2>2, UpdateCallsDeadlines
<1>2. QED
  BY <1>1, GridInvariant, PTL DEF Spec, UpdatesComeInTime, CallsMatchDeadlines
=============================================================================
