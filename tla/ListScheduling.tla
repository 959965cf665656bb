--------------------------- MODULE ListScheduling ---------------------------
(***************************************************************************)
(* project4/sched: driver.c with one of the three schedulers that run each *)
(* task once to its end, schedule_fcfs.c, schedule_sjf.c and               *)
(* schedule_priority.c.  add() keeps the list in the order in which        *)
(* schedule() runs it.                                                     *)
(*                                                                         *)
(* A task is named by its place in the input, so the list is a sequence of *)
(* numbers.  The input is not empty: schedule() reads through the list's   *)
(* header, which the first add() allocates.                                *)
(***************************************************************************)
EXTENDS Integers, SequencesExt

CONSTANTS
  MaxTasks,                    \* bound: the lines of the input
  Priorities, Bursts           \* the values that occur in it

Parameters ==
  /\ MaxTasks \in Nat \ {0}
  /\ Priorities \subseteq Nat /\ Bursts \subseteq Nat

VARIABLES
  policy,        \* which of the three programs this is
  tasks,         \* the tasks added so far
  list,          \* the list behind the header
  scheduling,    \* the input is at its end and schedule() runs
  ran            \* history: the tasks that have run, in order

vars == <<policy, tasks, list, scheduling, ran>>

Policies == {"fcfs", "sjf", "priority"}

\* The globals of a scheduler before the first line of the input is read.
Fresh ==
  /\ tasks = <<>> /\ list = <<>>
  /\ scheduling = FALSE
  /\ ran = <<>>

Init == policy \in Policies /\ Fresh

-----------------------------------------------------------------------------
\* add() walks past the tasks whose key is at most the new one's.
\* Mutant: it stops at a task with the same key.
BeforeFirstSame(key, new) ==
  LET k == SelectInSeq(list, LAMBDA t : key[t] >= new)
  IN IF k = 0 THEN Len(list) + 1 ELSE k

BeforeFirstLarger(key, new) ==
  LET k == SelectInSeq(list, LAMBDA t : key[t] > new)
  IN IF k = 0 THEN Len(list) + 1 ELSE k

\* The next task of the input, t, is added.
Add(task, list1) ==
  /\ ~scheduling /\ Len(tasks) < MaxTasks
  /\ tasks' = Append(tasks, task)
  /\ list' = list1
  /\ UNCHANGED <<policy, scheduling, ran>>

Column(field) == [t \in DOMAIN tasks |-> tasks[t][field]]
New == Len(tasks) + 1

AddFCFS(task) ==
  /\ policy = "fcfs"
  /\ Add(task, Append(list, New))

\* Mutant: the tasks are ordered by the wrong column.
AddSJFByPriority(task) ==
  /\ policy = "sjf"
  /\ Add(task, InsertAt(list, BeforeFirstLarger(Column("priority"), task.priority), New))

AddSJF(task) ==
  /\ policy = "sjf"
  /\ Add(task, InsertAt(list, BeforeFirstLarger(Column("burst"), task.burst), New))

AddPriority(task) ==
  /\ policy = "priority"
  /\ Add(task, InsertAt(list, BeforeFirstLarger(Column("priority"), task.priority), New))

StartSchedule ==
  /\ ~scheduling /\ tasks # <<>>
  /\ scheduling' = TRUE
  /\ UNCHANGED <<policy, tasks, list, ran>>

\* schedule() runs the tasks from the front; clearMemory() then frees them.
RunFirst ==
  /\ scheduling /\ list # <<>>
  /\ ran' = Append(ran, Head(list))
  /\ list' = Tail(list)
  /\ UNCHANGED <<policy, tasks, scheduling>>

Ended ==
  /\ scheduling /\ list = <<>>
  /\ UNCHANGED vars

Task == [priority : Priorities, burst : Bursts]
Next ==
  \/ \E task \in Task : AddFCFS(task) \/ AddSJF(task) \/ AddPriority(task)
  \/ StartSchedule \/ RunFirst \/ Ended

Spec == Init /\ [][Next]_vars

-----------------------------------------------------------------------------
\* Every task of the input is run or waits to be run, once.
TypeOK ==
  /\ policy \in Policies
  /\ tasks \in Seq(Task) /\ Len(tasks) <= MaxTasks
  /\ scheduling \in BOOLEAN
  /\ Len(ran) + Len(list) = Len(tasks)
  /\ ToSet(ran) \cup ToSet(list) = DOMAIN tasks

\* schedule_sjf.c:52, "I use >= here to make sure fifo for tasks with the same
\* burst": whatever the order of the input, the tasks run by ascending key, and
\* those with the same key in the order in which they were added.
Key(t) == CASE policy = "fcfs" -> 0
            [] policy = "sjf" -> tasks[t].burst
            [] policy = "priority" -> tasks[t].priority
Order == ran \o list
FifoAmongEquals ==
  \A i, j \in 1..Len(Order) : i < j =>
    \/ Key(Order[i]) < Key(Order[j])
    \/ Key(Order[i]) = Key(Order[j]) /\ Order[i] < Order[j]

\* What shortest-job-first is for: no other order of the same tasks makes them
\* wait less in total.
TotalWait(order) ==
  LET start[k \in 1..(Len(order) + 1)] ==
        IF k = 1 THEN 0 ELSE start[k-1] + tasks[order[k-1]].burst
      sum[k \in 0..Len(order)] == IF k = 0 THEN 0 ELSE sum[k-1] + start[k]
  IN sum[Len(order)]
SJFWaitsLeast ==
  (policy = "sjf" /\ scheduling) =>
    \A order \in SetToSeqs(DOMAIN tasks) : TotalWait(Order) <= TotalWait(order)
=============================================================================
