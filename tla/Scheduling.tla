----------------------------- MODULE Scheduling ------------------------------
(***************************************************************************)
(* project4/sched as the Makefile builds it: one driver.c, linked with one *)
(* of five schedulers (targets fcfs, sjf, priority, rr, priority_rr).  The *)
(* policy decides which of the two models takes the steps; the globals of  *)
(* the scheduler that is not linked keep their initial values.             *)
(***************************************************************************)
EXTENDS Integers

CONSTANTS MIN_PRIORITY, MAX_PRIORITY, TIME, MaxTasks, Priorities, Bursts

VARIABLES
  policy,                                          \* of both models
  tasks, list, scheduling, ran,                    \* of ListScheduling
  lines, next, rear, burst, level, quanta, asked   \* of RoundRobin

\* Only schedule_priority_rr.c looks at the range of a priority.
Lists  == INSTANCE ListScheduling WITH Priorities <- MIN_PRIORITY..MAX_PRIORITY
Rounds == INSTANCE RoundRobin WITH ran <- quanta

ASSUME SchedulingAssumption == Lists!Parameters /\ Rounds!Parameters

listVars  == <<tasks, list, scheduling, ran>>
roundVars == <<lines, next, rear, burst, level, quanta, asked>>
driverVars == <<policy, listVars, roundVars>>

DriverInit ==
  /\ policy \in Lists!Policies \cup Rounds!Policies
  /\ Lists!Fresh /\ Rounds!Fresh

RunsLists ==
  /\ policy \in Lists!Policies
  /\ Lists!Next
  /\ UNCHANGED roundVars

RunsRounds ==
  /\ policy \in Rounds!Policies
  /\ Rounds!Next
  /\ UNCHANGED listVars

DriverNext == RunsLists \/ RunsRounds

\* Each program is sequential: it goes on while it can.
DriverSpec ==
  DriverInit /\ [][DriverNext]_driverVars /\ WF_driverVars(RunsRounds /\ Rounds!Scheduler)

-----------------------------------------------------------------------------
\* schedule_sjf.c:52, "I use >= here to make sure fifo for tasks with the same
\* burst": whatever the order of the input, the tasks run by ascending key, and
\* those with the same key in the order in which they were added.
FifoAmongEquals == policy \in Lists!Policies => Lists!FifoAmongEquals

\* What shortest-job-first is for: no other order of the same tasks makes them
\* wait less in total.
SJFWaitsLeast == Lists!SJFWaitsLeast

\* However often a list has been rotated, it ends, no task is in it twice or in
\* another one, and rear is its last node.
ListsWellFormed == Rounds!ListsWellFormed

\* Both round-robin programs are ready queues in the sense of ReadyQueues.
IsReadyQueues == Rounds!IsReadyQueues

\* Once the input has been read, the scheduler ends, and every task accepted
\* has then been given exactly the time it asked for.
EveryTaskServed == Rounds!EveryTaskServed
=============================================================================
