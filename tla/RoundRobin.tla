----------------------------- MODULE RoundRobin ------------------------------
(***************************************************************************)
(* project4/sched: driver.c with one of the two round-robin schedulers,    *)
(* schedule_rr.c (one list, priorities ignored) or schedule_priority_rr.c  *)
(* (one list per priority, the largest number first).  Both rotate a       *)
(* singly linked list in place, with a pointer to its last node.           *)
(*                                                                         *)
(* A node is named by the place of its task in the input, the header of a  *)
(* list by minus its level; schedule_rr's only list has level MIN_PRIORITY.*)
(* The input is not empty: schedule() reads what the first add() allocates.*)
(***************************************************************************)
EXTENDS Integers, Sequences, FiniteSetsExt

CONSTANTS
  MIN_PRIORITY, MAX_PRIORITY,
  TIME,                        \* the quantum
  MaxTasks,                    \* bound: the lines of the input
  Priorities, Bursts           \* the values that occur in it

Parameters ==
  /\ MIN_PRIORITY \in Nat \ {0} /\ MAX_PRIORITY \in Nat
  /\ MIN_PRIORITY <= MAX_PRIORITY
  /\ TIME \in Nat \ {0} /\ MaxTasks \in Nat \ {0}
  /\ Priorities \subseteq Int /\ Bursts \subseteq Nat

VARIABLES
  policy,            \* which of the two programs this is
  lines,             \* lines of the input read so far
  next,              \* the next pointer of every node
  rear,              \* the last node of each level, NULL before the first add
  burst,             \* what each task still needs
  level,             \* the level being scheduled, or where schedule() stands
  ran,               \* history: the quanta so far, as <<task, time>>
  asked              \* history: the burst each accepted task came with

listVars == <<next, rear, burst>>
vars == <<policy, lines, listVars, level, ran, asked>>

Policies == {"rr", "priority_rr"}
Levels == MIN_PRIORITY..MAX_PRIORITY
Tasks  == 1..MaxTasks
head(l) == -l
NULL    == 0
Nodes   == Tasks \cup {head(l) : l \in Levels}

Adding  == MAX_PRIORITY + 1      \* main is still reading the input
Ended   == MIN_PRIORITY - 1      \* the loop over the levels is over

\* The globals of a scheduler before the first line of the input is read.
Fresh ==
  /\ lines = 0
  /\ next = [n \in Nodes |-> NULL]
  /\ rear = [l \in Levels |-> NULL]
  /\ burst = [t \in Tasks |-> 0]
  /\ level = Adding
  /\ ran = <<>>
  /\ asked = [t \in Tasks |-> 0]

Init == policy \in Policies /\ Fresh

-----------------------------------------------------------------------------
\* Mutant: rear stays where it was.
AppendNodeRearStays(l, t, time) ==
  LET last == IF rear[l] = NULL THEN head(l) ELSE rear[l]
  IN /\ next' = [next EXCEPT ![last] = t]
     /\ rear' = [rear EXCEPT ![l] = last]
     /\ burst' = [burst EXCEPT ![t] = time]
     /\ asked' = [asked EXCEPT ![t] = time]

\* add(), for a list with or without a header.
AppendNode(l, t, time) ==
  LET last == IF rear[l] = NULL THEN head(l) ELSE rear[l]
  IN /\ next' = [next EXCEPT ![last] = t]
     /\ rear' = [rear EXCEPT ![l] = t]
     /\ burst' = [burst EXCEPT ![t] = time]
     /\ asked' = [asked EXCEPT ![t] = time]

ReadLine ==
  /\ level = Adding /\ lines < MaxTasks
  /\ lines' = lines + 1
  /\ UNCHANGED <<policy, level, ran>>

AddRR(time) ==
  /\ policy = "rr"
  /\ ReadLine
  /\ AppendNode(MIN_PRIORITY, lines + 1, time)

AddPriorityRR(priority, time) ==
  /\ policy = "priority_rr"
  /\ ReadLine
  /\ priority \in Levels
  /\ AppendNode(priority, lines + 1, time)

\* "[error] Invalid task priority": the task is left out.
InvalidPriority(priority) ==
  /\ policy = "priority_rr"
  /\ ReadLine
  /\ priority \notin Levels
  /\ UNCHANGED <<listVars, asked>>

-----------------------------------------------------------------------------
\* Mutant: the levels are served in ascending order.
FirstLevelLowest == MIN_PRIORITY

\* schedule(): the loop over the levels; schedule_rr has the one.
FirstLevel == IF policy = "rr" THEN MIN_PRIORITY ELSE MAX_PRIORITY

StartSchedule ==
  /\ level = Adding /\ lines > 0
  /\ level' = FirstLevel
  /\ UNCHANGED <<policy, lines, listVars, ran, asked>>

First == next[head(level)]

Slice(t) == IF TIME < burst[t] THEN TIME ELSE burst[t]

Charge(t) ==
  /\ level \in Levels /\ t # NULL
  /\ ran' = Append(ran, <<t, Slice(t)>>)
  /\ UNCHANGED <<policy, lines, level, asked>>

\* "task complete, remove from list"
Complete ==
  /\ Charge(First)
  /\ burst[First] = Slice(First)
  /\ burst' = [burst EXCEPT ![First] = 0]
  /\ next' = [next EXCEPT ![head(level)] = next[First]]
  /\ UNCHANGED rear

\* Mutant: the last node keeps its old next pointer.
RotateKeepsNext ==
  /\ Charge(First)
  /\ burst[First] # Slice(First)
  /\ burst' = [burst EXCEPT ![First] = @ - Slice(First)]
  /\ LET next1 == [next EXCEPT ![rear[level]] = First]
     IN next' = [next1 EXCEPT ![head(level)] = next1[First]]
  /\ rear' = [rear EXCEPT ![level] = First]

\* The four pointer assignments of the other branch, in their order.  A task
\* that is alone in its list points to itself until the last of them.
Rotate ==
  /\ Charge(First)
  /\ burst[First] # Slice(First)
  /\ burst' = [burst EXCEPT ![First] = @ - Slice(First)]
  /\ LET next1 == [next EXCEPT ![rear[level]] = First]
         next2 == [next1 EXCEPT ![head(level)] = next1[First]]
     IN next' = [next2 EXCEPT ![First] = NULL]
  /\ rear' = [rear EXCEPT ![level] = First]

\* The list is empty, or there is none: on to the next level.
NextLevel ==
  /\ level \in Levels /\ First = NULL
  /\ level' = level - 1
  /\ UNCHANGED <<policy, lines, listVars, ran, asked>>

Exit == level = Ended /\ UNCHANGED vars

Scheduler == StartSchedule \/ Complete \/ Rotate \/ NextLevel

Next ==
  \/ \E time \in Bursts : AddRR(time)
  \/ \E priority \in Priorities, time \in Bursts : AddPriorityRR(priority, time)
  \/ \E priority \in Priorities : InvalidPriority(priority)
  \/ Scheduler \/ Exit

\* The program is sequential: it goes on while it can.
Spec     == Init /\ [][Next]_vars
FairSpec == Spec /\ WF_vars(Scheduler)

-----------------------------------------------------------------------------
TypeOK ==
  /\ policy \in Policies
  /\ lines \in 0..MaxTasks
  /\ next \in [Nodes -> Tasks \cup {NULL}]
  /\ rear \in [Levels -> Nodes \cup {NULL}]
  /\ burst \in [Tasks -> Bursts \cup 0..Max(Bursts)]
  /\ level \in Ended..Adding
  /\ ran \in Seq(Tasks \X (0..TIME))
  /\ asked \in [Tasks -> Bursts \cup {0}]

\* The tasks met when following next from the header, at most MaxTasks + 1.
Ready(l) ==
  LET node[k \in 0..(MaxTasks + 1)] ==
        IF k = 0 THEN next[head(l)]
        ELSE IF node[k-1] = NULL THEN NULL ELSE next[node[k-1]]
      length == Cardinality({k \in 0..(MaxTasks + 1) : node[k] # NULL})
  IN [k \in 1..length |-> node[k-1]]

\* However often a list has been rotated, it ends, no task is in it twice or in
\* another one, and rear is its last node: the next task that is put back lands
\* behind all the others.
ListsWellFormed ==
  \A l \in Levels :
    /\ Len(Ready(l)) <= MaxTasks
    /\ \A k \in DOMAIN Ready(l), m \in Levels : \A j \in DOMAIN Ready(m) :
          Ready(l)[k] = Ready(m)[j] => k = j /\ l = m
    /\ Ready(l) # <<>> => rear[l] = Ready(l)[Len(Ready(l))]

\* Both programs are ready queues in the sense of ReadyQueues.
Queues == INSTANCE ReadyQueues WITH
            Quantum <- TIME, ready <- [l \in Levels |-> Ready(l)], left <- burst
IsReadyQueues == Queues!Spec

\* Once the input has been read, the scheduler ends, and every task accepted
\* has then been given exactly the time it asked for.
Given(t) == MapThenSumSet(LAMBDA k : ran[k][2], {k \in DOMAIN ran : ran[k][1] = t})
EveryTaskServed ==
  (level # Adding) ~> (level = Ended /\ \A t \in Tasks : Given(t) = asked[t])
=============================================================================
