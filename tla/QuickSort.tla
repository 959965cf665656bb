------------------------------ MODULE QuickSort ------------------------------
(***************************************************************************)
(* project3/project3_3/Quicksort.java: fork-join tasks that sort one       *)
(* shared array in place.  A task partitions arr[from..to), and, if it has *)
(* fewer than ARRAY_SIZE_FOR_SOLO elements, sorts them with                *)
(* selection_sort, whose inner loop runs to the END OF THE ARRAY, where    *)
(* other tasks are at work.  Either way it then forks a task for each side *)
(* of the pivot and joins both.                                            *)
(*                                                                         *)
(* A task is named by its range <<from, to>>.  Every statement that reads  *)
(* or writes the array is a step.  A task of fewer than two elements       *)
(* returns at once and is not created.                                     *)
(***************************************************************************)
EXTENDS Integers, Functions

CONSTANTS ARRAY_SIZE, ARRAY_SIZE_FOR_SOLO

Parameters == ARRAY_SIZE \in Nat /\ ARRAY_SIZE_FOR_SOLO \in Nat

VARIABLES
  array,      \* arr
  tasks       \* the tasks that have not returned, with their locals

vars == <<array, tasks>>

Index == 0..(ARRAY_SIZE - 1)

\* A task before its first statement; i, j, min and temp are the locals of the
\* loop it is in, p is the result of findPivotIndex.
NewTask(from) ==
  [at |-> "start", pivot |-> 0, i |-> from, j |-> from + 1, p |-> from,
   min |-> from, temp |-> 0, swap |-> 0]

Ranges(pairs) == {r \in pairs : r[2] - r[1] >= 2}
NewTasks(pairs) == [r \in Ranges(pairs) |-> NewTask(r[1])]

Fresh(input) ==
  /\ array = input
  /\ tasks = NewTasks({<<0, ARRAY_SIZE>>})

-----------------------------------------------------------------------------
Become(r, locals) == tasks' = [tasks EXCEPT ![r] = locals]

\* int pivot = arr[from]
Start(r) ==
  /\ tasks[r].at = "start"
  /\ Become(r, [tasks[r] EXCEPT !.at = "scan", !.pivot = array[r[1]]])
  /\ UNCHANGED array

\* while (++j < to), and what follows the loop.
NextJ(r, t) ==
  IF t.j + 1 < r[2] THEN [t EXCEPT !.at = "scan", !.j = @ + 1]
                    ELSE [t EXCEPT !.at = "swap pivot"]

BelongsLeft(x, pivot) == x <= pivot

\* if(arr[j]<=pivot) i++
Scan(r) ==
  LET t == tasks[r]
  IN /\ t.at = "scan"
     /\ Become(r, IF BelongsLeft(array[t.j], t.pivot)
                  THEN [t EXCEPT !.at = "swap scanned", !.i = @ + 1]
                  ELSE NextJ(r, t))
     /\ UNCHANGED array

\* The arguments of the exchange the task is about to make.
Swapped(r) ==
  LET t == tasks[r]
  IN CASE t.at = "swap scanned"  -> <<t.i, t.j>>
       [] t.at = "swap pivot"    -> <<r[1], t.i>>
       [] t.at = "swap selected" -> <<t.i, t.min>>

Swapping(r) == tasks[r].at \in {"swap scanned", "swap pivot", "swap selected"}

\* The next turn of selection_sort's outer loop, i, or its end.
SelectFrom(r, t, i) ==
  IF i < r[2] THEN [t EXCEPT !.at = "select", !.i = i, !.min = i, !.j = i + 1]
              ELSE [t EXCEPT !.at = "fork"]

AfterSwap(r, t) ==
  CASE t.at = "swap scanned"  -> NextJ(r, t)
    [] t.at = "swap selected" -> SelectFrom(r, t, t.i + 1)
    [] t.at = "swap pivot"    ->
         IF r[2] - r[1] < ARRAY_SIZE_FOR_SOLO
         THEN SelectFrom(r, [t EXCEPT !.p = t.i], r[1])
         ELSE [t EXCEPT !.p = t.i, !.at = "fork"]

\* int temp=arr[first]
SwapLoad(r) ==
  /\ Swapping(r) /\ tasks[r].swap = 0
  /\ Become(r, [tasks[r] EXCEPT !.temp = array[Swapped(r)[1]], !.swap = 1])
  /\ UNCHANGED array

\* arr[first]=arr[second]
SwapMove(r) ==
  /\ Swapping(r) /\ tasks[r].swap = 1
  /\ array' = [array EXCEPT ![Swapped(r)[1]] = array[Swapped(r)[2]]]
  /\ Become(r, [tasks[r] EXCEPT !.swap = 2])

\* arr[second]=temp
SwapStore(r) ==
  /\ Swapping(r) /\ tasks[r].swap = 2
  /\ array' = [array EXCEPT ![Swapped(r)[2]] = tasks[r].temp]
  /\ Become(r, AfterSwap(r, [tasks[r] EXCEPT !.swap = 0]))

\* Mutant: selection_sort picks the maximum.
BeatsMinReversed(min, x) == min < x

BeatsMin(min, x) == min > x

\* The inner loop of selection_sort, for(j=i+1;j<a.length;j++).
Select(r) ==
  LET t == tasks[r]
  IN /\ t.at = "select"
     /\ Become(r,
          IF t.j = ARRAY_SIZE THEN [t EXCEPT !.at = "swap selected"]
          ELSE [t EXCEPT !.j = @ + 1,
                         !.min = IF BeatsMin(array[@], array[t.j]) THEN t.j ELSE @])
     /\ UNCHANGED array

\* Mutant: the pivot stays in the range of the left task.
SidesWithPivot(r, p) == {<<r[1], p + 1>>, <<p, r[2]>>}

\* The ranges of the two new tasks.
Sides(r, p) == {<<r[1], p>>, <<p + 1, r[2]>>}

\* invokeAll: both tasks are forked ...
Fork(r) ==
  LET new == NewTasks(Sides(r, tasks[r].p))
      old == [tasks EXCEPT ![r].at = "join"]
  IN /\ tasks[r].at = "fork"
     /\ tasks' = [q \in DOMAIN new \cup DOMAIN old |-> IF q \in DOMAIN new THEN new[q] ELSE old[q]]
     /\ UNCHANGED array

\* ... and joined.
Join(r) ==
  /\ tasks[r].at = "join"
  /\ Sides(r, tasks[r].p) \cap DOMAIN tasks = {}
  /\ tasks' = Restrict(tasks, DOMAIN tasks \ {r})
  /\ UNCHANGED array

Compute(r) ==
  \/ Start(r) \/ Scan(r) \/ SwapLoad(r) \/ SwapMove(r) \/ SwapStore(r)
  \/ Select(r) \/ Fork(r) \/ Join(r)

\* The common pool has returned from invoke().
Returned == DOMAIN tasks = {}

Next == \E r \in DOMAIN tasks : Compute(r)

-----------------------------------------------------------------------------
\* A step that changes a cell is a step of a task in whose range the cell lies:
\* the tasks that run at the same time share the array without a lock, and the
\* one that scans beyond its range never picks its minimum there.
InRange(r, k) == r[1] <= k /\ k < r[2]
StaysInRange ==
  \A r \in DOMAIN tasks : (r \notin DOMAIN tasks' \/ tasks'[r] # tasks[r]) =>
    \A k \in Index : array'[k] # array[k] => InRange(r, k)
=============================================================================
