------------------------------ MODULE Project3 -------------------------------
(***************************************************************************)
(* The programs of project3 have one shape: main hands parts of one piece  *)
(* of data to threads or tasks that run without a lock, waits for all of   *)
(* them and prints.  This module runs any one of the four; the data of the *)
(* others keeps its initial value.                                         *)
(***************************************************************************)
EXTENDS Integers, Sequences, FiniteSets

CONSTANTS
  array_length,                        \* of multithread_sorting.c
  ARRAY_SIZE, ARRAY_SIZE_FOR_SOLO,     \* of the Java programs
  Values,                              \* the numbers in an array
  NotRead,                             \* an operand that has not been loaded
  Box,                                 \* the side of a box of the puzzle
  Puzzles                              \* the puzzles looked at

VARIABLES
  program, input,                                \* which one, and its array
  array,                                         \* the array sorted in place
  todo, frame, printed, early,                   \* of MultithreadedSort
  tasks,                                         \* of QuickSort
  arrays, stage,                                 \* of MergeSort
  sudoku, valid, toCreate, running, verdict      \* of Sudoku

Threaded == INSTANCE MultithreadedSort
Quick    == INSTANCE QuickSort
Merging  == INSTANCE MergeSort
Checker  == INSTANCE Sudoku

ASSUME Project3Assumption ==
  /\ Threaded!Parameters /\ Quick!Parameters /\ Merging!Parameters
  /\ Checker!Parameters
  /\ IsFiniteSet(Values) /\ Values \subseteq Int

threadedVars == <<todo, frame, printed, early>>
mergingVars  == <<arrays, stage>>
checkerVars  == <<sudoku, valid, toCreate, running, verdict>>
vars == <<program, input, array, threadedVars, tasks, mergingVars, checkerVars>>

Programs == {"multithread_sorting", "Quicksort", "Mergesort", "sudoku"}

\* The arrays a program may be given; sudoku is given none.
Inputs ==
  CASE program = "multithread_sorting" -> [0..(array_length - 1) -> Values]
    [] program \in {"Quicksort", "Mergesort"} -> [0..(ARRAY_SIZE - 1) -> Values]
    [] program = "sudoku" -> {[k \in 0..(ARRAY_SIZE - 1) |-> 0]}

Init ==
  /\ program \in Programs
  /\ input \in Inputs
  /\ Threaded!Fresh(input) /\ Quick!Fresh(input)
  /\ IF program = "Mergesort" THEN Merging!Fresh(input)
                              ELSE Merging!Fresh([k \in 0..(ARRAY_SIZE - 1) |-> 0])
  /\ IF program = "sudoku" THEN \E puzzle \in Puzzles : Checker!Fresh(puzzle)
                           ELSE Checker!Fresh(CHOOSE puzzle \in Puzzles : TRUE)

MultithreadSorting ==
  /\ program = "multithread_sorting" /\ Threaded!Next
  /\ UNCHANGED <<program, input, tasks, mergingVars, checkerVars>>
Quicksort ==
  /\ program = "Quicksort" /\ Quick!Next
  /\ UNCHANGED <<program, input, threadedVars, mergingVars, checkerVars>>
Mergesort ==
  /\ program = "Mergesort" /\ Merging!Next
  /\ UNCHANGED <<program, input, array, threadedVars, tasks, checkerVars>>
SudokuChecker ==
  /\ program = "sudoku" /\ Checker!Next
  /\ UNCHANGED <<program, input, array, threadedVars, tasks, mergingVars>>

\* main prints its answer.
Ended ==
  CASE program = "multithread_sorting" -> printed
    [] program = "Quicksort" -> Quick!Returned
    [] program = "Mergesort" -> Merging!Returned
    [] program = "sudoku"    -> verdict # "none"

AfterEnd == Ended /\ UNCHANGED vars

Run  == MultithreadSorting \/ Quicksort \/ Mergesort \/ SudokuChecker
Next == Run \/ AfterEnd

\* Every step is the last but finitely many of its thread, so that it is enough
\* for the machine to keep running some thread that can go on.
Spec == Init /\ [][Next]_vars /\ WF_vars(Run)

-----------------------------------------------------------------------------
\* What sorting means: ascending, and every number as often as in the input.
Sorted(result) ==
  /\ \A k, l \in DOMAIN input : k < l => result[k] <= result[l]
  /\ \A v \in Values :
       Cardinality({k \in DOMAIN input : result[k] = v})
         = Cardinality({k \in DOMAIN input : input[k] = v})

\* Two threads and a merger that starts with them: if the merger has read
\* nothing before both sorters were done, the array printed is the input sorted.
\* The program does nothing to make that happen.
MergerLastSorts == (printed /\ ~early) => Sorted(array)

\* Tasks that scan the array up to its end while others rearrange it, leave it
\* sorted.
QuicksortSorts == (program = "Quicksort" /\ Ended) => Sorted(array)

\* Tasks that work on copies and merge them back leave the array sorted.
MergesortSorts ==
  (program = "Mergesort" /\ Ended) =>
    Sorted([k \in DOMAIN input |-> arrays[Merging!Root][k+1]])

\* sudoku.c:3, "If yes, the solution is valid. If not, solution is invalid":
\* each row, column and box holds all the numbers.
IsSolution(puzzle) ==
  LET N == 1..Checker!Size
      At == Checker!Cells
  IN /\ \A x \in At : {puzzle[<<x, y>>] : y \in At} = N
     /\ \A y \in At : {puzzle[<<x, y>>] : x \in At} = N
     /\ \A x, y \in {Box * k : k \in 0..(Box-1)} :
          {puzzle[<<x+i, y+j>>] : i, j \in 0..(Box-1)} = N
VerdictRight == verdict # "none" => (verdict = "valid" <=> IsSolution(sudoku))

\* What main prints is right in every interleaving (of the multithreaded sort:
\* in those in which the merger comes last).
AnswersRight ==
  MergerLastSorts /\ QuicksortSorts /\ MergesortSorts /\ VerdictRight

\* Quicksort's tasks run without a lock, and the one that selects its minimum
\* scans beyond its range; no step writes a cell outside of its task's range.
TasksStayInRange == [][program = "Quicksort" => Quick!StaysInRange]_vars

\* Whatever the interleaving, main gets past its joins and prints.
ProgramsEnd == <>Ended
=============================================================================
