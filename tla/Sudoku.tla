------------------------------- MODULE Sudoku --------------------------------
(***************************************************************************)
(* project3/project3_1/sudoku.c: one thread per box, column and row of the *)
(* puzzle; each writes 1 to its own cell of valid[] if its region holds    *)
(* every number once.  main creates them in the order of its two loops,    *)
(* joins them all and looks at valid[].                                    *)
(*                                                                         *)
(* Box is the side of a box, 3 in the code: 9 = Box * Box numbers, 27 =    *)
(* 3 * 9 threads.  The puzzle does not change, and validityArray is local  *)
(* to a thread: what a thread does before it writes valid[] is one step.   *)
(***************************************************************************)
EXTENDS Integers, FiniteSets, SequencesExt

CONSTANT Box

Parameters == Box \in Nat \ {0}

Size    == Box * Box
Cells   == 0..(Size - 1)
num_threads == 3 * Size

VARIABLES
  sudoku,        \* the puzzle, [Cells \X Cells -> Int]
  valid,         \* 0 or 1 for each thread's index
  toCreate,      \* the threads main still has to create, in its order
  running,       \* the threads that have not ended
  verdict        \* what main has printed

vars == <<sudoku, valid, toCreate, running, verdict>>

-----------------------------------------------------------------------------
\* The threads that the body of main's loops creates for (i, j): a kind, and
\* the row and column it is given.
CreatedAt(i, j) ==
  (IF i % Box = 0 /\ j % Box = 0 THEN << <<"box", i, j>> >> ELSE <<>>)
    \o (IF i = 0 THEN << <<"column", i, j>> >> ELSE <<>>)
    \o (IF j = 0 THEN << <<"row", i, j>> >> ELSE <<>>)

Fresh(puzzle) ==
  /\ sudoku = puzzle
  /\ valid = [k \in 0..(num_threads - 1) |-> 0]
  /\ toCreate = FlattenSeq(
       [k \in 1..(Size * Size) |-> CreatedAt((k-1) \div Size, (k-1) % Size)])
  /\ running = {}
  /\ verdict = "none"

\* The cells a thread looks at.
Region(t) ==
  CASE t[1] = "box"    -> {<<t[2] + x, t[3] + y>> : x, y \in 0..(Box-1)}
    [] t[1] = "column" -> {<<x, t[3]>> : x \in Cells}
    [] t[1] = "row"    -> {<<t[2], y>> : y \in Cells}

\* Where it puts its result: valid[row + col/3], valid[9+row], valid[18+col].
OwnIndex(t) ==
  CASE t[1] = "box"    -> t[2] + t[3] \div Box
    [] t[1] = "row"    -> Size + t[2]
    [] t[1] = "column" -> 2 * Size + t[3]

\* The loops end early at a number out of range or met before.
RegionValid(t) ==
  /\ \A c \in Region(t) : sudoku[c] \in 1..Size
  /\ \A c, d \in Region(t) : sudoku[c] = sudoku[d] => c = d

CreateThread ==
  /\ toCreate # <<>>
  /\ toCreate' = Tail(toCreate)
  /\ running' = running \cup {Head(toCreate)}
  /\ UNCHANGED <<sudoku, valid, verdict>>

RunThread(t) ==
  /\ running' = running \ {t}
  /\ valid' = IF RegionValid(t) THEN [valid EXCEPT ![OwnIndex(t)] = 1] ELSE valid
  /\ UNCHANGED <<sudoku, toCreate, verdict>>

\* pthread_join has returned for every thread.
JoinedAll == toCreate = <<>> /\ running = {}

Decide ==
  /\ JoinedAll /\ verdict = "none"
  /\ verdict' = IF \E k \in DOMAIN valid : valid[k] = 0 THEN "invalid" ELSE "valid"
  /\ UNCHANGED <<sudoku, valid, toCreate, running>>

Next == CreateThread \/ Decide \/ \E t \in running : RunThread(t)
=============================================================================
