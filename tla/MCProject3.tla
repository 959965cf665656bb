----------------------------- MODULE MCProject3 ------------------------------
(* Model-checking instance: 4 x 4 puzzles, as rows of numbers. *)
EXTENDS Project3

PuzzleOf(rows) == [c \in (0..3) \X (0..3) |-> rows[c[1] + 1][c[2] + 1]]

\* A solution; one whose boxes are wrong, one whose columns are, one whose rows
\* are; one with a single wrong cell; one with a number out of range.
MCPuzzles == {
  PuzzleOf(<< <<1,2,3,4>>, <<3,4,1,2>>, <<2,1,4,3>>, <<4,3,2,1>> >>),
  PuzzleOf(<< <<1,2,3,4>>, <<2,3,4,1>>, <<3,4,1,2>>, <<4,1,2,3>> >>),
  PuzzleOf(<< <<1,2,3,4>>, <<3,4,1,2>>, <<1,2,3,4>>, <<3,4,1,2>> >>),
  PuzzleOf(<< <<1,3,1,3>>, <<2,4,2,4>>, <<3,1,3,1>>, <<4,2,4,2>> >>),
  PuzzleOf(<< <<1,2,3,4>>, <<3,4,1,2>>, <<2,1,4,3>>, <<4,3,2,2>> >>),
  PuzzleOf(<< <<1,2,3,4>>, <<3,5,1,2>>, <<2,1,4,3>>, <<4,3,2,1>> >>)}
=============================================================================
