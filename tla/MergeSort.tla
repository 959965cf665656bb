------------------------------ MODULE MergeSort ------------------------------
(***************************************************************************)
(* project3/project3_3/Mergesort.java: fork-join tasks, each with an array *)
(* object of its own.  compute() copies the halves of its array; a long    *)
(* array is sorted by two tasks on the copies and merged back after both   *)
(* are joined, a short one by selection_sort in place.                     *)
(*                                                                         *)
(* A task is named by the part of the input it was given, <<from, to>>.    *)
(* Only the parent looks at a task's array, after the join, so that        *)
(* sorting in place and merging are one step each.                         *)
(***************************************************************************)
EXTENDS Integers, Sequences

CONSTANTS ARRAY_SIZE, ARRAY_SIZE_FOR_SOLO

Parameters == ARRAY_SIZE \in Nat /\ ARRAY_SIZE_FOR_SOLO \in Nat

VARIABLES
  arrays,      \* the array object of every task created so far, a sequence
  stage        \* of every task: "compute", "join" or "returned"

vars == <<arrays, stage>>

Root == <<0, ARRAY_SIZE>>

Fresh(input) ==
  /\ arrays = [r \in {Root} |-> [k \in 1..ARRAY_SIZE |-> input[k-1]]]
  /\ stage = [r \in {Root} |-> "compute"]

-----------------------------------------------------------------------------
Exchange(s, i, j) == [s EXCEPT ![i] = s[j], ![j] = s[i]]

\* The place of the first smallest element from i on.
MinPlace(s, i) ==
  CHOOSE m \in i..Len(s) :
    /\ \A j \in i..Len(s) : s[m] <= s[j]
    /\ \A j \in i..(m-1) : s[m] < s[j]

\* selection_sort: after[i] is the array after i turns of the outer loop.
selection_sort(s) ==
  LET after[i \in 0..(Len(s) - 1)] ==
        IF i = 0 THEN s ELSE Exchange(after[i-1], i, MinPlace(after[i-1], i))
  IN after[Len(s) - 1]

\* merge: from[<<i, j>>] is what the loops still append from places i and j on.
merge(s1, s2) ==
  LET from[p \in (1..(Len(s1) + 1)) \X (1..(Len(s2) + 1))] ==
        LET i == p[1]
            j == p[2]
        IN IF i > Len(s1) \/ j > Len(s2)
           THEN SubSeq(s1, i, Len(s1)) \o SubSeq(s2, j, Len(s2))
           ELSE IF s1[i] <= s2[j] THEN <<s1[i]>> \o from[<<i+1, j>>]
                                  ELSE <<s2[j]>> \o from[<<i, j+1>>]
  IN from[<<1, 1>>]

-----------------------------------------------------------------------------
Mid(r)   == (r[2] - r[1]) \div 2
Left(r)  == <<r[1], r[1] + Mid(r)>>
Right(r) == <<r[1] + Mid(r), r[2]>>

Return(r, result) ==
  /\ arrays' = [arrays EXCEPT ![r] = result]
  /\ stage' = [stage EXCEPT ![r] = "returned"]

\* compute(), for an array that is not split.
SortAlone(r) ==
  /\ stage[r] = "compute"
  /\ Len(arrays[r]) < 2 \/ Len(arrays[r]) < ARRAY_SIZE_FOR_SOLO
  /\ Return(r, IF Len(arrays[r]) < 2 THEN arrays[r] ELSE selection_sort(arrays[r]))

\* Arrays.copyOfRange, for a task given the part q of what r was given.
Copied(r, q) == SubSeq(arrays[r], q[1] - r[1] + 1, q[2] - r[1])

\* compute() up to invokeAll, for a longer one.
Fork(r) ==
  LET sides == {Left(r), Right(r)}
      all   == DOMAIN stage \cup sides
  IN /\ stage[r] = "compute"
     /\ Len(arrays[r]) >= 2 /\ Len(arrays[r]) >= ARRAY_SIZE_FOR_SOLO
     /\ arrays' = [q \in all |-> IF q \in sides THEN Copied(r, q) ELSE arrays[q]]
     /\ stage' = [q \in all |-> IF q \in sides THEN "compute"
                                ELSE IF q = r THEN "join" ELSE stage[q]]

\* Mutant: the result of the second task is not waited for.
MergeAfterFirst(r) ==
  /\ stage[r] = "join" /\ stage[Left(r)] = "returned"
  /\ Return(r, merge(arrays[Left(r)], arrays[Right(r)]))

\* invokeAll has joined both tasks: merge(arr,arr1,arr2).
Merge(r) ==
  /\ stage[r] = "join"
  /\ stage[Left(r)] = "returned" /\ stage[Right(r)] = "returned"
  /\ Return(r, merge(arrays[Left(r)], arrays[Right(r)]))

Returned == stage[Root] = "returned"

Next == \E r \in DOMAIN stage : SortAlone(r) \/ Fork(r) \/ Merge(r)
=============================================================================
