-------------------------- MODULE MultithreadedSort --------------------------
(***************************************************************************)
(* project3/project3_2/multithread_sorting.c: main copies the array and    *)
(* creates three threads on the copy.  The first sorts the lower half, the *)
(* second the upper half, the third merges the halves.  All three start at *)
(* once; main joins them and prints the array.                             *)
(*                                                                         *)
(* A thread is the list of the merge() calls that merge_sort() makes, in   *)
(* their order, and the locals of the call it is in.  Every access to the  *)
(* shared array is a step.  The threads race for it: the compiler may load *)
(* the smaller element a second time or reuse the value it has compared,   *)
(* so the model copies either of the two.                                  *)
(***************************************************************************)
EXTENDS Integers, Sequences

CONSTANTS array_length, NotRead

Parameters == array_length \in Nat /\ array_length >= 2

VARIABLES
  array,       \* array_master
  todo,        \* per thread: the calls merge(low, high) it still has to make
  frame,       \* per thread: the locals of the first of them
  printed,     \* main has joined the threads and prints
  early        \* history: the merger has read before both sorters were done

vars == <<array, todo, frame, printed, early>>

Index   == 0..(array_length - 1)
Threads == {"first", "second", "third"}
Sides   == {"left", "right"}
Mid(low, high) == (low + high) \div 2

\* The calls of merge() that merge_sort(arr, l, r) makes.
Calls(low, high) ==
  LET calls[p \in Index \X Index] ==
        LET mid == Mid(p[1], p[2])
        IN IF p[1] < p[2]
           THEN calls[<<p[1], mid>>] \o calls[<<mid + 1, p[2]>>] \o <<p>>
           ELSE <<>>
  IN calls[<<low, high>>]

\* What runner() does for each parameter.
Runner(t) ==
  LET mid == Mid(0, array_length - 1)
  IN CASE t = "first"  -> Calls(0, mid)
       [] t = "second" -> Calls(mid + 1, array_length - 1)
       [] t = "third"  -> << <<0, array_length - 1>> >>

\* The locals of merge() when it is entered with the first call of calls.
Entered(calls) ==
  [left  |-> IF calls = <<>> THEN 0 ELSE calls[1][1],
   right |-> IF calls = <<>> THEN 0 ELSE Mid(calls[1][1], calls[1][2]) + 1,
   seen  |-> [s \in Sides |-> NotRead],
   b     |-> <<>>]

Fresh(input) ==
  /\ array = input
  /\ todo = [t \in Threads |-> Runner(t)]
  /\ frame = [t \in Threads |-> Entered(Runner(t))]
  /\ printed = FALSE
  /\ early = FALSE

-----------------------------------------------------------------------------
Low(t)  == todo[t][1][1]
High(t) == todo[t][1][2]

\* The elements that side s of thread t still has to copy.
Remaining(t, s) ==
  IF todo[t] = <<>> THEN 0
  ELSE IF s = "left" THEN Mid(Low(t), High(t)) - frame[t].left + 1
  ELSE High(t) - frame[t].right + 1

BothRemain(t)  == \A s \in Sides : Remaining(t, s) > 0
OneRemains(t)  == ~BothRemain(t) /\ \E s \in Sides : Remaining(t, s) > 0
CopiedAll(t)   == todo[t] # <<>> /\ \A s \in Sides : Remaining(t, s) = 0

Step(t, locals) ==
  /\ frame' = [frame EXCEPT ![t] = locals]
  /\ early' = (early \/ (t = "third" /\ ~CopiedAll(t) /\
                         (todo["first"] # <<>> \/ todo["second"] # <<>>)))
  /\ UNCHANGED printed

\* One of the two operands of a[left]>a[right]; their order is unspecified.
Read(t, s) ==
  /\ BothRemain(t) /\ frame[t].seen[s] = NotRead
  /\ Step(t, [frame[t] EXCEPT !.seen[s] = array[frame[t][s]]])
  /\ UNCHANGED <<array, todo>>

\* b[temp++]=a[s++], where the element read is v.
Copy(t, s, v) ==
  /\ Step(t, [frame[t] EXCEPT ![s] = @ + 1, !.b = Append(@, v),
                              !.seen = [side \in Sides |-> NotRead]])
  /\ UNCHANGED <<array, todo>>

SmallerSide(seen) == IF seen["left"] > seen["right"] THEN "right" ELSE "left"

CopySmaller(t) ==
  /\ BothRemain(t) /\ \A s \in Sides : frame[t].seen[s] # NotRead
  /\ LET s == SmallerSide(frame[t].seen)
     IN \E v \in {frame[t].seen[s], array[frame[t][s]]} : Copy(t, s, v)

\* The two loops that copy what one half has left.
CopyRest(t) ==
  /\ OneRemains(t)
  /\ \E s \in Sides : Remaining(t, s) > 0 /\ Copy(t, s, array[frame[t][s]])

\* a[low+i]=b[i], and after the last one the next call.
WriteBack(t) ==
  /\ CopiedAll(t)
  /\ LET b == frame[t].b
         last == Len(b) = 1
     IN /\ array' = [array EXCEPT ![High(t) - Len(b) + 1] = Head(b)]
        /\ todo' = IF last THEN [todo EXCEPT ![t] = Tail(@)] ELSE todo
        /\ Step(t, IF last THEN Entered(Tail(todo[t]))
                           ELSE [frame[t] EXCEPT !.b = Tail(b)])

Thread(t) ==
  (\E s \in Sides : Read(t, s)) \/ CopySmaller(t) \/ CopyRest(t) \/ WriteBack(t)

\* The three calls of pthread_join have returned.
PrintArray ==
  /\ ~printed /\ \A t \in Threads : todo[t] = <<>>
  /\ printed' = TRUE
  /\ UNCHANGED <<array, todo, frame, early>>

Next == PrintArray \/ \E t \in Threads : Thread(t)
=============================================================================
