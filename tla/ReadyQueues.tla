----------------------------- MODULE ReadyQueues -----------------------------
(***************************************************************************)
(* What the round-robin schedulers of project4 promise: one ready queue    *)
(* per level, the highest level that is not empty served first, and within *)
(* it a quantum for the task at the front, which then goes to the back if  *)
(* it has not finished.                                                    *)
(***************************************************************************)
EXTENDS Integers, Sequences

CONSTANTS Levels, Tasks, Bursts, Quantum

VARIABLES
  ready,       \* the tasks of each level, the next one to run first
  left,        \* the time each task still needs
  ran          \* the quanta so far, as <<task, time>>

Init ==
  /\ ready = [l \in Levels |-> <<>>]
  /\ left = [t \in Tasks |-> 0]
  /\ ran = <<>>

Arrive(t, l, time) ==
  /\ \A m \in Levels : \A k \in DOMAIN ready[m] : ready[m][k] # t
  /\ left' = [left EXCEPT ![t] = time]
  /\ ready' = [ready EXCEPT ![l] = Append(@, t)]
  /\ UNCHANGED ran

Run(l) ==
  /\ ready[l] # <<>>
  /\ \A m \in Levels : m > l => ready[m] = <<>>
  /\ LET t == Head(ready[l])
         time == IF left[t] < Quantum THEN left[t] ELSE Quantum
         waiting == Tail(ready[l])
     IN /\ left' = [left EXCEPT ![t] = @ - time]
        /\ ran' = Append(ran, <<t, time>>)
        /\ ready' = [ready EXCEPT ![l] =
             IF left[t] = time THEN waiting ELSE Append(waiting, t)]

Next ==
  \/ \E t \in Tasks, l \in Levels, time \in Bursts : Arrive(t, l, time)
  \/ \E l \in Levels : Run(l)

Spec == Init /\ [][Next]_<<ready, left, ran>>
=============================================================================
