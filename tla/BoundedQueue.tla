---------------------------- MODULE BoundedQueue ----------------------------
(***************************************************************************)
(* What the two circular buffers of project5 promise: a first-in first-out *)
(* queue of bounded capacity.  A taker finds in got[t] the item it removed *)
(* last.  Reset starts the program again with an empty queue.              *)
(***************************************************************************)
EXTENDS Naturals, Sequences

CONSTANTS Items, Takers, Capacity, NoItem

VARIABLES queue, got

Init ==
  /\ queue = <<>>
  /\ got = [t \in Takers |-> NoItem]

Put(x) ==
  /\ Len(queue) < Capacity
  /\ queue' = Append(queue, x)
  /\ UNCHANGED got

Take(t) ==
  /\ queue # <<>>
  /\ got' = [got EXCEPT ![t] = Head(queue)]
  /\ queue' = Tail(queue)

Reset ==
  /\ queue' = <<>>
  /\ got' = [t \in Takers |-> NoItem]

Step ==
  \/ \E x \in Items : Put(x)
  \/ \E t \in Takers : Take(t)

Next == Step \/ Reset

Spec == Init /\ [][Next]_<<queue, got>>
=============================================================================
