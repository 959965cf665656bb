------------------------------ MODULE LRUPaging -----------------------------
(***************************************************************************)
(* What project8's virtual memory manager promises: demand paging into a   *)
(* fixed number of frames with exact least-recently-used replacement, and  *)
(* reads that return the byte of the backing store.                        *)
(***************************************************************************)
EXTENDS Naturals, SequencesExt

CONSTANTS Addresses, PageOf(_), OffsetOf(_), Frames

VARIABLES
  recency,     \* the resident pages, most recently used first
  faults,      \* page faults so far
  reply        \* the last answer: the address and the byte read

Init ==
  /\ recency = <<>>
  /\ faults = 0
  /\ reply = <<>>

Hit(p) ==
  /\ \E i \in DOMAIN recency :
       recency[i] = p /\ recency' = <<p>> \o RemoveAt(recency, i)
  /\ UNCHANGED faults

Fault(p) ==
  /\ ~Contains(recency, p)
  /\ recency' = <<p>> \o (IF Len(recency) = Frames THEN Front(recency) ELSE recency)
  /\ faults' = faults + 1

Read(a) ==
  /\ Hit(PageOf(a)) \/ Fault(PageOf(a))
  /\ reply' = <<a, PageOf(a), OffsetOf(a)>>

Next == \E a \in Addresses : Read(a)

Spec == Init /\ [][Next]_<<recency, faults, reply>>
=============================================================================
