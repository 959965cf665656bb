--------------------------- MODULE VirtualMemory ----------------------------
(***************************************************************************)
(* project8, "Virtual Memory Manager/manager.c": a page table, a TLB and a *)
(* pool of frames.  Resident pages are linked in a doubly linked list, the *)
(* page stack, most recently used first; the TLB has a time stamp per      *)
(* entry.  Neither structure looks at the other: evicting a page does not  *)
(* touch the TLB, and a TLB hit does not look at the valid bit.            *)
(*                                                                         *)
(* Pages, frames and bytes are numbers; the byte at offset o of page p of  *)
(* the backing store is <<p, o>>.                                          *)
(***************************************************************************)
EXTENDS Integers, Sequences, FiniteSetsExt

CONSTANTS
  PAGE_TABLE_ENTRIES_NUM, TLB_ENTRIES_NUM, NUM_FRAMES,
  PAGE_SIZE,                      \* FRAME_SIZE is the same
  Addresses,                      \* the addresses in the input file
  MaxRefs                         \* bound: how many of them are translated

ASSUME SizeAssumption ==
  /\ PAGE_TABLE_ENTRIES_NUM \in Nat \ {0} /\ PAGE_SIZE \in Nat \ {0}
  /\ TLB_ENTRIES_NUM \in Nat \ {0}
  /\ NUM_FRAMES \in Nat /\ NUM_FRAMES >= TLB_ENTRIES_NUM
  /\ Addresses \subseteq Nat /\ MaxRefs \in Nat

Pages  == 0..(PAGE_TABLE_ENTRIES_NUM - 1)
Frames == 0..(NUM_FRAMES - 1)
Slots  == 0..(TLB_ENTRIES_NUM - 1)

\* The nodes of the page stack: one per page, named by it, and the two ends.
pgs_top    == -1
pgs_bottom == -2
NULL       == -3
Nodes == Pages \cup {pgs_top, pgs_bottom}

VARIABLES
  valid, frame_number,            \* the page table
  links,                          \* the page stack: next and prev of each node
  TLB, TLB_cnts, free_TLB_index,  \* entries, time stamps, number in use
  free_frame_list,
  memory,                         \* the page each frame holds
  num_references, num_page_faults, num_TLB_hits,
  reply                           \* the address read last and the byte found

tlbVars  == <<TLB, TLB_cnts, free_TLB_index>>
pageVars == <<valid, frame_number, free_frame_list, memory>>
vars == <<pageVars, links, tlbVars, num_references, num_page_faults,
          num_TLB_hits, reply>>

-----------------------------------------------------------------------------
\* extract_address
PageOf(a)   == (a \div PAGE_SIZE) % PAGE_TABLE_ENTRIES_NUM
OffsetOf(a) == a % PAGE_SIZE

\* The four assignments that push page p on the stack.
PushFront(l, p) ==
  LET next1 == [l.next EXCEPT ![p] = l.next[pgs_top]]
      prev1 == [l.prev EXCEPT ![next1[pgs_top]] = p]
  IN [next |-> [next1 EXCEPT ![pgs_top] = p],
      prev |-> [prev1 EXCEPT ![p] = pgs_top]]

\* Mutant: a page that is used again stays where it is.
MoveToFrontSkipped(l, p) == l

\* Mutant: the pointer of the node behind p is not redirected.
MoveToFrontForgetsPrev(l, p) ==
  LET after == l.next[p]
      next1 == [l.next EXCEPT ![p] = l.next[pgs_top]]
      prev1 == [l.prev EXCEPT ![next1[pgs_top]] = p]
      next2 == [next1 EXCEPT ![pgs_top] = p]
      next3 == [next2 EXCEPT ![prev1[p]] = after]
  IN [next |-> next3, prev |-> [prev1 EXCEPT ![p] = pgs_top]]

\* "change six pointers": move page p to the top, in the order of the code.
\* When p is on the top already, p briefly points to itself both ways.
MoveToFront(l, p) ==
  LET after == l.next[p]
      next1 == [l.next EXCEPT ![p] = l.next[pgs_top]]
      prev1 == [l.prev EXCEPT ![next1[pgs_top]] = p]
      next2 == [next1 EXCEPT ![pgs_top] = p]
      prev2 == [prev1 EXCEPT ![after] = prev1[p]]
      next3 == [next2 EXCEPT ![prev2[p]] = after]
  IN [next |-> next3, prev |-> [prev2 EXCEPT ![p] = pgs_top]]

\* Delete the node above the bottom.
PopBack(l, p) ==
  LET prev1 == [l.prev EXCEPT ![pgs_bottom] = l.prev[p]]
  IN [next |-> [l.next EXCEPT ![prev1[p]] = pgs_bottom], prev |-> prev1]

\* get_free_frame: take a frame from the list, or from the page at the bottom.
Victim == links.prev[pgs_bottom]
MustEvict == free_frame_list = <<>>
FreeFrame == IF MustEvict THEN frame_number[Victim] ELSE Head(free_frame_list)

\* Mutant: the entry used last is replaced.
ReplaceNewest(cnts) == CHOOSE k \in Slots : \A m \in Slots : cnts[m] <= cnts[k]

\* The first entry with the smallest time stamp.
ReplaceOldest(cnts) ==
  CHOOSE k \in Slots : \A m \in Slots :
     cnts[k] < cnts[m] \/ (cnts[k] = cnts[m] /\ k <= m)

TLBFull == free_TLB_index = TLB_ENTRIES_NUM

\* The first entry for page p among those in use, if any.
Matches(p) == {k \in 0..(free_TLB_index - 1) : TLB[k].page = p}

-----------------------------------------------------------------------------
Init ==
  /\ valid = [p \in Pages |-> FALSE]
  /\ frame_number = [p \in Pages |-> 0]
  /\ links = [next |-> [n \in Nodes |-> IF n = pgs_top THEN pgs_bottom ELSE NULL],
              prev |-> [n \in Nodes |-> IF n = pgs_bottom THEN pgs_top ELSE NULL]]
  /\ TLB = [k \in Slots |-> [page |-> 0, frame |-> 0]]
  /\ TLB_cnts = [k \in Slots |-> 0]
  /\ free_TLB_index = 0
  /\ free_frame_list = [k \in 1..NUM_FRAMES |-> k - 1]
  /\ memory = [f \in Frames |-> NULL]
  /\ num_references = 0 /\ num_page_faults = 0 /\ num_TLB_hits = 0
  /\ reply = <<>>

\* A page fault: a frame is found, evicting a page if need be, the page is
\* read into it and pushed on the stack.
PageFault(p) ==
  /\ ~valid[p]
  /\ num_page_faults' = num_page_faults + 1
  /\ valid' = [q \in Pages |-> q = p \/ (valid[q] /\ ~(MustEvict /\ q = Victim))]
  /\ frame_number' = [frame_number EXCEPT ![p] = FreeFrame]
  /\ memory' = [memory EXCEPT ![FreeFrame] = p]
  /\ free_frame_list' = IF MustEvict THEN <<>> ELSE Tail(free_frame_list)
  /\ links' = MoveToFront(PushFront(IF MustEvict THEN PopBack(links, Victim)
                                    ELSE links, p), p)

InPageTable(p) ==
  /\ valid[p]
  /\ links' = MoveToFront(links, p)
  /\ UNCHANGED <<pageVars, num_page_faults>>

\* main's loop body: translate(a), then read_from_memory.
Reply(a, frame) ==
  LET physical == frame * PAGE_SIZE + OffsetOf(a)
  IN reply' = <<a, memory'[physical \div PAGE_SIZE], physical % PAGE_SIZE>>

TLBHit(a) ==
  /\ Matches(PageOf(a)) # {}
  /\ UNCHANGED <<TLB, free_TLB_index, pageVars, num_page_faults>>
  /\ LET k == Min(Matches(PageOf(a)))
     IN /\ TLB_cnts' = [TLB_cnts EXCEPT ![k] = num_references]
        /\ Reply(a, TLB[k].frame)
  /\ links' = MoveToFront(links, PageOf(a))
  /\ num_TLB_hits' = num_TLB_hits + 1

TLBMiss(a) ==
  /\ Matches(PageOf(a)) = {}
  /\ PageFault(PageOf(a)) \/ InPageTable(PageOf(a))
  /\ LET k == IF TLBFull THEN ReplaceOldest(TLB_cnts) ELSE free_TLB_index
         frame == frame_number'[PageOf(a)]
     IN /\ TLB' = [TLB EXCEPT ![k] = [page |-> PageOf(a), frame |-> frame]]
        /\ TLB_cnts' = [TLB_cnts EXCEPT ![k] = num_references]
        /\ free_TLB_index' = IF TLBFull THEN free_TLB_index ELSE free_TLB_index + 1
        /\ Reply(a, frame)
  /\ UNCHANGED num_TLB_hits

\* time_cnt, main's loop counter i, is num_references before the increment.
Translate(a) ==
  /\ num_references < MaxRefs
  /\ num_references' = num_references + 1
  /\ TLBHit(a) \/ TLBMiss(a)

\* The input file is at its end.
EndOfFile == num_references = MaxRefs /\ UNCHANGED vars

Next == EndOfFile \/ \E a \in Addresses : Translate(a)

Spec == Init /\ [][Next]_vars

-----------------------------------------------------------------------------
TypeOK ==
  /\ valid \in [Pages -> BOOLEAN]
  /\ frame_number \in [Pages -> Frames]
  /\ links.next \in [Nodes -> Nodes \cup {NULL}]
  /\ links.prev \in [Nodes -> Nodes \cup {NULL}]
  /\ TLB \in [Slots -> [page : Pages, frame : Frames]]
  /\ TLB_cnts \in [Slots -> 0..MaxRefs]
  /\ free_TLB_index \in 0..TLB_ENTRIES_NUM
  /\ free_frame_list \in Seq(Frames)
  /\ memory \in [Frames -> Pages \cup {NULL}]
  /\ num_references \in 0..MaxRefs
  /\ num_page_faults \in 0..MaxRefs /\ num_TLB_hits \in 0..MaxRefs

\* The pages met when following `next` from the top, at most NUM_FRAMES + 1.
Followed(l) ==
  LET node[k \in 0..(NUM_FRAMES + 1)] ==
        IF k = 0 THEN pgs_top
        ELSE IF node[k-1] \in Pages \cup {pgs_top} THEN l.next[node[k-1]]
        ELSE pgs_bottom
      length == Cardinality({k \in 1..(NUM_FRAMES + 1) : node[k] # pgs_bottom})
  IN [k \in 1..length |-> node[k]]
Recency == Followed(links)

\* The page stack is a doubly linked list of exactly the valid pages, each
\* once: prev is the inverse of next, and the bottom is reached.
Resident == {p \in Pages : valid[p]}
StackWellFormed ==
  /\ {Recency[k] : k \in DOMAIN Recency} = Resident
  /\ Len(Recency) = Cardinality(Resident)
  /\ \A n \in Resident \cup {pgs_top} : links.prev[links.next[n]] = n

\* The TLB always holds the pages at the top of the page stack, with their
\* frames: the two LRU mechanisms never disagree, so that an evicted page,
\* whose entry nobody removes, has been replaced in the TLB as well.
TLBIsTopOfStack ==
  /\ {TLB[k].page : k \in 0..(free_TLB_index - 1)}
       = {Recency[k] : k \in 1..free_TLB_index}
  /\ \A k \in 0..(free_TLB_index - 1) :
        valid[TLB[k].page] /\ frame_number[TLB[k].page] = TLB[k].frame

\* The manager is a demand pager with exact LRU replacement, and every read
\* returns the byte of the backing store.
Paging == INSTANCE LRUPaging WITH
            Frames <- NUM_FRAMES, recency <- Recency, faults <- num_page_faults
IsLRUPaging == Paging!Spec
=============================================================================
