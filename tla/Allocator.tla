----------------------------- MODULE Allocator ------------------------------
(***************************************************************************)
(* project7/allocator.c: contiguous memory allocation.  The processes form *)
(* a list in address order between two sentinels, HEAD at address 0 and    *)
(* TAIL at address MAX, both of size 0; the holes are what lies between    *)
(* two neighbours of the list.  One command is one action.                 *)
(***************************************************************************)
EXTENDS Integers, Sequences, FiniteSets, SequencesExt

CONSTANTS
  MAX,              \* the size of the memory
  Pids,
  MaxRequest,       \* bound: the largest request
  MaxProcesses      \* bound: the length of the list

ASSUME AllocatorAssumption ==
  MAX \in Nat /\ MaxRequest \in Nat /\ MaxProcesses \in Nat

VARIABLE list       \* the processes between HEAD and TAIL

Blocks == [base : 0..MAX, limit : 0..MaxRequest, pid : Pids]
NoHole == -1        \* the NULL the searches return

MemoryInit == list = <<>>

\* Node k of the list; node 0 is HEAD, the node after the last one is TAIL.
Base(k) == IF k = 0 THEN 0 ELSE IF k > Len(list) THEN MAX ELSE list[k].base
End(k)  == IF k = 0 THEN 0 ELSE list[k].base + list[k].limit
Hole(k) == Base(k + 1) - End(k)

-----------------------------------------------------------------------------
\* The three searches, as loops over the nodes before TAIL: the first k of them,
\* the nodes 0 to k-1, have been looked at in scan[k].

\* Mutant: a hole one unit too small is taken.
FirstFitOneShort(memory) ==
  LET scan[k \in 0..(Len(list) + 1)] ==
        IF k = 0 THEN NoHole
        ELSE IF scan[k-1] # NoHole THEN scan[k-1]
        ELSE IF Hole(k-1) + 1 < memory THEN NoHole ELSE k - 1
  IN scan[Len(list) + 1]

first_fit(memory) ==
  LET scan[k \in 0..(Len(list) + 1)] ==
        IF k = 0 THEN NoHole
        ELSE IF scan[k-1] # NoHole THEN scan[k-1]
        ELSE IF Hole(k-1) < memory THEN NoHole ELSE k - 1
  IN scan[Len(list) + 1]

\* Mutant: a hole of exactly the requested size is not taken.
BestFitStrict(memory) ==
  LET scan[k \in 0..(Len(list) + 1)] ==
        IF k = 0 THEN [vol |-> MAX + 1, node |-> NoHole]
        ELSE IF memory < Hole(k-1) /\ Hole(k-1) < scan[k-1].vol
             THEN [vol |-> Hole(k-1), node |-> k - 1]
             ELSE scan[k-1]
  IN scan[Len(list) + 1].node

best_fit(memory) ==
  LET scan[k \in 0..(Len(list) + 1)] ==
        IF k = 0 THEN [vol |-> MAX + 1, node |-> NoHole]
        ELSE IF memory <= Hole(k-1) /\ Hole(k-1) < scan[k-1].vol
             THEN [vol |-> Hole(k-1), node |-> k - 1]
             ELSE scan[k-1]
  IN scan[Len(list) + 1].node

worst_fit(memory) ==
  LET scan[k \in 0..(Len(list) + 1)] ==
        IF k = 0 THEN [vol |-> -1, node |-> NoHole]
        ELSE IF memory <= Hole(k-1) /\ Hole(k-1) > scan[k-1].vol
             THEN [vol |-> Hole(k-1), node |-> k - 1]
             ELSE scan[k-1]
  IN scan[Len(list) + 1].node

Search(mode, memory) ==
  CASE mode = "F" -> first_fit(memory)
    [] mode = "B" -> best_fit(memory)
    [] mode = "W" -> worst_fit(memory)
    [] OTHER -> NoHole

\* request_memory: any other mode, or no hole: rejected.
Granted(mode, memory) == Search(mode, memory) # NoHole

Allocate(pid, memory, mode) ==
  /\ Len(list) < MaxProcesses
  /\ Granted(mode, memory)
  /\ LET k == Search(mode, memory)
     IN list' = InsertAt(list, k + 1,
                         [base |-> End(k), limit |-> memory, pid |-> pid])

Reject(memory, mode) ==
  /\ ~Granted(mode, memory)
  /\ UNCHANGED list

\* release_memory: every process of that name goes.
ReleaseMemory(pid) ==
  LET kept[k \in 0..Len(list)] ==
        IF k = 0 THEN <<>>
        ELSE IF list[k].pid = pid THEN kept[k-1]
        ELSE Append(kept[k-1], list[k])
  IN list' = kept[Len(list)]

\* Mutant: a process is moved next to the old place of the one before it.
CompactionStale ==
  list' = [k \in 1..Len(list) |-> [list[k] EXCEPT !.base = End(k - 1)]]

\* compaction: each process is moved to the end of the one before it, which
\* has been moved already.
Compaction ==
  LET end[k \in 0..Len(list)] ==
        IF k = 0 THEN 0 ELSE end[k-1] + list[k].limit
  IN list' = [k \in 1..Len(list) |-> [list[k] EXCEPT !.base = end[k-1]]]

Modes == {"F", "B", "W", "other"}

MemoryNext ==
  \/ \E pid \in Pids, memory \in 0..MaxRequest, mode \in Modes :
       Allocate(pid, memory, mode) \/ Reject(memory, mode)
  \/ \E pid \in Pids : ReleaseMemory(pid)
  \/ Compaction

MemorySpec == MemoryInit /\ [][MemoryNext]_list

\* Mutant: the interval after a process starts at its last address.
ReportOffByOne ==
  LET scan[k \in 0..(Len(list) + 1)] ==
        IF k = 0 THEN [start |-> 0, unused |-> {}, used |-> {}]
        ELSE LET before == scan[k-1]
                 limit  == IF k > Len(list) THEN 0 ELSE list[k].limit
             IN [start  |-> IF limit # 0 THEN Base(k) + limit - 1 ELSE before.start,
                 unused |-> IF Base(k) # before.start
                            THEN before.unused \cup {<<before.start, Base(k) - 1>>}
                            ELSE before.unused,
                 used   |-> IF limit # 0
                            THEN before.used \cup {<<Base(k), Base(k) + limit - 1, list[k].pid>>}
                            ELSE before.used]
  IN scan[Len(list) + 1]

\* show_status: the intervals it prints, as <<first address, last, owner>>.
\* `start` is where the last process that was printed ended.
Report ==
  LET scan[k \in 0..(Len(list) + 1)] ==
        IF k = 0 THEN [start |-> 0, unused |-> {}, used |-> {}]
        ELSE LET before == scan[k-1]
                 limit  == IF k > Len(list) THEN 0 ELSE list[k].limit
             IN [start  |-> IF limit # 0 THEN Base(k) + limit ELSE before.start,
                 unused |-> IF Base(k) # before.start
                            THEN before.unused \cup {<<before.start, Base(k) - 1>>}
                            ELSE before.unused,
                 used   |-> IF limit # 0
                            THEN before.used \cup {<<Base(k), Base(k) + limit - 1, list[k].pid>>}
                            ELSE before.used]
  IN scan[Len(list) + 1]

-----------------------------------------------------------------------------
ListTypeOK == list \in Seq(Blocks)

\* No two processes overlap and none leaves the memory: whatever was requested,
\* released and compacted, every hole has a size.
NoOverlap == \A k \in 0..Len(list) : Hole(k) >= 0

\* The searches do what their names say, for every request: a request is
\* rejected only if no hole is large enough; first fit finds the lowest hole,
\* best fit the smallest and worst fit the largest of those large enough, the
\* lowest one when there are several.
FitsAreRight ==
  \A memory \in 0..MaxRequest :
    LET enough == {k \in 0..Len(list) : Hole(k) >= memory}
        lowest(S) == CHOOSE k \in S : \A m \in S : k <= m
    IN IF enough = {}
       THEN \A mode \in Modes : ~Granted(mode, memory)
       ELSE /\ first_fit(memory) = lowest(enough)
            /\ best_fit(memory)
                 = lowest({k \in enough : \A m \in enough : Hole(k) <= Hole(m)})
            /\ worst_fit(memory)
                 = lowest({k \in enough : \A m \in enough : Hole(k) >= Hole(m)})

\* Compaction keeps every process and its size, in the same order, moves none
\* up (a copy upwards would overwrite the next one) and leaves one hole, at
\* the end, that holds all the free memory.
CompactionGathers ==
  [][ Compaction =>
        /\ Len(list') = Len(list)
        /\ \A k \in 1..Len(list) :
             /\ list'[k].pid = list[k].pid /\ list'[k].limit = list[k].limit
             /\ list'[k].base <= list[k].base
        /\ \A k \in 1..Len(list) : list'[k].base = End(k - 1)' ]_list

\* show_status accounts for every address exactly once, as long as every
\* process has a size: one of size 0 is granted but, taken for the TAIL, is not
\* printed, and the hole in front of it may be printed twice.
StatusCoversMemory ==
  (\A k \in 1..Len(list) : list[k].limit > 0) =>
    \A address \in 0..(MAX - 1) :
      Cardinality({i \in Report.used : i[1] <= address /\ address <= i[2]})
        + Cardinality({i \in Report.unused : i[1] <= address /\ address <= i[2]}) = 1
=============================================================================
