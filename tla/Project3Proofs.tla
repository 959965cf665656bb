--------------------------- MODULE Project3Proofs ---------------------------
(***************************************************************************)
(* The four programs of Project3, for data of every size.                  *)
(*                                                                         *)
(* Quicksort: in every interleaving of its tasks no step writes outside of *)
(* its task's range, and when no task is left the array is the input       *)
(* sorted.  A task knows what the loop it is in has established for its    *)
(* own range (Local), which no other task writes.  What the tasks know     *)
(* together is said of the array as it is when every exchange that has     *)
(* begun to move elements is made (Shows): it is a rearrangement of the    *)
(* input, and any two places that are not in the range of one task are in  *)
(* order.                                                                  *)
(*                                                                         *)
(* Mergesort: a task's array has the numbers of its part of the input, and *)
(* has them in order when the task has returned (TasksHold).               *)
(*                                                                         *)
(* The sudoku checker: the verdict is "valid" exactly for a solution.      *)
(*                                                                         *)
(* The multithreaded sort: each part that a coming call will merge is in   *)
(* order or an earlier call leaves it so (Plan); a call that copies has in *)
(* its b, in order, what it has passed (Copying), and one that writes back *)
(* knows the array that it leaves (AtWrites).                              *)
(***************************************************************************)
EXTENDS Project3, ProofLemmas

-----------------------------------------------------------------------------
(* Quicksort: what a task knows of the part lo..hi-1 of an array. *)

Cells  == 0..(ARRAY_SIZE - 1)
Arrays == [Cells -> Int]

\* Bounds of a range.
Bounds(lo, hi) == lo \in Int /\ hi \in Int /\ 0 <= lo /\ lo < hi /\ hi <= ARRAY_SIZE

\* Up to i no element is larger than the pivot, from there to j all are.
Scanned(a, lo, i, j, pivot) ==
  \A k \in Cells : (lo <= k /\ k <= i => a[k] <= pivot) /\ (i < k /\ k < j => a[k] > pivot)

Scanning(a, lo, hi, i, j, pivot) ==
  lo <= i /\ i < j /\ j < hi /\ a[lo] = pivot /\ Scanned(a, lo, i, j, pivot)

\* Before and after the exchange of i and j.
ScannedBefore(a, lo, hi, i, j, pivot) ==
  lo < i /\ i <= j /\ j < hi /\ a[lo] = pivot /\ a[j] <= pivot /\ Scanned(a, lo, i - 1, j, pivot)
Passed(a, lo, hi, i, j, pivot) ==
  lo <= i /\ i <= j /\ j < hi /\ a[lo] = pivot /\ Scanned(a, lo, i, j + 1, pivot)

\* Before and after the exchange of lo and i.
PivotBefore(a, lo, hi, i, pivot) ==
  lo <= i /\ i < hi /\ a[lo] = pivot /\ Scanned(a, lo, i, hi, pivot)
Parted(a, lo, hi, p) ==
  /\ lo <= p /\ p < hi
  /\ \A k \in Cells : (lo <= k /\ k < p => a[k] <= a[p]) /\ (p < k /\ k < hi => a[p] <= a[k])

\* The elements before i are in order, and none behind them is smaller.
Least(a, lo, hi, i) ==
  \A k, l \in Cells : lo <= k /\ k < i /\ k < l /\ l < hi => a[k] <= a[l]

SmallestOf(a, i, j, min) == \A k \in Cells : i <= k /\ k < j => a[min] <= a[k]

Selecting(a, lo, hi, i, j, min) ==
  /\ lo <= i /\ i < hi /\ i <= min /\ min < hi /\ i < j /\ j <= ARRAY_SIZE
  /\ Least(a, lo, hi, i)
  /\ \A k \in Cells : i <= k /\ k < j /\ k < hi => a[min] <= a[k]

\* Before and after the exchange of i and min.
SelectedBefore(a, lo, hi, i, min) ==
  /\ lo <= i /\ i < hi /\ i <= min /\ min < hi /\ Least(a, lo, hi, i)
  /\ \A k \in Cells : i <= k /\ k < hi => a[min] <= a[k]
SelectedAfter(a, lo, hi, i, min) ==
  lo <= i /\ i < hi /\ i <= min /\ min < hi /\ Least(a, lo, hi, i + 1)

\* b is a with x and y exchanged.
Exchanged(a, b, x, y) ==
  b[x] = a[y] /\ b[y] = a[x] /\ \A k \in Cells \ {x, y} : b[k] = a[k]

\* What the assumption says.
LEMMA QuickConstants == ARRAY_SIZE \in Nat /\ Values \subseteq Int /\ IsFiniteSet(Values)
  BY Project3Assumption DEF Quick!Parameters

\* A place of the range is a cell.
LEMMA CellIs ==
  ASSUME NEW lo, NEW hi, Bounds(lo, hi), NEW k \in Int, lo <= k, k < hi
  PROVE  k \in Cells
  BY QuickConstants DEF Cells, Bounds

LEMMA ElementIs == ASSUME NEW a \in Arrays, NEW k \in Cells  PROVE a[k] \in Int /\ k \in Int
  BY DEF Arrays, Cells

\* The exchange of i and j puts an element that is not larger before those that are.
LEMMA ExchangeScanned ==
  ASSUME NEW a \in Arrays, NEW b \in Arrays, NEW lo, NEW hi, Bounds(lo, hi),
         NEW i \in Int, NEW j \in Int, NEW pivot \in Int,
         ScannedBefore(a, lo, hi, i, j, pivot), Exchanged(a, b, i, j)
  PROVE  Passed(b, lo, hi, i, j, pivot)
<1>1. /\ lo \in Int /\ hi \in Int /\ lo < i /\ i <= j /\ j < hi
      /\ a[lo] = pivot /\ a[j] <= pivot /\ Scanned(a, lo, i - 1, j, pivot)
  BY DEF ScannedBefore, Bounds
<1>2. lo \in Cells /\ i \in Cells /\ j \in Cells
  <2>1. lo < hi /\ lo <= lo /\ i < hi /\ lo <= i /\ lo <= j
    BY <1>1
  <2> QED  BY <1>1, <2>1, CellIs
<1>3. b[lo] = a[lo]
  <2>1. lo # i /\ lo # j
    BY <1>1
  <2> QED  BY <1>2, <2>1 DEF Exchanged
<1>4. ASSUME NEW k \in Cells, lo <= k, k <= i  PROVE b[k] <= pivot
  <2>1. CASE k = i
    BY <1>1, <2>1 DEF Exchanged
  <2>2. CASE k # i
    <3>1. k \in Int /\ k <= i - 1 /\ k # j
      BY <1>1, <1>4, <2>2, ElementIs
    <3>2. a[k] <= pivot
      BY <1>1, <1>4, <3>1 DEF Scanned
    <3> QED  BY <2>2, <3>1, <3>2 DEF Exchanged
  <2> QED  BY <2>1, <2>2
<1>5. ASSUME NEW k \in Cells, i < k, k < j + 1  PROVE b[k] > pivot
  <2>1. CASE k = j
    <3>1. i - 1 < i /\ i < j
      BY <1>1, <1>5, <2>1
    <3>2. a[i] > pivot
      BY <1>1, <1>2, <3>1 DEF Scanned
    <3> QED  BY <2>1, <3>2 DEF Exchanged
  <2>2. CASE k # j
    <3>1. k \in Int /\ k < j /\ i - 1 < k /\ k # i
      BY <1>1, <1>5, <2>2, ElementIs
    <3>2. a[k] > pivot
      BY <1>1, <3>1 DEF Scanned
    <3> QED  BY <2>2, <3>1, <3>2 DEF Exchanged
  <2> QED  BY <2>1, <2>2
<1>6. Scanned(b, lo, i, j + 1, pivot)
  BY <1>4, <1>5 DEF Scanned
<1> QED  BY <1>1, <1>3, <1>6 DEF Passed

\* The exchange of lo and i puts the pivot between the two parts.
LEMMA ExchangePivot ==
  ASSUME NEW a \in Arrays, NEW b \in Arrays, NEW lo, NEW hi, Bounds(lo, hi),
         NEW i \in Int, NEW pivot \in Int,
         PivotBefore(a, lo, hi, i, pivot), Exchanged(a, b, lo, i)
  PROVE  Parted(b, lo, hi, i)
<1>1. /\ lo \in Int /\ hi \in Int /\ lo <= i /\ i < hi /\ a[lo] = pivot /\ Scanned(a, lo, i, hi, pivot)
  BY DEF PivotBefore, Bounds
<1>2. lo \in Cells /\ i \in Cells
  <2>1. lo < hi /\ lo <= lo
    BY <1>1
  <2> QED  BY <1>1, <2>1, CellIs
<1>3. b[i] = pivot /\ b[lo] = a[i]
  BY <1>1 DEF Exchanged
<1>4. ASSUME NEW k \in Cells, lo <= k, k < i  PROVE b[k] <= pivot
  <2>1. k \in Int /\ k <= i
    BY <1>4, ElementIs
  <2>2. CASE k = lo
    <3>1. i <= i /\ a[i] <= pivot
      BY <1>1, <1>2 DEF Scanned
    <3> QED  BY <1>3, <2>2, <3>1
  <2>3. CASE k # lo
    <3>1. a[k] <= pivot
      BY <1>1, <1>4, <2>1 DEF Scanned
    <3>2. k # i
      BY <1>4, <2>1
    <3> QED  BY <2>3, <3>1, <3>2 DEF Exchanged
  <2> QED  BY <2>2, <2>3
<1>5. ASSUME NEW k \in Cells, i < k, k < hi  PROVE pivot <= b[k]
  <2>1. k \in Int /\ k # i /\ k # lo
    BY <1>1, <1>5, ElementIs
  <2>2. a[k] > pivot /\ a[k] \in Int
    BY <1>1, <1>5, ElementIs DEF Scanned
  <2>3. b[k] = a[k]
    BY <2>1 DEF Exchanged
  <2> QED  BY <2>2, <2>3
<1> QED  BY <1>1, <1>3, <1>4, <1>5 DEF Parted

\* The exchange of i and min brings the smallest of the rest to place i.
LEMMA ExchangeSelected ==
  ASSUME NEW a \in Arrays, NEW b \in Arrays, NEW lo, NEW hi, Bounds(lo, hi),
         NEW i \in Int, NEW min \in Int,
         SelectedBefore(a, lo, hi, i, min), Exchanged(a, b, i, min)
  PROVE  SelectedAfter(b, lo, hi, i, min)
<1>1. /\ lo \in Int /\ hi \in Int /\ lo <= i /\ i < hi /\ i <= min /\ min < hi /\ Least(a, lo, hi, i)
      /\ \A k \in Cells : i <= k /\ k < hi => a[min] <= a[k]
  BY DEF SelectedBefore, Bounds
<1>2. i \in Cells /\ min \in Cells
  <2>1. lo <= min
    BY <1>1
  <2> QED  BY <1>1, <2>1, CellIs
\* The element at place l was at a place from i on, if l is.
<1>3. ASSUME NEW l \in Cells, i <= l, l < hi  PROVE \E m \in Cells : i <= m /\ m < hi /\ b[l] = a[m]
  <2>1. CASE l = i
    BY <1>1, <1>2, <2>1 DEF Exchanged
  <2>2. CASE l # i /\ l = min
    <3>1. i <= i
      BY <1>1
    <3> QED  BY <1>1, <1>2, <2>2, <3>1 DEF Exchanged
  <2>3. CASE l # i /\ l # min
    BY <1>3, <2>3 DEF Exchanged
  <2> QED  BY <2>1, <2>2, <2>3
<1>4. ASSUME NEW k \in Cells, NEW l \in Cells, lo <= k, k < i + 1, k < l, l < hi  PROVE b[k] <= b[l]
  <2>1. k \in Int /\ l \in Int
    BY ElementIs
  <2>2. CASE k = i
    <3>1. i <= l
      BY <1>4, <2>1, <2>2
    <3>2. PICK m \in Cells : i <= m /\ m < hi /\ b[l] = a[m]
      BY <1>3, <1>4, <3>1
    <3> QED  BY <1>1, <2>2, <3>2 DEF Exchanged
  <2>3. CASE k # i
    <3>1. k < i /\ k # min
      BY <1>1, <1>4, <2>1, <2>3
    <3>2. b[k] = a[k]
      BY <2>3, <3>1 DEF Exchanged
    <3>3. CASE l < i
      <4>1. l # i /\ l # min
        BY <1>1, <2>1, <3>3
      <4>2. b[l] = a[l]
        BY <4>1 DEF Exchanged
      <4> QED  BY <1>1, <1>4, <3>1, <3>2, <4>2 DEF Least
    <3>4. CASE ~(l < i)
      <4>1. i <= l
        BY <2>1, <3>4
      <4>2. PICK m \in Cells : i <= m /\ m < hi /\ b[l] = a[m]
        BY <1>3, <1>4, <4>1
      <4>3. k < m
        BY <2>1, <3>1, <4>2, ElementIs
      <4> QED  BY <1>1, <1>4, <3>1, <3>2, <4>2, <4>3 DEF Least
    <3> QED  BY <3>3, <3>4
  <2> QED  BY <2>2, <2>3
<1>5. Least(b, lo, hi, i + 1)
  BY <1>4 DEF Least
<1> QED  BY <1>1, <1>5 DEF SelectedAfter

\* A sorted range is parted by every place of it.
LEMMA LeastParts ==
  ASSUME NEW a \in Arrays, NEW lo, NEW hi, Bounds(lo, hi), NEW i \in Int, NEW p \in Int,
         Least(a, lo, hi, i), i >= hi, lo <= p, p < hi
  PROVE  Parted(a, lo, hi, p)
<1>1. lo \in Int /\ hi \in Int /\ p \in Cells
  BY CellIs DEF Bounds
<1>2. ASSUME NEW k \in Cells, lo <= k, k < p  PROVE a[k] <= a[p]
  <2>1. k < i
    BY <1>1, <1>2, ElementIs
  <2> QED  BY <1>1, <1>2, <2>1 DEF Least
<1>3. ASSUME NEW k \in Cells, p < k, k < hi  PROVE a[p] <= a[k]
  <2>1. p < i
    BY <1>1
  <2> QED  BY <1>1, <1>3, <2>1 DEF Least
<1> QED  BY <1>2, <1>3 DEF Parted

\* Nothing is before the first place.
LEMMA LeastFirst == ASSUME NEW a, NEW lo \in Int, NEW hi  PROVE Least(a, lo, hi, lo)
  BY DEF Least, Cells

\* The scan takes in the element at j: it belongs to the left part, and an
\* exchange will put it there, or to the right one.
LEMMA ScanLeft ==
  ASSUME NEW a \in Arrays, NEW lo, NEW hi, Bounds(lo, hi), NEW i \in Int, NEW j \in Int, NEW pivot \in Int,
         Scanning(a, lo, hi, i, j, pivot), a[j] <= pivot
  PROVE  ScannedBefore(a, lo, hi, i + 1, j, pivot)
<1>1. lo < i + 1 /\ i + 1 <= j /\ (i + 1) - 1 = i
  BY DEF Scanning, Bounds
<1> QED  BY <1>1 DEF Scanning, ScannedBefore

LEMMA ScanRight ==
  ASSUME NEW a \in Arrays, NEW lo, NEW hi, Bounds(lo, hi), NEW i \in Int, NEW j \in Int, NEW pivot \in Int,
         Scanning(a, lo, hi, i, j, pivot), ~(a[j] <= pivot)
  PROVE  Passed(a, lo, hi, i, j, pivot)
<1>1. lo \in Int /\ hi \in Int /\ lo <= i /\ i < j /\ j < hi /\ i <= j /\ a[lo] = pivot
  BY DEF Scanning, Bounds
<1>2. j \in Cells /\ a[j] \in Int
  <2>1. lo <= j
    BY <1>1
  <2> QED  BY <1>1, <2>1, CellIs, ElementIs
<1>3. ASSUME NEW k \in Cells, i < k, k < j + 1  PROVE a[k] > pivot
  <2>1. CASE k = j
    BY <1>2, <2>1
  <2>2. CASE k # j
    <3>1. k < j
      BY <1>3, <2>2, ElementIs
    <3> QED  BY <1>3, <3>1 DEF Scanning, Scanned
  <2> QED  BY <2>1, <2>2
<1>4. Scanned(a, lo, i, j + 1, pivot)
  BY <1>3 DEF Scanning, Scanned
<1> QED  BY <1>1, <1>4 DEF Passed

LEMMA PassOn ==
  ASSUME NEW a \in Arrays, NEW lo, NEW hi, Bounds(lo, hi), NEW i \in Int, NEW j \in Int, NEW pivot \in Int,
         Passed(a, lo, hi, i, j, pivot)
  PROVE  /\ j + 1 < hi => Scanning(a, lo, hi, i, j + 1, pivot)
         /\ ~(j + 1 < hi) => PivotBefore(a, lo, hi, i, pivot)
<1>1. ~(j + 1 < hi) => j + 1 = hi
  BY DEF Passed, Bounds
<1>2. i < j + 1 /\ i < hi
  BY DEF Passed, Bounds
<1> QED  BY <1>1, <1>2 DEF Passed, Scanning, PivotBefore

\* The first comparison of a range.
LEMMA ScanFirst ==
  ASSUME NEW a \in Arrays, NEW lo, NEW hi, Bounds(lo, hi), lo + 1 < hi
  PROVE  Scanning(a, lo, hi, lo, lo + 1, a[lo])
<1>1. lo \in Int /\ lo \in Cells /\ a[lo] \in Int
  BY CellIs, ElementIs DEF Bounds
<1>2. Scanned(a, lo, lo, lo + 1, a[lo])
  <2>1. ASSUME NEW k \in Cells  PROVE (lo <= k /\ k <= lo => k = lo) /\ ~(lo < k /\ k < lo + 1)
    BY <1>1, ElementIs
  <2> QED  BY <1>1, <2>1 DEF Scanned
<1> QED  BY <1>1, <1>2 DEF Scanning

\* A turn of selection_sort begins.
LEMMA SelectFirst ==
  ASSUME NEW a \in Arrays, NEW lo, NEW hi, Bounds(lo, hi), NEW i \in Int, lo <= i, i < hi, Least(a, lo, hi, i)
  PROVE  Selecting(a, lo, hi, i, i + 1, i)
<1>1. i + 1 <= ARRAY_SIZE /\ i < i + 1 /\ i <= i
  BY QuickConstants DEF Bounds
<1>2. i \in Cells /\ a[i] \in Int
  BY CellIs, ElementIs
<1>3. ASSUME NEW k \in Cells, i <= k, k < i + 1  PROVE a[i] <= a[k]
  <2>1. k = i
    BY <1>3, ElementIs
  <2> QED  BY <1>2, <2>1
<1> QED  BY <1>1, <1>3 DEF Selecting

\* It looks at the element at j: one of the range may become the smallest; one
\* behind the range does not, if none there is smaller.
LEMMA SelectOne ==
  ASSUME NEW a \in Arrays, NEW lo, NEW hi, Bounds(lo, hi), NEW i \in Int, NEW j \in Int, NEW min \in Int,
         Selecting(a, lo, hi, i, j, min), j # ARRAY_SIZE,
         j >= hi => a[min] <= a[j]
  PROVE  Selecting(a, lo, hi, i, j + 1, IF a[min] > a[j] THEN j ELSE min)
<1>1. /\ lo \in Int /\ hi \in Int /\ lo <= i /\ i < hi /\ i <= min /\ min < hi /\ i < j /\ j <= ARRAY_SIZE
      /\ Least(a, lo, hi, i) /\ \A k \in Cells : i <= k /\ k < j /\ k < hi => a[min] <= a[k]
  BY DEF Selecting, Bounds
<1>2. j \in Cells /\ min \in Cells /\ j + 1 <= ARRAY_SIZE /\ i < j + 1
  BY <1>1, QuickConstants, CellIs DEF Cells, Bounds
<1>3. a[j] \in Int /\ a[min] \in Int
  BY <1>2, ElementIs
<1>4. ASSUME NEW k \in Cells  PROVE k \in Int /\ a[k] \in Int /\ (k < j + 1 => k < j \/ k = j)
  <2>1. k \in Int /\ a[k] \in Int
    BY ElementIs
  <2> QED  BY <2>1
<1>5. CASE a[min] > a[j]
  <2>1. j < hi
    BY <1>1, <1>3, <1>5
  <2>2. ASSUME NEW k \in Cells, i <= k, k < j + 1, k < hi  PROVE a[j] <= a[k]
    <3>1. CASE k = j
      BY <1>3, <3>1
    <3>2. CASE k < j
      <4>1. a[min] <= a[k]
        BY <1>1, <2>2, <3>2
      <4> QED  BY <1>3, <1>4, <1>5, <4>1
    <3> QED  BY <1>4, <2>2, <3>1, <3>2
  <2>3. i <= j
    BY <1>1
  <2>4. Selecting(a, lo, hi, i, j + 1, j)
    BY <1>1, <1>2, <2>1, <2>2, <2>3 DEF Selecting
  <2> QED  BY <1>5, <2>4
<1>6. CASE ~(a[min] > a[j])
  <2>1. a[min] <= a[j]
    BY <1>3, <1>6
  <2>2. ASSUME NEW k \in Cells, i <= k, k < j + 1, k < hi  PROVE a[min] <= a[k]
    BY <1>1, <1>4, <2>1, <2>2
  <2>3. Selecting(a, lo, hi, i, j + 1, min)
    BY <1>1, <1>2, <2>2 DEF Selecting
  <2> QED  BY <1>6, <2>3
<1> QED  BY <1>5, <1>6

\* ... and then it has its smallest.
LEMMA SelectLast ==
  ASSUME NEW a \in Arrays, NEW lo, NEW hi, Bounds(lo, hi), NEW i \in Int, NEW min \in Int,
         Selecting(a, lo, hi, i, ARRAY_SIZE, min)
  PROVE  SelectedBefore(a, lo, hi, i, min)
<1>1. ASSUME NEW k \in Cells  PROVE k < ARRAY_SIZE
  BY QuickConstants DEF Cells
<1> QED  BY <1>1 DEF Selecting, SelectedBefore

\* What is said of a range depends on its elements only.
Agree(a, b, lo, hi) == \A k \in Cells : lo <= k /\ k < hi => b[k] = a[k]

LEMMA ScannedFrame ==
  ASSUME NEW a \in Arrays, NEW b \in Arrays, NEW lo, NEW hi, Bounds(lo, hi), Agree(a, b, lo, hi),
         NEW i \in Int, NEW j \in Int, NEW pivot, Scanned(a, lo, i, j, pivot), lo <= i + 1, i < hi, j <= hi
  PROVE  Scanned(b, lo, i, j, pivot)
<1>2. ASSUME NEW k \in Cells, lo <= k, k <= i  PROVE b[k] <= pivot
  <2>9. k < hi
    BY <1>2, ElementIs DEF Bounds
  <2>1. b[k] = a[k]
    BY <1>2, <2>9 DEF Agree
  <2> QED  BY <1>2, <2>1 DEF Scanned
<1>3. ASSUME NEW k \in Cells, i < k, k < j  PROVE b[k] > pivot
  <2>9. lo <= k /\ k < hi
    BY <1>3, ElementIs DEF Bounds
  <2>1. b[k] = a[k]
    BY <2>9 DEF Agree
  <2> QED  BY <1>3, <2>1 DEF Scanned
<1> QED  BY <1>2, <1>3 DEF Scanned

LEMMA PlaceFrame ==
  ASSUME NEW a, NEW b, NEW lo, NEW hi, Bounds(lo, hi), Agree(a, b, lo, hi), NEW k \in Int, lo <= k, k < hi
  PROVE  b[k] = a[k]
  BY CellIs DEF Agree

LEMMA ScanFrame ==
  ASSUME NEW a \in Arrays, NEW b \in Arrays, NEW lo, NEW hi, Bounds(lo, hi), Agree(a, b, lo, hi),
         NEW i \in Int, NEW j \in Int, NEW pivot
  PROVE  /\ Scanning(a, lo, hi, i, j, pivot) => Scanning(b, lo, hi, i, j, pivot)
         /\ ScannedBefore(a, lo, hi, i, j, pivot) => ScannedBefore(b, lo, hi, i, j, pivot)
         /\ Passed(a, lo, hi, i, j, pivot) => Passed(b, lo, hi, i, j, pivot)
         /\ PivotBefore(a, lo, hi, i, pivot) => PivotBefore(b, lo, hi, i, pivot)
<1>1. lo \in Int /\ hi \in Int /\ lo <= lo /\ lo < hi /\ hi <= hi /\ b[lo] = a[lo]
  BY PlaceFrame DEF Bounds
<1>2. ASSUME Scanning(a, lo, hi, i, j, pivot)  PROVE Scanning(b, lo, hi, i, j, pivot)
  <2>1. lo <= i + 1 /\ i < hi /\ j <= hi
    BY <1>1, <1>2 DEF Scanning
  <2>2. Scanned(b, lo, i, j, pivot)
    BY <1>2, <2>1, ScannedFrame DEF Scanning
  <2> QED  BY <1>1, <1>2, <2>2 DEF Scanning
<1>3. ASSUME ScannedBefore(a, lo, hi, i, j, pivot)  PROVE ScannedBefore(b, lo, hi, i, j, pivot)
  <2>1. lo <= (i - 1) + 1 /\ i - 1 < hi /\ j <= hi /\ lo <= j /\ j < hi /\ i - 1 \in Int
    BY <1>1, <1>3 DEF ScannedBefore
  <2>2. Scanned(b, lo, i - 1, j, pivot)
    BY <1>3, <2>1, ScannedFrame DEF ScannedBefore
  <2>3. b[j] = a[j]
    BY <2>1, PlaceFrame
  <2> QED  BY <1>1, <1>3, <2>2, <2>3 DEF ScannedBefore
<1>4. ASSUME Passed(a, lo, hi, i, j, pivot)  PROVE Passed(b, lo, hi, i, j, pivot)
  <2>1. lo <= i + 1 /\ i < hi /\ j + 1 <= hi /\ j + 1 \in Int
    BY <1>1, <1>4 DEF Passed
  <2>2. Scanned(b, lo, i, j + 1, pivot)
    BY <1>4, <2>1, ScannedFrame DEF Passed
  <2> QED  BY <1>1, <1>4, <2>2 DEF Passed
<1>5. ASSUME PivotBefore(a, lo, hi, i, pivot)  PROVE PivotBefore(b, lo, hi, i, pivot)
  <2>1. lo <= i + 1 /\ i < hi
    BY <1>1, <1>5 DEF PivotBefore
  <2>2. Scanned(b, lo, i, hi, pivot)
    BY <1>1, <1>5, <2>1, ScannedFrame DEF PivotBefore
  <2> QED  BY <1>1, <1>5, <2>2 DEF PivotBefore
<1> QED  BY <1>2, <1>3, <1>4, <1>5

LEMMA PartedFrame ==
  ASSUME NEW a \in Arrays, NEW b \in Arrays, NEW lo, NEW hi, Bounds(lo, hi), Agree(a, b, lo, hi),
         NEW p \in Int, Parted(a, lo, hi, p)
  PROVE  Parted(b, lo, hi, p)
<1>1. lo \in Int /\ hi \in Int /\ lo <= p /\ p < hi /\ b[p] = a[p]
  BY PlaceFrame DEF Bounds, Parted
<1>3. ASSUME NEW k \in Cells, lo <= k, k < p  PROVE b[k] <= b[p]
  <2>9. k < hi
    BY <1>1, <1>3, ElementIs
  <2>1. b[k] = a[k]
    BY <1>3, <2>9 DEF Agree
  <2> QED  BY <1>1, <1>3, <2>1 DEF Parted
<1>4. ASSUME NEW k \in Cells, p < k, k < hi  PROVE b[p] <= b[k]
  <2>9. lo <= k
    BY <1>1, <1>4, ElementIs
  <2>1. b[k] = a[k]
    BY <1>4, <2>9 DEF Agree
  <2> QED  BY <1>1, <1>4, <2>1 DEF Parted
<1> QED  BY <1>1, <1>3, <1>4 DEF Parted

LEMMA LeastFrame ==
  ASSUME NEW a \in Arrays, NEW b \in Arrays, NEW lo, NEW hi, Bounds(lo, hi), Agree(a, b, lo, hi),
         NEW i \in Int, Least(a, lo, hi, i)
  PROVE  Least(b, lo, hi, i)
<1>1. ASSUME NEW k \in Cells, NEW l \in Cells, lo <= k, k < i, k < l, l < hi  PROVE b[k] <= b[l]
  <2>1. k < hi /\ lo <= l
    BY <1>1, ElementIs DEF Bounds
  <2>2. b[k] = a[k] /\ b[l] = a[l]
    BY <1>1, <2>1 DEF Agree
  <2> QED  BY <1>1, <2>2 DEF Least
<1> QED  BY <1>1 DEF Least

LEMMA SelectFrame ==
  ASSUME NEW a \in Arrays, NEW b \in Arrays, NEW lo, NEW hi, Bounds(lo, hi), Agree(a, b, lo, hi),
         NEW i \in Int, NEW j \in Int, NEW min \in Int
  PROVE  /\ Selecting(a, lo, hi, i, j, min) => Selecting(b, lo, hi, i, j, min)
         /\ SelectedBefore(a, lo, hi, i, min) => SelectedBefore(b, lo, hi, i, min)
         /\ SelectedAfter(a, lo, hi, i, min) => SelectedAfter(b, lo, hi, i, min)
<1>1. ASSUME lo <= i, i <= min, min < hi  PROVE b[min] = a[min]
  <2>1. lo <= min
    BY <1>1 DEF Bounds
  <2> QED  BY <1>1, <2>1, PlaceFrame
<1>2. ASSUME NEW k \in Cells, lo <= i, i <= k, k < hi  PROVE b[k] = a[k]
  <2>1. lo <= k
    BY <1>2, ElementIs DEF Bounds
  <2> QED  BY <1>2, <2>1 DEF Agree
<1>3. ASSUME Selecting(a, lo, hi, i, j, min)  PROVE Selecting(b, lo, hi, i, j, min)
  <2>1. Least(b, lo, hi, i)
    BY <1>3, LeastFrame DEF Selecting
  <2>2. ASSUME NEW k \in Cells, i <= k, k < j, k < hi  PROVE b[min] <= b[k]
    BY <1>1, <1>2, <1>3, <2>2 DEF Selecting
  <2> QED  BY <1>3, <2>1, <2>2 DEF Selecting
<1>4. ASSUME SelectedBefore(a, lo, hi, i, min)  PROVE SelectedBefore(b, lo, hi, i, min)
  <2>1. Least(b, lo, hi, i)
    BY <1>4, LeastFrame DEF SelectedBefore
  <2>2. ASSUME NEW k \in Cells, i <= k, k < hi  PROVE b[min] <= b[k]
    BY <1>1, <1>2, <1>4, <2>2 DEF SelectedBefore
  <2> QED  BY <1>4, <2>1, <2>2 DEF SelectedBefore
<1>5. ASSUME SelectedAfter(a, lo, hi, i, min)  PROVE SelectedAfter(b, lo, hi, i, min)
  <2>1. Least(b, lo, hi, i + 1)
    BY <1>5, LeastFrame DEF SelectedAfter
  <2> QED  BY <1>5, <2>1 DEF SelectedAfter
<1> QED  BY <1>3, <1>4, <1>5

-----------------------------------------------------------------------------
(* Quicksort: what a task knows at each statement. *)

Spans  == {r \in Int \X Int : 0 <= r[1] /\ r[2] - r[1] >= 2 /\ r[2] <= ARRAY_SIZE}
Swaps  == {"swap scanned", "swap pivot", "swap selected"}
Locals == [at : {"start", "scan", "select", "fork", "join"} \cup Swaps,
           pivot : Int, i : Int, j : Int, p : Int, min : Int, temp : Int, swap : {0, 1, 2}]

\* The cells of the exchange a task is in.
One(r, t)   == IF t.at = "swap pivot" THEN r[1] ELSE t.i
Other(r, t) == IF t.at = "swap scanned" THEN t.j ELSE IF t.at = "swap pivot" THEN t.i ELSE t.min

\* The array as it is when the task has made the exchange it is about to end.
Settled(a, r, t) == IF t.swap = 2 THEN [a EXCEPT ![Other(r, t)] = t.temp] ELSE a

\* The selection needs the place of the pivot until it forks.
PivotInside(r, t) == r[1] <= t.p /\ t.p < r[2]
PivotKept(r, t)   == t.at \in {"select", "swap selected"} => PivotInside(r, t)

BeforeSwap(a, r, t) ==
  /\ t.at = "swap scanned"  => ScannedBefore(a, r[1], r[2], t.i, t.j, t.pivot)
  /\ t.at = "swap pivot"    => PivotBefore(a, r[1], r[2], t.i, t.pivot)
  /\ t.at = "swap selected" => SelectedBefore(a, r[1], r[2], t.i, t.min)

AfterSwap(w, r, t) ==
  /\ t.at = "swap scanned"  => Passed(w, r[1], r[2], t.i, t.j, t.pivot)
  /\ t.at = "swap pivot"    => Parted(w, r[1], r[2], t.i)
  /\ t.at = "swap selected" => SelectedAfter(w, r[1], r[2], t.i, t.min)

AtRest(a, r, t) ==
  /\ t.at = "start"  => t.i = r[1] /\ t.j = r[1] + 1
  /\ t.at = "scan"   => Scanning(a, r[1], r[2], t.i, t.j, t.pivot)
  /\ t.at = "select" => Selecting(a, r[1], r[2], t.i, t.j, t.min)
  /\ t.at = "fork"   => Parted(a, r[1], r[2], t.p)

InSwap(a, r, t) ==
  /\ t.swap = 1 => t.temp = a[One(r, t)]
  /\ t.swap = 2 => a[Other(r, t)] = Settled(a, r, t)[One(r, t)]

Local(a, r, t) ==
  /\ PivotKept(r, t)
  /\ AtRest(a, r, t)
  /\ t.swap \in {1, 2} => t.at \in Swaps
  /\ InSwap(a, r, t)
  /\ t.swap # 2 => BeforeSwap(a, r, t)
  /\ t.swap = 2 => AfterSwap(Settled(a, r, t), r, t)

LEMMA SpanIs ==
  ASSUME NEW r \in Spans
  PROVE  Bounds(r[1], r[2]) /\ r[1] + 1 < r[2] /\ r[1] \in Int /\ r[2] \in Int /\ r = <<r[1], r[2]>>
  BY DEF Spans, Bounds

LEMMA LocalTypes ==
  ASSUME NEW t \in Locals
  PROVE  /\ t.at \in {"start", "scan", "select", "fork", "join"} \cup Swaps /\ t.swap \in {0, 1, 2}
         /\ t.pivot \in Int /\ t.i \in Int /\ t.j \in Int /\ t.p \in Int /\ t.min \in Int /\ t.temp \in Int
  BY DEF Locals

\* The exchange is inside of the range.
InsideAt(lo, hi, x) == x \in Int /\ lo <= x /\ x < hi

LEMMA BoundsInside ==
  ASSUME NEW a, NEW lo, NEW hi, Bounds(lo, hi), NEW i \in Int
  PROVE  /\ InsideAt(lo, hi, lo)
         /\ \A j \in Int : \A pivot : ScannedBefore(a, lo, hi, i, j, pivot) => InsideAt(lo, hi, i) /\ InsideAt(lo, hi, j)
         /\ \A j \in Int : \A pivot : Passed(a, lo, hi, i, j, pivot) => InsideAt(lo, hi, i) /\ InsideAt(lo, hi, j)
         /\ \A pivot : PivotBefore(a, lo, hi, i, pivot) => InsideAt(lo, hi, i)
         /\ Parted(a, lo, hi, i) => InsideAt(lo, hi, i)
         /\ \A min \in Int : SelectedBefore(a, lo, hi, i, min) => InsideAt(lo, hi, i) /\ InsideAt(lo, hi, min)
         /\ \A min \in Int : SelectedAfter(a, lo, hi, i, min) => InsideAt(lo, hi, i) /\ InsideAt(lo, hi, min)
  BY DEF Bounds, InsideAt, ScannedBefore, Passed, PivotBefore, Parted, SelectedBefore, SelectedAfter

LEMMA SwapInside ==
  ASSUME NEW a, NEW r \in Spans, NEW t \in Locals, Local(a, r, t), t.at \in Swaps
  PROVE  InsideAt(r[1], r[2], One(r, t)) /\ InsideAt(r[1], r[2], Other(r, t))
<1>1. Bounds(r[1], r[2])
  BY SpanIs
<1>2. t.i \in Int /\ t.j \in Int /\ t.min \in Int
  BY LocalTypes
<1>3. PICK w : BeforeSwap(w, r, t) \/ AfterSwap(w, r, t)
  BY LocalTypes DEF Local
<1>4. CASE t.at = "swap scanned"
  BY <1>1, <1>2, <1>3, <1>4, BoundsInside DEF BeforeSwap, AfterSwap, One, Other
<1>5. CASE t.at = "swap pivot"
  BY <1>1, <1>2, <1>3, <1>5, BoundsInside DEF BeforeSwap, AfterSwap, One, Other
<1>6. CASE t.at = "swap selected"
  BY <1>1, <1>2, <1>3, <1>6, BoundsInside DEF BeforeSwap, AfterSwap, One, Other
<1> QED  BY <1>4, <1>5, <1>6 DEF Swaps

LEMMA SettledIs ==
  ASSUME NEW a \in Arrays, NEW r \in Spans, NEW t \in Locals, Local(a, r, t)
  PROVE  /\ Settled(a, r, t) \in Arrays
         /\ t.swap # 2 => Settled(a, r, t) = a
         /\ t.swap = 2 => /\ Settled(a, r, t)[Other(r, t)] = t.temp
                          /\ \A k \in Cells \ {Other(r, t)} : Settled(a, r, t)[k] = a[k]
<1>1. CASE t.swap = 2
  <2>1. Other(r, t) \in Cells
    <3>1. t.at \in Swaps
      BY <1>1 DEF Local
    <3>2. InsideAt(r[1], r[2], Other(r, t)) /\ Bounds(r[1], r[2])
      BY <3>1, SwapInside, SpanIs
    <3> QED  BY <3>2, CellIs DEF InsideAt
  <2>2. Settled(a, r, t) = [a EXCEPT ![Other(r, t)] = t.temp]
    BY <1>1 DEF Settled
  <2>3. t.temp \in Int
    BY LocalTypes
  <2> QED  BY <1>1, <2>1, <2>2, <2>3 DEF Arrays
<1>2. CASE t.swap # 2
  BY <1>2 DEF Settled
<1> QED  BY <1>1, <1>2

\* What a task knows depends on its range only.
LEMMA LocalFrame ==
  ASSUME NEW a \in Arrays, NEW b \in Arrays, NEW r \in Spans, NEW t \in Locals, Local(a, r, t), Agree(a, b, r[1], r[2])
  PROVE  Local(b, r, t) /\ Agree(Settled(a, r, t), Settled(b, r, t), r[1], r[2])
<1> DEFINE v == Settled(a, r, t)
           w == Settled(b, r, t)
<1>1. Bounds(r[1], r[2]) /\ t.i \in Int /\ t.j \in Int /\ t.p \in Int /\ t.min \in Int
  BY SpanIs, LocalTypes
<1>2. AtRest(b, r, t)
  <2>1. AtRest(a, r, t)
    BY DEF Local
  <2> QED  BY <1>1, <2>1, ScanFrame, SelectFrame, PartedFrame DEF AtRest
<1>3. t.swap # 2 => BeforeSwap(b, r, t)
  <2> SUFFICES ASSUME BeforeSwap(a, r, t)  PROVE BeforeSwap(b, r, t)
    BY DEF Local
  <2> QED  BY ZenonT(30), <1>1, ScanFrame, SelectFrame DEF BeforeSwap
<1>4. ASSUME t.at \in Swaps
      PROVE  One(r, t) \in Cells /\ Other(r, t) \in Cells /\ b[One(r, t)] = a[One(r, t)] /\ b[Other(r, t)] = a[Other(r, t)]
  <2>1. InsideAt(r[1], r[2], One(r, t)) /\ InsideAt(r[1], r[2], Other(r, t))
    BY <1>4, SwapInside
  <2> QED  BY <1>1, <2>1, CellIs, PlaceFrame DEF InsideAt
<1>5. CASE t.swap = 2
  <2>1. One(r, t) \in Cells /\ Other(r, t) \in Cells /\ b[One(r, t)] = a[One(r, t)] /\ b[Other(r, t)] = a[Other(r, t)]
    BY <1>4, <1>5 DEF Local
  <2>2. v = [a EXCEPT ![Other(r, t)] = t.temp] /\ w = [b EXCEPT ![Other(r, t)] = t.temp]
    BY <1>5 DEF Settled
  <2>3. t.temp \in Int
    BY LocalTypes
  <2>4. v \in Arrays /\ w \in Arrays /\ Agree(v, w, r[1], r[2]) /\ w[One(r, t)] = v[One(r, t)]
    <3> HIDE DEF One, Other
    <3> QED  BY <2>1, <2>2, <2>3 DEF Arrays, Agree
  <2>5. AfterSwap(v, r, t) /\ a[Other(r, t)] = v[One(r, t)]
    BY <1>5 DEF Local, InSwap
  <2> HIDE DEF v, w
  <2>6. AfterSwap(w, r, t)
    <3>1. t.at = "swap scanned" => Passed(w, r[1], r[2], t.i, t.j, t.pivot)
      <4>1. t.at = "swap scanned" => Passed(v, r[1], r[2], t.i, t.j, t.pivot)
        BY <2>5 DEF AfterSwap
      <4>2. t.pivot \in Int
        BY LocalTypes
      <4> QED  BY <1>1, <2>4, <4>1, <4>2, ScanFrame
    <3>2. t.at = "swap pivot" => Parted(w, r[1], r[2], t.i)
      BY <1>1, <2>4, <2>5, PartedFrame DEF AfterSwap
    <3>3. t.at = "swap selected" => SelectedAfter(w, r[1], r[2], t.i, t.min)
      <4>1. t.at = "swap selected" => SelectedAfter(v, r[1], r[2], t.i, t.min)
        BY <2>5 DEF AfterSwap
      <4>2. t.i \in Int /\ t.min \in Int /\ 0 \in Int
        BY LocalTypes
      <4>3. SelectedAfter(v, r[1], r[2], t.i, t.min) => SelectedAfter(w, r[1], r[2], t.i, t.min)
        BY <1>1, <2>4, <4>2, SelectFrame
      <4> QED  BY <4>1, <4>3
    <3> QED  BY <3>1, <3>2, <3>3 DEF AfterSwap
  <2>7. b[Other(r, t)] = w[One(r, t)]
    BY <2>1, <2>4, <2>5
  <2>8. InSwap(b, r, t)
    BY <1>5, <2>7 DEF InSwap, w
  <2> QED  BY <1>2, <1>3, <1>5, <2>4, <2>6, <2>8 DEF Local, v, w
<1>6. CASE t.swap # 2
  <2>1. InSwap(b, r, t)
    <3>1. t.swap = 1 => t.at \in Swaps /\ t.temp = a[One(r, t)]
      BY DEF Local, InSwap
    <3> QED  BY <1>4, <1>6, <3>1 DEF InSwap
  <2>2. Agree(v, w, r[1], r[2])
    BY <1>6 DEF Settled
  <2> QED  BY <1>2, <1>3, <1>6, <2>1, <2>2 DEF Local
<1> QED  BY <1>5, <1>6

-----------------------------------------------------------------------------
(* Quicksort: what its statements do to what it knows. *)

GoesOn(a, r, u) == u \in Locals /\ u.at # "join" /\ u.swap = 0 /\ Local(a, r, u)

\* Between two exchanges.
LEMMA Resting ==
  ASSUME NEW a, NEW r, NEW u \in Locals, u.swap = 0, u.at # "join", AtRest(a, r, u), BeforeSwap(a, r, u), PivotKept(r, u)
  PROVE  GoesOn(a, r, u)
<1>1. u.swap # 1 /\ u.swap # 2 /\ u.swap \notin {1, 2}
  <2>1. 0 # 1 /\ 0 # 2
    OBVIOUS
  <2> QED  BY <2>1
<1>2. InSwap(a, r, u)
  BY <1>1 DEF InSwap
<1>3. Local(a, r, u)
  BY <1>1, <1>2 DEF Local
<1> QED  BY <1>3 DEF GoesOn

LEMMA StartLocal ==
  ASSUME NEW a \in Arrays, NEW r \in Spans, NEW t \in Locals, Local(a, r, t), t.at = "start", t.swap = 0,
         NEW u, u = [t EXCEPT !.at = "scan", !.pivot = a[r[1]]]
  PROVE  GoesOn(a, r, u)
<1>1. Bounds(r[1], r[2]) /\ r[1] + 1 < r[2] /\ r[1] \in Cells /\ a[r[1]] \in Int
  <2>1. Bounds(r[1], r[2]) /\ r[1] + 1 < r[2] /\ r[1] \in Int /\ r[1] <= r[1] /\ r[1] < r[2]
    BY SpanIs DEF Bounds
  <2> QED  BY <2>1, CellIs, ElementIs
<1>2. u \in Locals /\ u.at = "scan" /\ u.pivot = a[r[1]] /\ u.i = t.i /\ u.j = t.j /\ u.swap = 0
  BY <1>1 DEF Locals
<1>3. t.i = r[1] /\ t.j = r[1] + 1
  BY DEF Local, AtRest
<1>4. Scanning(a, r[1], r[2], u.i, u.j, u.pivot)
  BY <1>1, <1>2, <1>3, ScanFirst
<1>5. AtRest(a, r, u) /\ BeforeSwap(a, r, u) /\ PivotKept(r, u)
  BY <1>2, <1>4 DEF AtRest, BeforeSwap, PivotKept
<1> QED  BY <1>2, <1>5, Resting

\* On to the next j, or to the exchange with the pivot.
LEMMA NextJLocal ==
  ASSUME NEW a \in Arrays, NEW r \in Spans, NEW t \in Locals, t.swap = 0, Passed(a, r[1], r[2], t.i, t.j, t.pivot),
         NEW u, u = Quick!NextJ(r, t)
  PROVE  GoesOn(a, r, u)
<1>1. Bounds(r[1], r[2]) /\ t.i \in Int /\ t.j \in Int /\ t.pivot \in Int
  BY SpanIs, LocalTypes
<1>2. CASE t.j + 1 < r[2]
  <2> DEFINE j == t.j + 1
  <2>1. u = [t EXCEPT !.at = "scan", !.j = j] /\ j \in Int
    BY <1>1, <1>2 DEF Quick!NextJ
  <2> HIDE DEF j
  <2>5. u \in Locals /\ u.at = "scan" /\ u.pivot = t.pivot /\ u.i = t.i /\ u.j = j /\ u.swap = 0
    BY <2>1 DEF Locals
  <2>2. u \in Locals /\ u.at = "scan" /\ u.pivot = t.pivot /\ u.i = t.i /\ u.j = t.j + 1 /\ u.swap = 0
    BY <2>5 DEF j
  <2>3. Scanning(a, r[1], r[2], t.i, t.j + 1, t.pivot)
    BY <1>1, <1>2, PassOn
  <2>4. AtRest(a, r, u) /\ BeforeSwap(a, r, u) /\ PivotKept(r, u)
    BY <2>2, <2>3 DEF AtRest, BeforeSwap, PivotKept
  <2> QED  BY <2>2, <2>4, Resting
<1>3. CASE ~(t.j + 1 < r[2])
  <2>1. u = [t EXCEPT !.at = "swap pivot"]
    BY <1>3 DEF Quick!NextJ
  <2>2. u \in Locals /\ u.at = "swap pivot" /\ u.pivot = t.pivot /\ u.i = t.i /\ u.swap = 0
    BY <2>1 DEF Locals, Swaps
  <2>3. PivotBefore(a, r[1], r[2], t.i, t.pivot)
    BY <1>1, <1>3, PassOn
  <2>4. AtRest(a, r, u) /\ BeforeSwap(a, r, u) /\ PivotKept(r, u)
    BY <2>2, <2>3 DEF AtRest, BeforeSwap, PivotKept
  <2> QED  BY <2>2, <2>4, Resting
<1> QED  BY <1>2, <1>3

LEMMA ScanLocal ==
  ASSUME NEW a \in Arrays, NEW r \in Spans, NEW t \in Locals, Local(a, r, t), t.at = "scan", t.swap = 0,
         NEW u, u = IF Quick!BelongsLeft(a[t.j], t.pivot) THEN [t EXCEPT !.at = "swap scanned", !.i = @ + 1]
                    ELSE Quick!NextJ(r, t)
  PROVE  GoesOn(a, r, u)
<1>1. Bounds(r[1], r[2]) /\ t.i \in Int /\ t.j \in Int /\ t.pivot \in Int
  BY SpanIs, LocalTypes
<1>2. Scanning(a, r[1], r[2], t.i, t.j, t.pivot)
  BY DEF Local, AtRest
<1>3. CASE a[t.j] <= t.pivot
  <2> DEFINE i == t.i + 1
  <2>1. u = [t EXCEPT !.at = "swap scanned", !.i = i] /\ i \in Int
    BY <1>1, <1>3 DEF Quick!BelongsLeft
  <2> HIDE DEF i
  <2>5. u \in Locals /\ u.at = "swap scanned" /\ u.pivot = t.pivot /\ u.i = i /\ u.j = t.j /\ u.swap = 0
    BY <2>1 DEF Locals, Swaps
  <2>2. u \in Locals /\ u.at = "swap scanned" /\ u.pivot = t.pivot /\ u.i = t.i + 1 /\ u.j = t.j /\ u.swap = 0
    BY <2>5 DEF i
  <2>3. ScannedBefore(a, r[1], r[2], t.i + 1, t.j, t.pivot)
    BY <1>1, <1>2, <1>3, ScanLeft
  <2>4. AtRest(a, r, u) /\ BeforeSwap(a, r, u) /\ PivotKept(r, u)
    BY <2>2, <2>3 DEF AtRest, BeforeSwap, PivotKept
  <2> QED  BY <2>2, <2>4, Resting
<1>4. CASE ~(a[t.j] <= t.pivot)
  <2>1. u = Quick!NextJ(r, t)
    BY <1>4 DEF Quick!BelongsLeft
  <2>2. Passed(a, r[1], r[2], t.i, t.j, t.pivot)
    BY <1>1, <1>2, <1>4, ScanRight
  <2> QED  BY <2>1, <2>2, NextJLocal
<1> QED  BY <1>3, <1>4

\* On to the next turn of the selection, or to the fork.
LEMMA SelectFromLocal ==
  ASSUME NEW a \in Arrays, NEW r \in Spans, NEW t \in Locals, t.swap = 0, PivotInside(r, t),
         NEW i \in Int, r[1] <= i, Least(a, r[1], r[2], i),
         NEW u, u = Quick!SelectFrom(r, t, i)
  PROVE  GoesOn(a, r, u)
<1>1. Bounds(r[1], r[2]) /\ r[2] \in Int /\ t.p \in Int
  BY SpanIs, LocalTypes
<1>2. CASE i < r[2]
  <2> DEFINE j == i + 1
  <2>1. u = [t EXCEPT !.at = "select", !.i = i, !.min = i, !.j = j] /\ j \in Int
    BY <1>2 DEF Quick!SelectFrom
  <2> HIDE DEF j
  <2>5. u \in Locals /\ u.at = "select" /\ u.i = i /\ u.min = i /\ u.j = j /\ u.p = t.p /\ u.swap = 0
    BY <2>1 DEF Locals
  <2>2. u \in Locals /\ u.at = "select" /\ u.i = i /\ u.min = i /\ u.j = i + 1 /\ u.p = t.p /\ u.swap = 0
    BY <2>5 DEF j
  <2>3. Selecting(a, r[1], r[2], i, i + 1, i)
    BY <1>1, <1>2, SelectFirst
  <2>4. AtRest(a, r, u) /\ BeforeSwap(a, r, u) /\ PivotKept(r, u)
    BY <2>2, <2>3 DEF AtRest, BeforeSwap, PivotKept, PivotInside
  <2> QED  BY <2>2, <2>4, Resting
<1>3. CASE ~(i < r[2])
  <2>1. u = [t EXCEPT !.at = "fork"]
    BY <1>3 DEF Quick!SelectFrom
  <2>2. u \in Locals /\ u.at = "fork" /\ u.p = t.p /\ u.swap = 0
    BY <2>1 DEF Locals
  <2>3. Parted(a, r[1], r[2], t.p)
    <3>1. i >= r[2]
      BY <1>1, <1>3
    <3> QED  BY <1>1, <3>1, LeastParts DEF PivotInside
  <2>4. AtRest(a, r, u) /\ BeforeSwap(a, r, u) /\ PivotKept(r, u)
    BY <2>2, <2>3 DEF AtRest, BeforeSwap, PivotKept
  <2> QED  BY <2>2, <2>4, Resting
<1> QED  BY <1>2, <1>3

\* The inner loop of the selection: no element behind the range is picked, if
\* none there is smaller.
NoneBehind(a, r, t) == t.j # ARRAY_SIZE => (t.j >= r[2] => a[t.min] <= a[t.j])
SelectStep(a, t) ==
  IF t.j = ARRAY_SIZE THEN [t EXCEPT !.at = "swap selected"]
  ELSE [t EXCEPT !.j = @ + 1, !.min = IF Quick!BeatsMin(a[@], a[t.j]) THEN t.j ELSE @]

LEMMA SelectLocal ==
  ASSUME NEW a \in Arrays, NEW r \in Spans, NEW t \in Locals, Local(a, r, t), t.at = "select", t.swap = 0,
         NoneBehind(a, r, t),
         NEW u, u = SelectStep(a, t)
  PROVE  GoesOn(a, r, u)
<1>1. Bounds(r[1], r[2]) /\ t.i \in Int /\ t.j \in Int /\ t.min \in Int
  BY SpanIs, LocalTypes
<1>2. Selecting(a, r[1], r[2], t.i, t.j, t.min) /\ PivotInside(r, t)
  BY DEF Local, AtRest, PivotKept
<1>3. CASE t.j = ARRAY_SIZE
  <2>1. u \in Locals /\ u.at = "swap selected" /\ u.i = t.i /\ u.min = t.min /\ u.p = t.p /\ u.swap = 0
    BY <1>3 DEF SelectStep, Locals, Swaps
  <2>2. SelectedBefore(a, r[1], r[2], t.i, t.min)
    BY <1>1, <1>2, <1>3, SelectLast
  <2>3. AtRest(a, r, u) /\ BeforeSwap(a, r, u) /\ PivotKept(r, u)
    BY <1>2, <2>1, <2>2 DEF AtRest, BeforeSwap, PivotKept, PivotInside
  <2> QED  BY <2>1, <2>3, Resting
<1>4. CASE t.j # ARRAY_SIZE
  <2> DEFINE m == IF a[t.min] > a[t.j] THEN t.j ELSE t.min
             j == t.j + 1
  <2>1. u = [t EXCEPT !.j = j, !.min = m]
    BY <1>4 DEF SelectStep, Quick!BeatsMin
  <2>2. m \in Int /\ j \in Int
    BY <1>1
  <2>3. Selecting(a, r[1], r[2], t.i, t.j + 1, m)
    BY <1>1, <1>2, <1>4, SelectOne DEF NoneBehind
  <2> HIDE DEF m, j
  <2>6. u \in Locals /\ u.at = "select" /\ u.i = t.i /\ u.j = j /\ u.min = m /\ u.p = t.p /\ u.swap = 0
    BY <2>1, <2>2 DEF Locals
  <2>4. u \in Locals /\ u.at = "select" /\ u.i = t.i /\ u.j = t.j + 1 /\ u.min = m /\ u.p = t.p /\ u.swap = 0
    BY <2>6 DEF j
  <2>5. AtRest(a, r, u) /\ BeforeSwap(a, r, u) /\ PivotKept(r, u)
    BY <1>2, <2>3, <2>4 DEF AtRest, BeforeSwap, PivotKept, PivotInside
  <2> QED  BY <2>4, <2>5, Resting
<1> QED  BY <1>3, <1>4

\* int temp=arr[first]
LEMMA LoadLocal ==
  ASSUME NEW a \in Arrays, NEW r \in Spans, NEW t \in Locals, Local(a, r, t), t.at \in Swaps, t.swap = 0,
         NEW u, u = [t EXCEPT !.temp = a[One(r, t)], !.swap = 1]
  PROVE  u \in Locals /\ u.at # "join" /\ u.swap = 1 /\ Local(a, r, u)
<1>1. a[One(r, t)] \in Int
  <2>1. InsideAt(r[1], r[2], One(r, t)) /\ Bounds(r[1], r[2])
    BY SwapInside, SpanIs
  <2> QED  BY <2>1, CellIs, ElementIs DEF InsideAt
<1> HIDE DEF One
<1>2. /\ u \in Locals /\ u.at = t.at /\ u.i = t.i /\ u.j = t.j /\ u.min = t.min /\ u.p = t.p /\ u.pivot = t.pivot
      /\ u.swap = 1 /\ u.temp = a[One(r, t)]
  BY <1>1 DEF Locals
<1>3. One(r, u) = One(r, t)
  BY <1>2 DEF One
<1>4. u.swap # 2 /\ t.swap # 2
  BY <1>2
<1>5. BeforeSwap(a, r, u)
  <2>1. BeforeSwap(a, r, t)
    BY <1>4 DEF Local
  <2> QED  BY <1>2, <2>1 DEF BeforeSwap
<1>6. AtRest(a, r, u) /\ InSwap(a, r, u) /\ u.at # "join"
  BY <1>2, <1>3, <1>4 DEF AtRest, InSwap, Swaps
<1>7. PivotKept(r, u)
  BY <1>2 DEF Local, PivotKept, PivotInside
<1> QED  BY <1>2, <1>4, <1>5, <1>6, <1>7 DEF Local

\* arr[first]=arr[second]: the exchange takes place.
Moved(a, r, t) == [a EXCEPT ![One(r, t)] = a[Other(r, t)]]
Moving(t)      == [t EXCEPT !.swap = 2]

LEMMA MoveLocal ==
  ASSUME NEW a \in Arrays, NEW r \in Spans, NEW t \in Locals, Local(a, r, t), t.at \in Swaps, t.swap = 1,
         NEW u, u = Moving(t), NEW b, b = Moved(a, r, t)
  PROVE  /\ u \in Locals /\ u.at # "join" /\ u.swap = 2 /\ b \in Arrays /\ Local(b, r, u)
         /\ Exchanged(a, Settled(b, r, u), One(r, t), Other(r, t))
         /\ \A k \in Cells \ {One(r, t)} : b[k] = a[k]
<1> DEFINE x == One(r, t)
           y == Other(r, t)
           w == Settled(b, r, u)
<1>1. x \in Cells /\ y \in Cells /\ x \in Int /\ y \in Int
  <2>1. InsideAt(r[1], r[2], x) /\ InsideAt(r[1], r[2], y) /\ Bounds(r[1], r[2])
    BY SwapInside, SpanIs
  <2> QED  BY <2>1, CellIs DEF InsideAt
<1>2. /\ u \in Locals /\ u.at = t.at /\ u.i = t.i /\ u.j = t.j /\ u.min = t.min /\ u.p = t.p /\ u.pivot = t.pivot
      /\ u.swap = 2 /\ u.temp = t.temp
  BY DEF Moving, Locals
<1>3. One(r, u) = x /\ Other(r, u) = y
  BY <1>2 DEF One, Other
<1>4. w = [b EXCEPT ![y] = t.temp]
  BY <1>2, <1>3 DEF Settled
<1>5. t.temp = a[x] /\ BeforeSwap(a, r, t)
  <2>1. t.swap # 2
    OBVIOUS
  <2> QED  BY <2>1 DEF Local, InSwap
<1>6. u.swap # 1 /\ u.at # "join"
  <2>1. u.swap = 2 /\ u.at = t.at
    BY <1>2
  <2>2. t.at # "join"
    BY DEF Swaps
  <2> QED  BY <2>1, <2>2
<1>7. b = [a EXCEPT ![x] = a[y]]
  BY DEF Moved
<1> HIDE DEF x, y, w
<1>8. b \in Arrays /\ w \in Arrays /\ Exchanged(a, w, x, y) /\ b[y] = w[x] /\ \A k \in Cells \ {x} : b[k] = a[k]
  BY <1>1, <1>4, <1>5, <1>7 DEF Arrays, Exchanged
<1>9. AfterSwap(w, r, u)
  <2>1. Bounds(r[1], r[2]) /\ t.i \in Int /\ t.j \in Int /\ t.min \in Int /\ t.pivot \in Int
    BY SpanIs, LocalTypes
  <2>2. ASSUME t.at = "swap scanned"  PROVE Passed(w, r[1], r[2], t.i, t.j, t.pivot)
    <3>1. x = t.i /\ y = t.j
      BY <2>2 DEF x, y, One, Other
    <3> QED  BY <1>5, <1>8, <2>1, <2>2, <3>1, ExchangeScanned DEF BeforeSwap
  <2>3. ASSUME t.at = "swap pivot"  PROVE Parted(w, r[1], r[2], t.i)
    <3>1. x = r[1] /\ y = t.i
      BY <2>3 DEF x, y, One, Other
    <3>2. PivotBefore(a, r[1], r[2], t.i, t.pivot)
      BY <1>5, <2>3 DEF BeforeSwap
    <3> QED  BY <1>8, <2>1, <3>1, <3>2, ExchangePivot
  <2>4. ASSUME t.at = "swap selected"  PROVE SelectedAfter(w, r[1], r[2], t.i, t.min)
    <3>1. x = t.i /\ y = t.min
      BY <2>4 DEF x, y, One, Other
    <3> QED  BY <1>5, <1>8, <2>1, <2>4, <3>1, ExchangeSelected DEF BeforeSwap
  <2> QED  BY <1>2, <2>2, <2>3, <2>4 DEF AfterSwap
<1>10. AtRest(b, r, u)
  BY <1>2 DEF AtRest, Swaps
<1>11. InSwap(b, r, u)
  BY <1>3, <1>6, <1>8 DEF InSwap, w
<1>12. PivotKept(r, u)
  BY <1>2 DEF Local, PivotKept, PivotInside
<1>13. Local(b, r, u)
  BY <1>2, <1>9, <1>10, <1>11, <1>12 DEF Local, w
<1> QED  BY <1>2, <1>6, <1>8, <1>13 DEF x, y, w

\* arr[second]=temp, and on.
LEMMA StoreLocal ==
  ASSUME NEW a \in Arrays, NEW r \in Spans, NEW t \in Locals, Local(a, r, t), t.swap = 2,
         NEW u, u = Quick!AfterSwap(r, [t EXCEPT !.swap = 0])
  PROVE  t.at \in Swaps /\ GoesOn(Settled(a, r, t), r, u)
<1> DEFINE w == Settled(a, r, t)
           s == [t EXCEPT !.swap = 0]
<1>1. /\ s \in Locals /\ s.at = t.at /\ s.i = t.i /\ s.j = t.j /\ s.min = t.min /\ s.p = t.p /\ s.pivot = t.pivot
      /\ s.swap = 0
  BY DEF Locals
<1>2. t.at \in Swaps /\ AfterSwap(w, r, t) /\ w \in Arrays
  BY SettledIs DEF Local
<1>3. u = Quick!AfterSwap(r, s)
  OBVIOUS
<1>4. /\ Bounds(r[1], r[2]) /\ r[1] \in Int /\ r[2] \in Int /\ r[1] <= r[1] /\ r[1] < r[2]
      /\ t.i \in Int /\ t.j \in Int /\ t.min \in Int /\ t.pivot \in Int
  BY SpanIs, LocalTypes DEF Bounds
<1> HIDE DEF w, s
<1>5. CASE t.at = "swap scanned"
  <2>1. u = Quick!NextJ(r, s)
    BY <1>1, <1>3, <1>5 DEF Quick!AfterSwap
  <2>2. Passed(w, r[1], r[2], s.i, s.j, s.pivot)
    BY <1>1, <1>2, <1>5 DEF AfterSwap
  <2>3. GoesOn(w, r, u)
    BY <1>1, <1>2, <2>1, <2>2, NextJLocal
  <2> QED  BY <1>2, <2>3 DEF w
<1>6. CASE t.at = "swap selected"
  <2>1. u = Quick!SelectFrom(r, s, s.i + 1)
    BY <1>1, <1>3, <1>6 DEF Quick!AfterSwap
  <2>2. SelectedAfter(w, r[1], r[2], t.i, t.min)
    BY <1>2, <1>6 DEF AfterSwap
  <2>3. s.i + 1 \in Int /\ r[1] <= s.i + 1 /\ Least(w, r[1], r[2], s.i + 1)
    BY <1>1, <1>4, <2>2 DEF SelectedAfter
  <2>4. PivotInside(r, s)
    BY <1>1, <1>6 DEF Local, PivotKept, PivotInside
  <2>5. GoesOn(w, r, u)
    BY <1>1, <1>2, <2>1, <2>3, <2>4, SelectFromLocal
  <2> QED  BY <1>2, <2>5 DEF w
<1>7. CASE t.at = "swap pivot"
  <2>1. Parted(w, r[1], r[2], t.i)
    BY <1>2, <1>7 DEF AfterSwap
  <2>2. CASE r[2] - r[1] < ARRAY_SIZE_FOR_SOLO
    <3> DEFINE q == [s EXCEPT !.p = s.i]
    <3>1. u = Quick!SelectFrom(r, q, r[1])
      BY <1>1, <1>3, <1>7, <2>2 DEF Quick!AfterSwap
    <3>2. q \in Locals /\ q.p = t.i /\ q.swap = 0
      BY <1>1, <1>4 DEF Locals
    <3> HIDE DEF q
    <3>3. PivotInside(r, q)
      BY <2>1, <3>2 DEF Parted, PivotInside
    <3>4. Least(w, r[1], r[2], r[1])
      BY <1>4, LeastFirst
    <3>5. GoesOn(w, r, u)
      BY <1>2, <1>4, <3>1, <3>2, <3>3, <3>4, SelectFromLocal
    <3> QED  BY <1>2, <3>5 DEF w
  <2>3. CASE ~(r[2] - r[1] < ARRAY_SIZE_FOR_SOLO)
    <3>1. u = [s EXCEPT !.p = s.i, !.at = "fork"]
      BY <1>1, <1>3, <1>7, <2>3 DEF Quick!AfterSwap
    <3>2. u \in Locals /\ u.at = "fork" /\ u.p = t.i /\ u.swap = 0
      BY <1>1, <1>4, <3>1 DEF Locals
    <3>3. AtRest(w, r, u) /\ BeforeSwap(w, r, u) /\ PivotKept(r, u)
      BY <2>1, <3>2 DEF AtRest, BeforeSwap, PivotKept
    <3>4. GoesOn(w, r, u)
      BY <3>2, <3>3, Resting
    <3> QED  BY <1>2, <3>4 DEF w
  <2> QED  BY <2>2, <2>3
<1> QED  BY <1>2, <1>5, <1>6, <1>7 DEF Swaps
-----------------------------------------------------------------------------
(* Quicksort: the tasks together. *)

Within(r, k) == r[1] <= k /\ k < r[2]
Apart(r, q)  == r[2] <= q[1] \/ q[2] <= r[1]

\* The tasks that are at work on their range.
Active(ts) == {r \in DOMAIN ts : ts[r].at # "join"}

Sharing(a, ts) ==
  /\ a \in Arrays /\ DOMAIN ts \subseteq Spans /\ ts \in [DOMAIN ts -> Locals]
  /\ \A r \in Active(ts) : Local(a, r, ts[r])
  /\ \A r, q \in Active(ts) : r # q => Apart(r, q)

\* w is the array with every exchange that has begun to move elements made.
Shows(w, a, ts) ==
  /\ w \in Arrays
  /\ \A r \in Active(ts) : Agree(Settled(a, r, ts[r]), w, r[1], r[2])
  /\ \A k \in Cells : (\A r \in Active(ts) : ~Within(r, k)) => w[k] = a[k]

\* What is not in order is in the range of one task.
Ordered(w, A) ==
  \A k, l \in Cells : k < l => w[k] <= w[l] \/ \E r \in A : Within(r, k) /\ Within(r, l)

\* pi tells where in the input an element was.
Permutes(pi) ==
  /\ pi \in [Cells -> Cells]
  /\ \A k, l \in Cells : pi[k] = pi[l] => k = l
  /\ \A k \in Cells : \E l \in Cells : pi[l] = k
Permuted(w, inp) == \E pi : Permutes(pi) /\ \A k \in Cells : w[k] = inp[pi[k]]

\* The inductive invariant.
Halfway(a, ts, inp) == \E w : Shows(w, a, ts) /\ Ordered(w, Active(ts)) /\ Permuted(w, inp)
Sorting(a, ts, inp) == Sharing(a, ts) /\ Halfway(a, ts, inp)

LEMMA WithinIs ==
  ASSUME NEW r \in Spans, NEW k \in Int
  PROVE  /\ InsideAt(r[1], r[2], k) <=> Within(r, k)
         /\ Within(r, k) => k \in Cells
  BY SpanIs, CellIs DEF InsideAt, Within

\* A place is in the range of one active task at most.
LEMMA OneTask ==
  ASSUME NEW r \in Spans, NEW q \in Spans, Apart(r, q), NEW k \in Int, Within(r, k)
  PROVE  ~Within(q, k)
<1>1. r[1] \in Int /\ r[2] \in Int /\ q[1] \in Int /\ q[2] \in Int
  BY SpanIs
<1> QED  BY <1>1 DEF Apart, Within

\* r writes in its range only, to be u.
TurnsTo(a, ts, r, b, u, us) ==
  /\ b \in Arrays /\ u \in Locals /\ u.at # "join" /\ Local(b, r, u)
  /\ \A k \in Cells : ~Within(r, k) => b[k] = a[k]
  /\ us = [ts EXCEPT ![r] = u]

LEMMA TurnsFacts ==
  ASSUME NEW a, NEW ts, Sharing(a, ts), NEW r \in Active(ts), NEW b, NEW u, NEW us, TurnsTo(a, ts, r, b, u, us)
  PROVE  /\ DOMAIN us = DOMAIN ts /\ us \in [DOMAIN us -> Locals] /\ us[r] = u
         /\ \A q \in DOMAIN ts \ {r} : us[q] = ts[q]
         /\ Active(us) = Active(ts)
<1>1. r \in DOMAIN ts /\ ts[r].at # "join" /\ ts \in [DOMAIN ts -> Locals] /\ u \in Locals /\ u.at # "join"
  BY DEF Active, Sharing, TurnsTo
<1>2. us = [ts EXCEPT ![r] = u]
  BY DEF TurnsTo
<1>3. /\ DOMAIN us = DOMAIN ts /\ us \in [DOMAIN us -> Locals] /\ us[r] = u
      /\ \A q \in DOMAIN ts \ {r} : us[q] = ts[q]
  BY <1>1, <1>2
<1> QED  BY <1>1, <1>3 DEF Active

LEMMA OthersAgree ==
  ASSUME NEW a, NEW ts, Sharing(a, ts), NEW r \in Active(ts), NEW q \in Active(ts), q # r,
         NEW v, NEW w, \A k \in Cells : ~Within(r, k) => w[k] = v[k]
  PROVE  Agree(v, w, q[1], q[2])
<1>1. r \in Spans /\ q \in Spans /\ Apart(q, r)
  BY DEF Sharing, Active
<1>2. ASSUME NEW k \in Cells, q[1] <= k, k < q[2]  PROVE w[k] = v[k]
  <2>1. k \in Int /\ Within(q, k)
    BY <1>2 DEF Within, Cells
  <2>2. ~Within(r, k)
    BY <1>1, <2>1, OneTask
  <2> QED  BY <2>2
<1> QED  BY <1>2 DEF Agree

LEMMA SharingTurn ==
  ASSUME NEW a, NEW ts, Sharing(a, ts), NEW r \in Active(ts), NEW b, NEW u, NEW us, TurnsTo(a, ts, r, b, u, us)
  PROVE  Sharing(b, us)
<1>1. b \in Arrays /\ Local(b, r, u) /\ \A k \in Cells : ~Within(r, k) => b[k] = a[k]
  BY DEF TurnsTo
<1>2. a \in Arrays /\ Active(ts) \subseteq DOMAIN ts /\ DOMAIN ts \subseteq Spans /\ \A q \in Active(ts) : ts[q] \in Locals
  BY DEF Sharing, Active
<1>3. ASSUME NEW q \in Active(us)  PROVE Local(b, q, us[q])
  <2>1. q \in Active(ts)
    BY TurnsFacts
  <2>2. CASE q = r
    BY <1>1, <2>2, TurnsFacts
  <2>3. CASE q # r
    <3>1. Agree(a, b, q[1], q[2])
      BY <1>1, <2>1, <2>3, OthersAgree
    <3>2. Local(a, q, ts[q]) /\ us[q] = ts[q]
      BY <1>2, <2>1, <2>3, TurnsFacts DEF Sharing
    <3> QED  BY <1>1, <1>2, <2>1, <3>1, <3>2, LocalFrame
  <2> QED  BY <2>2, <2>3
<1> QED  BY <1>1, <1>2, <1>3, TurnsFacts DEF Sharing

LEMMA ShowsTurn ==
  ASSUME NEW a, NEW ts, Sharing(a, ts), NEW r \in Active(ts), NEW b, NEW u, NEW us, TurnsTo(a, ts, r, b, u, us),
         NEW w, Shows(w, a, ts), NEW v \in Arrays, Agree(Settled(b, r, u), v, r[1], r[2]),
         \A k \in Cells : ~Within(r, k) => v[k] = w[k]
  PROVE  Shows(v, b, us)
<1>1. b \in Arrays /\ Local(b, r, u) /\ \A k \in Cells : ~Within(r, k) => b[k] = a[k]
  BY DEF TurnsTo
<1>2. a \in Arrays /\ Active(ts) \subseteq DOMAIN ts /\ DOMAIN ts \subseteq Spans /\ \A q \in Active(ts) : ts[q] \in Locals
  BY DEF Sharing, Active
<1>3. ASSUME NEW q \in Active(us)  PROVE Agree(Settled(b, q, us[q]), v, q[1], q[2])
  <2>1. q \in Active(ts) /\ q \in Spans
    BY <1>2, TurnsFacts
  <2>2. CASE q = r
    BY <2>2, TurnsFacts
  <2>3. CASE q # r
    <3>1. Agree(a, b, q[1], q[2])
      BY <1>1, <2>1, <2>3, OthersAgree
    <3>2. Local(a, q, ts[q]) /\ us[q] = ts[q]
      BY <1>2, <2>1, <2>3, TurnsFacts DEF Sharing
    <3>3. Agree(Settled(a, q, ts[q]), Settled(b, q, ts[q]), q[1], q[2])
      BY <1>1, <1>2, <2>1, <3>1, <3>2, LocalFrame
    <3>4. Agree(w, v, q[1], q[2])
      BY <2>1, <2>3, OthersAgree
    <3>5. Agree(Settled(a, q, ts[q]), w, q[1], q[2])
      BY <2>1 DEF Shows
    <3> QED  BY <3>2, <3>3, <3>4, <3>5 DEF Agree
  <2> QED  BY <2>2, <2>3
<1>4. ASSUME NEW k \in Cells, \A q \in Active(us) : ~Within(q, k)  PROVE v[k] = b[k]
  <2>1. \A q \in Active(ts) : ~Within(q, k)
    BY <1>4, TurnsFacts
  <2>2. v[k] = w[k] /\ b[k] = a[k]
    BY <1>1, <2>1
  <2> QED  BY <2>1, <2>2 DEF Shows
<1> QED  BY <1>3, <1>4 DEF Shows

\* Most steps move nothing.
LEMMA QuietTurn ==
  ASSUME NEW a, NEW ts, NEW inp, Sorting(a, ts, inp), NEW r \in Active(ts), NEW b, NEW u, NEW us, TurnsTo(a, ts, r, b, u, us),
         Settled(b, r, u) = Settled(a, r, ts[r])
  PROVE  Sorting(b, us, inp)
<1>1. Sharing(a, ts)
  BY DEF Sorting
<1>2. PICK w : Shows(w, a, ts) /\ Ordered(w, Active(ts)) /\ Permuted(w, inp)
  BY DEF Sorting, Halfway
<1>3. Agree(Settled(b, r, u), w, r[1], r[2]) /\ w \in Arrays
  BY <1>2 DEF Shows
<1>4. Shows(w, b, us)
  BY <1>1, <1>2, <1>3, ShowsTurn
<1>5. Active(us) = Active(ts)
  BY <1>1, TurnsFacts
<1>6. Halfway(b, us, inp)
  BY <1>2, <1>4, <1>5 DEF Halfway
<1> QED  BY <1>1, <1>6, SharingTurn DEF Sorting

LEMMA ExchangedOrder ==
  ASSUME NEW ts, NEW a, Sharing(a, ts), NEW r \in Active(ts), NEW w, Ordered(w, Active(ts)),
         NEW x \in Cells, NEW y \in Cells, Within(r, x), Within(r, y), NEW v, Exchanged(w, v, x, y)
  PROVE  Ordered(v, Active(ts))
<1>1. Active(ts) \subseteq Spans /\ r \in Spans /\ \A q \in Active(ts) : q # r => Apart(r, q)
  BY DEF Sharing, Active
<1>2. ASSUME NEW k \in Cells
      PROVE  \E m \in Cells : v[k] = w[m] /\ (Within(r, k) => Within(r, m)) /\ (~Within(r, k) => m = k)
  <2>1. CASE k = x
    BY <2>1 DEF Exchanged
  <2>2. CASE k = y
    BY <2>2 DEF Exchanged
  <2>3. CASE k # x /\ k # y
    BY <2>3 DEF Exchanged
  <2> QED  BY <2>1, <2>2, <2>3
<1>3. ASSUME NEW k \in Cells, NEW l \in Cells, k < l, ~(Within(r, k) /\ Within(r, l))
      PROVE  v[k] <= v[l] \/ \E q \in Active(ts) : Within(q, k) /\ Within(q, l)
  <2>1. PICK m \in Cells : v[k] = w[m] /\ (Within(r, k) => Within(r, m)) /\ (~Within(r, k) => m = k)
    BY <1>2
  <2>2. PICK n \in Cells : v[l] = w[n] /\ (Within(r, l) => Within(r, n)) /\ (~Within(r, l) => n = l)
    BY <1>2
  <2>3. k \in Int /\ l \in Int /\ m \in Int /\ n \in Int /\ r[1] \in Int /\ r[2] \in Int
    BY <1>1, SpanIs DEF Cells
  <2>4. m < n /\ ~(Within(r, m) /\ Within(r, n))
    <3>1. CASE Within(r, k)
      BY <1>3, <2>1, <2>2, <2>3, <3>1 DEF Within
    <3>2. CASE Within(r, l)
      BY <1>3, <2>1, <2>2, <2>3, <3>2 DEF Within
    <3>3. CASE ~Within(r, k) /\ ~Within(r, l)
      BY <1>3, <2>1, <2>2, <3>3
    <3> QED  BY <3>1, <3>2, <3>3
  <2>5. CASE w[m] <= w[n]
    BY <2>1, <2>2, <2>5
  <2>6. ASSUME NEW q \in Active(ts), Within(q, m), Within(q, n)  PROVE Within(q, k) /\ Within(q, l)
    <3>1. q # r /\ q \in Spans /\ Apart(r, q)
      BY <1>1, <2>4, <2>6
    <3>2. ~Within(r, m) /\ ~Within(r, n)
      BY <1>1, <2>3, <2>6, <3>1, OneTask
    <3>3. m = k /\ n = l
      BY <2>1, <2>2, <3>2
    <3> QED  BY <2>6, <3>3
  <2> QED  BY <2>4, <2>5, <2>6 DEF Ordered
<1> QED  BY <1>3 DEF Ordered

LEMMA ExchangedPermutes ==
  ASSUME NEW w, NEW inp, Permuted(w, inp), NEW x \in Cells, NEW y \in Cells, NEW v, Exchanged(w, v, x, y)
  PROVE  Permuted(v, inp)
<1>1. PICK pi : Permutes(pi) /\ \A k \in Cells : w[k] = inp[pi[k]]
  BY DEF Permuted
<1> DEFINE At(k) == IF k = x THEN y ELSE IF k = y THEN x ELSE k
           po == [k \in Cells |-> pi[At(k)]]
<1>2. \A k \in Cells : At(k) \in Cells /\ At(At(k)) = k
  OBVIOUS
<1>3. \A k \in Cells : po[k] = pi[At(k)]
  OBVIOUS
<1>4. \A k \in Cells : v[k] = w[At(k)]
  BY DEF Exchanged
<1>5. po \in [Cells -> Cells]
  BY <1>1, <1>2 DEF Permutes
<1> HIDE DEF At, po
<1>6. ASSUME NEW k \in Cells, NEW l \in Cells, po[k] = po[l]  PROVE k = l
  <2>1. At(k) = At(l)
    BY <1>1, <1>2, <1>3, <1>6 DEF Permutes
  <2> QED  BY <1>2, <2>1
<1>7. ASSUME NEW k \in Cells  PROVE \E l \in Cells : po[l] = k
  <2>1. PICK m \in Cells : pi[m] = k
    BY <1>1 DEF Permutes
  <2>2. At(m) \in Cells /\ po[At(m)] = k
    BY <1>2, <1>3, <2>1
  <2> QED  BY <2>2
<1>8. Permutes(po)
  BY <1>5, <1>6, <1>7 DEF Permutes
<1>9. \A k \in Cells : v[k] = inp[po[k]]
  BY <1>1, <1>2, <1>3, <1>4
<1> QED  BY <1>8, <1>9 DEF Permuted

\* One kind of step makes an exchange.
LEMMA ExchangeTurn ==
  ASSUME NEW a, NEW ts, NEW inp, Sorting(a, ts, inp), NEW r \in Active(ts), NEW b, NEW u, NEW us, TurnsTo(a, ts, r, b, u, us),
         NEW x \in Cells, NEW y \in Cells, Within(r, x), Within(r, y),
         Settled(b, r, u) \in Arrays, Exchanged(Settled(a, r, ts[r]), Settled(b, r, u), x, y)
  PROVE  Sorting(b, us, inp)
<1>1. Sharing(a, ts)
  BY DEF Sorting
<1>2. PICK w : Shows(w, a, ts) /\ Ordered(w, Active(ts)) /\ Permuted(w, inp)
  BY DEF Sorting, Halfway
<1>3. Agree(Settled(a, r, ts[r]), w, r[1], r[2]) /\ w \in Arrays
  BY <1>2 DEF Shows
<1> DEFINE v == [w EXCEPT ![x] = w[y], ![y] = w[x]]
<1>4. v \in Arrays /\ Exchanged(w, v, x, y)
  BY <1>3 DEF Arrays, Exchanged
<1> HIDE DEF v
<1>5. \A k \in Cells : ~Within(r, k) => v[k] = w[k]
  BY <1>4 DEF Exchanged
<1>6. Agree(Settled(b, r, u), v, r[1], r[2])
  <2> DEFINE before == Settled(a, r, ts[r])
             after == Settled(b, r, u)
  <2>1. Exchanged(before, after, x, y) /\ Agree(before, w, r[1], r[2])
    BY <1>3
  <2> HIDE DEF before, after
  <2>2. w[x] = before[x] /\ w[y] = before[y]
    BY <2>1 DEF Agree, Within
  <2>3. ASSUME NEW k \in Cells, r[1] <= k, k < r[2]  PROVE v[k] = after[k]
    <3>1. w[k] = before[k]
      BY <2>1, <2>3 DEF Agree
    <3>2. CASE k = x
      BY <1>4, <2>1, <2>2, <3>2 DEF Exchanged
    <3>3. CASE k = y
      BY <1>4, <2>1, <2>2, <3>3 DEF Exchanged
    <3>4. CASE k # x /\ k # y
      BY <1>4, <2>1, <3>1, <3>4 DEF Exchanged
    <3> QED  BY <3>2, <3>3, <3>4
  <2> QED  BY <2>3 DEF Agree, after
<1>7. Shows(v, b, us)
  BY <1>1, <1>2, <1>4, <1>5, <1>6, ShowsTurn
<1>8. Active(us) = Active(ts)
  BY <1>1, TurnsFacts
<1>9. Ordered(v, Active(ts)) /\ Permuted(v, inp)
  BY <1>1, <1>2, <1>4, ExchangedOrder, ExchangedPermutes
<1>10. Halfway(b, us, inp)
  BY <1>7, <1>8, <1>9 DEF Halfway
<1> QED  BY <1>1, <1>10, SharingTurn DEF Sorting
\* What the invariant says of a task at work.
LEMMA AtWork ==
  ASSUME NEW a, NEW ts, NEW inp, Sorting(a, ts, inp), NEW r \in DOMAIN ts, ts[r].at # "join"
  PROVE  /\ r \in Active(ts) /\ r \in Spans /\ a \in Arrays /\ ts[r] \in Locals /\ Local(a, r, ts[r])
         /\ ts[r].at \notin Swaps => ts[r].swap = 0
<1>1. r \in Active(ts) /\ r \in Spans /\ a \in Arrays /\ ts[r] \in Locals /\ Local(a, r, ts[r])
  BY DEF Sorting, Sharing, Active
<1>2. ts[r].swap \in {0, 1, 2} /\ (ts[r].swap \in {1, 2} => ts[r].at \in Swaps)
  BY <1>1, LocalTypes DEF Local
<1> QED  BY <1>1, <1>2

\* Where the sort stands after a statement of r.
Turned(a, ts, r, b, us, inp) == Sorting(b, us, inp) /\ r \in Active(ts) /\ \E u : TurnsTo(a, ts, r, b, u, us)

LEMMA QuietStatement ==
  ASSUME NEW a, NEW ts, NEW inp, Sorting(a, ts, inp), NEW r \in Active(ts), ts[r].swap # 2,
         NEW u, NEW us, TurnsTo(a, ts, r, a, u, us), u.swap # 2
  PROVE  Turned(a, ts, r, a, us, inp)
<1>1. Settled(a, r, u) = Settled(a, r, ts[r])
  BY DEF Settled
<1>2. Sorting(a, us, inp)
  BY <1>1, QuietTurn
<1> QED  BY <1>2 DEF Turned

LEMMA StartSorts ==
  ASSUME NEW inp, Sorting(array, tasks, inp), NEW r \in DOMAIN tasks, Quick!Start(r)
  PROVE  Turned(array, tasks, r, array', tasks', inp)
<1> DEFINE t == tasks[r]
           u == [t EXCEPT !.at = "scan", !.pivot = array[r[1]]]
<1>1. t.at = "start" /\ tasks' = [tasks EXCEPT ![r] = u] /\ array' = array
  BY DEF Quick!Start, Quick!Become
<1>2. /\ r \in Active(tasks) /\ r \in Spans /\ array \in Arrays /\ t \in Locals /\ Local(array, r, t)
      /\ t.swap = 0
  BY <1>1, AtWork DEF Swaps
<1>3. GoesOn(array, r, u)
  BY <1>1, <1>2, StartLocal
<1> HIDE DEF u
<1>4. TurnsTo(array, tasks, r, array, u, tasks')
  BY <1>1, <1>2, <1>3 DEF TurnsTo, GoesOn
<1>5. t.swap # 2 /\ u.swap # 2
  BY <1>2, <1>3 DEF GoesOn
<1>6. Turned(array, tasks, r, array, tasks', inp)
  BY <1>2, <1>4, <1>5, QuietStatement
<1> QED  BY <1>1, <1>6

LEMMA ScanSorts ==
  ASSUME NEW inp, Sorting(array, tasks, inp), NEW r \in DOMAIN tasks, Quick!Scan(r)
  PROVE  Turned(array, tasks, r, array', tasks', inp)
<1> DEFINE t == tasks[r]
           u == IF Quick!BelongsLeft(array[t.j], t.pivot) THEN [t EXCEPT !.at = "swap scanned", !.i = @ + 1]
                ELSE Quick!NextJ(r, t)
<1>1. t.at = "scan" /\ tasks' = [tasks EXCEPT ![r] = u] /\ array' = array
  BY DEF Quick!Scan, Quick!Become
<1>2. /\ r \in Active(tasks) /\ r \in Spans /\ array \in Arrays /\ t \in Locals /\ Local(array, r, t)
      /\ t.swap = 0
  BY <1>1, AtWork DEF Swaps
<1>3. GoesOn(array, r, u)
  BY <1>1, <1>2, ScanLocal
<1> HIDE DEF u
<1>4. TurnsTo(array, tasks, r, array, u, tasks')
  BY <1>1, <1>2, <1>3 DEF TurnsTo, GoesOn
<1>5. t.swap # 2 /\ u.swap # 2
  BY <1>2, <1>3 DEF GoesOn
<1>6. Turned(array, tasks, r, array, tasks', inp)
  BY <1>2, <1>4, <1>5, QuietStatement
<1> QED  BY <1>1, <1>6

LEMMA SwappedIs ==
  ASSUME NEW r, Quick!Swapping(r)
  PROVE  /\ tasks[r].at \in Swaps
         /\ Quick!Swapped(r)[1] = One(r, tasks[r]) /\ Quick!Swapped(r)[2] = Other(r, tasks[r])
<1>1. tasks[r].at \in Swaps
  BY DEF Quick!Swapping, Swaps
<1>2. CASE tasks[r].at = "swap scanned"
  BY <1>1, <1>2 DEF Quick!Swapped, One, Other
<1>3. CASE tasks[r].at = "swap pivot"
  BY <1>1, <1>3 DEF Quick!Swapped, One, Other
<1>4. CASE tasks[r].at = "swap selected"
  BY <1>1, <1>4 DEF Quick!Swapped, One, Other
<1> QED  BY <1>1, <1>2, <1>3, <1>4 DEF Swaps

LEMMA SwapLoadSorts ==
  ASSUME NEW inp, Sorting(array, tasks, inp), NEW r \in DOMAIN tasks, Quick!SwapLoad(r)
  PROVE  Turned(array, tasks, r, array', tasks', inp)
<1> DEFINE t == tasks[r]
           u == [t EXCEPT !.temp = array[One(r, t)], !.swap = 1]
<1>1. t.at \in Swaps /\ t.swap = 0 /\ tasks' = [tasks EXCEPT ![r] = u] /\ array' = array
  BY SwappedIs DEF Quick!SwapLoad, Quick!Become
<1>2. r \in Active(tasks) /\ r \in Spans /\ array \in Arrays /\ t \in Locals /\ Local(array, r, t)
  BY <1>1, AtWork DEF Swaps
<1>3. u \in Locals /\ u.at # "join" /\ u.swap = 1 /\ Local(array, r, u)
  BY <1>1, <1>2, LoadLocal
<1> HIDE DEF u
<1>4. TurnsTo(array, tasks, r, array, u, tasks')
  BY <1>1, <1>2, <1>3 DEF TurnsTo
<1>5. t.swap # 2 /\ u.swap # 2
  BY <1>1, <1>3
<1>6. Turned(array, tasks, r, array, tasks', inp)
  BY <1>2, <1>4, <1>5, QuietStatement
<1> QED  BY <1>1, <1>6

LEMMA SwapMoveSorts ==
  ASSUME NEW inp, Sorting(array, tasks, inp), NEW r \in DOMAIN tasks, Quick!SwapMove(r)
  PROVE  Turned(array, tasks, r, array', tasks', inp)
<1> DEFINE t == tasks[r]
           u == Moving(t)
           x == One(r, t)
           y == Other(r, t)
<1>1. /\ t.at \in Swaps /\ t.swap = 1 /\ tasks' = [tasks EXCEPT ![r] = u]
      /\ array' = Moved(array, r, t)
  BY SwappedIs DEF Quick!SwapMove, Quick!Become, Moved, Moving
<1>2. r \in Active(tasks) /\ r \in Spans /\ array \in Arrays /\ t \in Locals /\ Local(array, r, t)
  BY <1>1, AtWork DEF Swaps
<1>3. x \in Cells /\ y \in Cells /\ Within(r, x) /\ Within(r, y)
  <2>1. InsideAt(r[1], r[2], x) /\ InsideAt(r[1], r[2], y)
    BY <1>1, <1>2, SwapInside
  <2>2. x \in Int /\ y \in Int
    BY <2>1 DEF InsideAt
  <2> QED  BY <1>2, <2>1, <2>2, WithinIs
<1>4. /\ u \in Locals /\ u.at # "join" /\ u.swap = 2 /\ array' \in Arrays /\ Local(array', r, u)
      /\ Exchanged(array, Settled(array', r, u), x, y)
      /\ \A k \in Cells \ {x} : array'[k] = array[k]
  BY <1>1, <1>2, MoveLocal
<1> HIDE DEF u, x, y
<1>5. \A k \in Cells : ~Within(r, k) => array'[k] = array[k]
  BY <1>3, <1>4
<1>6. TurnsTo(array, tasks, r, array', u, tasks')
  BY <1>1, <1>4, <1>5 DEF TurnsTo
<1>7. Settled(array, r, t) = array /\ Settled(array', r, u) \in Arrays
  <2>1. t.swap # 2
    BY <1>1
  <2> QED  BY <1>2, <1>4, <2>1, SettledIs
<1>8. Exchanged(Settled(array, r, t), Settled(array', r, u), x, y)
  BY <1>4, <1>7
<1>9. Sorting(array', tasks', inp)
  BY <1>2, <1>3, <1>6, <1>7, <1>8, ExchangeTurn
<1> QED  BY <1>2, <1>6, <1>9 DEF Turned

LEMMA SwapStoreSorts ==
  ASSUME NEW inp, Sorting(array, tasks, inp), NEW r \in DOMAIN tasks, Quick!SwapStore(r)
  PROVE  Turned(array, tasks, r, array', tasks', inp)
<1> DEFINE t == tasks[r]
           u == Quick!AfterSwap(r, [t EXCEPT !.swap = 0])
           y == Other(r, t)
<1>1. /\ t.at \in Swaps /\ t.swap = 2 /\ tasks' = [tasks EXCEPT ![r] = u]
      /\ array' = [array EXCEPT ![y] = t.temp]
  BY SwappedIs DEF Quick!SwapStore, Quick!Become
<1>2. r \in Active(tasks) /\ r \in Spans /\ array \in Arrays /\ t \in Locals /\ Local(array, r, t)
  BY <1>1, AtWork DEF Swaps
<1> DEFINE v == Settled(array, r, t)
<1>3. array' = v
  BY <1>1 DEF Settled
<1>4. GoesOn(array', r, u)
  <2>1. GoesOn(v, r, u)
    BY <1>1, <1>2, StoreLocal
  <2> QED  BY <1>3, <2>1
<1>5. y \in Cells /\ Within(r, y)
  <2>1. InsideAt(r[1], r[2], y)
    BY <1>1, <1>2, SwapInside
  <2>2. y \in Int
    BY <2>1 DEF InsideAt
  <2> QED  BY <1>2, <2>1, <2>2, WithinIs
<1>6. array' \in Arrays /\ \A k \in Cells \ {y} : array'[k] = array[k]
  <2>1. v \in Arrays /\ \A k \in Cells \ {y} : v[k] = array[k]
    BY <1>1, <1>2, SettledIs
  <2> QED  BY <1>3, <2>1
<1> HIDE DEF u, y
<1>7. \A k \in Cells : ~Within(r, k) => array'[k] = array[k]
  BY <1>5, <1>6
<1>8. TurnsTo(array, tasks, r, array', u, tasks')
  BY <1>1, <1>4, <1>6, <1>7 DEF TurnsTo, GoesOn
<1>9. Settled(array', r, u) = Settled(array, r, t)
  <2>1. u.swap # 2
    BY <1>4 DEF GoesOn
  <2> QED  BY <1>3, <2>1 DEF Settled
<1>10. Sorting(array', tasks', inp)
  BY <1>2, <1>8, <1>9, QuietTurn
<1> QED  BY <1>2, <1>8, <1>10 DEF Turned

\* The selection that scans beyond its range, where other tasks are at work: what
\* it reads there, between two assignments of an exchange even, is an element
\* that is not smaller.
LEMMA BehindIs ==
  ASSUME NEW a, NEW ts, Sharing(a, ts), NEW w, Shows(w, a, ts), NEW r \in Active(ts),
         NEW k \in Cells, k >= r[2]
  PROVE  \E m \in Cells : a[k] = w[m] /\ m >= r[2]
<1>1. k \in Int /\ r[2] \in Int /\ r \in Spans /\ a \in Arrays
  BY SpanIs DEF Cells, Sharing, Active
<1>2. CASE \A q \in Active(ts) : ~Within(q, k)
  BY <1>2 DEF Shows
<1>3. ASSUME NEW q \in Active(ts), Within(q, k)
      PROVE  \E m \in Cells : a[k] = w[m] /\ m >= r[2]
  <2> DEFINE t == ts[q]
             v == Settled(a, q, t)
  <2>1. q \in Spans /\ t \in Locals /\ Local(a, q, t) /\ Agree(v, w, q[1], q[2])
    BY DEF Sharing, Active, Shows
  <2>2. q[1] \in Int /\ q[2] \in Int /\ r[1] \in Int /\ r[1] < r[2]
    BY <1>1, <2>1, SpanIs DEF Bounds
  <2>3. r[2] <= q[1]
    <3>1. q # r
      BY <1>1, <1>3, <2>2 DEF Within
    <3>2. Apart(q, r)
      BY <3>1 DEF Sharing
    <3> QED  BY <1>1, <1>3, <2>2, <3>2 DEF Apart, Within
  <2>4. CASE t.swap = 2 /\ k = Other(q, t)
    <3>1. t.at \in Swaps /\ a[k] = v[One(q, t)]
      BY <2>1, <2>4 DEF Local, InSwap
    <3>2. InsideAt(q[1], q[2], One(q, t))
      BY <2>1, <3>1, SwapInside
    <3>3. One(q, t) \in Int
      BY <3>2 DEF InsideAt
    <3>4. One(q, t) \in Cells /\ Within(q, One(q, t))
      BY <2>1, <3>2, <3>3, WithinIs
    <3>5. w[One(q, t)] = v[One(q, t)]
      BY <2>1, <3>4 DEF Agree, Within
    <3>6. One(q, t) >= r[2]
      BY <1>1, <2>2, <2>3, <3>3, <3>4 DEF Within
    <3> QED  BY <3>1, <3>4, <3>5, <3>6
  <2>5. CASE ~(t.swap = 2 /\ k = Other(q, t))
    <3>1. v[k] = a[k]
      BY <1>1, <2>1, <2>5, SettledIs
    <3>2. w[k] = v[k]
      BY <1>3, <2>1 DEF Agree, Within
    <3> QED  BY <3>1, <3>2
  <2> QED  BY <2>4, <2>5
<1> QED  BY <1>2, <1>3

LEMMA NothingSmallerBehind ==
  ASSUME NEW a, NEW ts, NEW inp, Sorting(a, ts, inp), NEW r \in Active(ts), ts[r].at = "select"
  PROVE  NoneBehind(a, r, ts[r])
<1> DEFINE t == ts[r]
<1>1. Sharing(a, ts)
  BY DEF Sorting
<1>2. PICK w : Shows(w, a, ts) /\ Ordered(w, Active(ts))
  BY DEF Sorting, Halfway
<1>3. r \in Spans /\ a \in Arrays /\ t \in Locals /\ Local(a, r, t) /\ t.swap = 0
  BY AtWork DEF Active, Swaps
<1>4. Selecting(a, r[1], r[2], t.i, t.j, t.min)
  BY <1>3 DEF Local, AtRest
<1>5. t.i \in Int /\ t.j \in Int /\ t.min \in Int /\ r[1] \in Int /\ r[2] \in Int /\ Bounds(r[1], r[2])
  BY <1>3, LocalTypes, SpanIs
<1> SUFFICES ASSUME t.j # ARRAY_SIZE, t.j >= r[2]  PROVE a[t.min] <= a[t.j]
  BY DEF NoneBehind
<1>6. t.j \in Cells
  BY <1>4, <1>5, QuickConstants DEF Selecting, Bounds, Cells
<1>7. PICK m \in Cells : a[t.j] = w[m] /\ m >= r[2]
  BY <1>1, <1>2, <1>6, BehindIs
<1>8. t.min \in Cells /\ r[1] <= t.min /\ t.min < r[2]
  <2>1. r[1] <= t.min /\ t.min < r[2]
    BY <1>4, <1>5 DEF Selecting
  <2> QED  BY <1>5, <2>1, CellIs
<1>9. w[t.min] = a[t.min]
  <2>1. Agree(a, w, r[1], r[2])
    <3>1. t.swap # 2
      BY <1>3
    <3> QED  BY <1>2, <3>1 DEF Shows, Settled
  <2> QED  BY <1>8, <2>1 DEF Agree
<1>10. m \in Int /\ t.min < m /\ ~Within(r, m) /\ Within(r, t.min)
  BY <1>5, <1>7, <1>8 DEF Cells, Within
<1>11. ASSUME NEW q \in Active(ts), Within(q, t.min)  PROVE q = r
  <2>1. q \in Spans /\ (q # r => Apart(r, q))
    BY <1>1 DEF Sharing, Active
  <2> QED  BY <1>3, <1>5, <1>10, <1>11, <2>1, OneTask
<1> QED  BY <1>2, <1>7, <1>8, <1>9, <1>10, <1>11 DEF Ordered

LEMMA SelectSorts ==
  ASSUME NEW inp, Sorting(array, tasks, inp), NEW r \in DOMAIN tasks, Quick!Select(r)
  PROVE  Turned(array, tasks, r, array', tasks', inp)
<1> DEFINE t == tasks[r]
           u == SelectStep(array, t)
<1>1. t.at = "select" /\ tasks' = [tasks EXCEPT ![r] = u] /\ array' = array
  BY DEF Quick!Select, Quick!Become, SelectStep
<1>2. /\ r \in Active(tasks) /\ r \in Spans /\ array \in Arrays /\ t \in Locals /\ Local(array, r, t)
      /\ t.swap = 0
  BY <1>1, AtWork DEF Swaps
<1>3. NoneBehind(array, r, t)
  BY <1>1, <1>2, NothingSmallerBehind
<1>4. GoesOn(array, r, u)
  BY <1>1, <1>2, <1>3, SelectLocal
<1> HIDE DEF u
<1>5. TurnsTo(array, tasks, r, array, u, tasks')
  BY <1>1, <1>2, <1>4 DEF TurnsTo, GoesOn
<1>6. t.swap # 2 /\ u.swap # 2
  BY <1>2, <1>4 DEF GoesOn
<1>7. Turned(array, tasks, r, array, tasks', inp)
  BY <1>2, <1>5, <1>6, QuietStatement
<1> QED  BY <1>1, <1>7
\* invokeAll: the pivot parts the two new tasks.
ForkedTo(ts, r, us) ==
  LET new == Quick!Ranges(Quick!Sides(r, ts[r].p))
  IN /\ DOMAIN us = new \cup DOMAIN ts /\ us \in [DOMAIN us -> Locals]
     /\ \A q \in new : us[q] = Quick!NewTask(q[1])
     /\ \A q \in DOMAIN ts \ (new \cup {r}) : us[q] = ts[q]
     /\ r \notin new => us[r].at = "join"

LEMMA SidesAre ==
  ASSUME NEW r \in Spans, NEW p \in Int, r[1] <= p, p < r[2]
  PROVE  /\ Quick!Ranges(Quick!Sides(r, p)) \subseteq Spans
         /\ \A q \in Quick!Ranges(Quick!Sides(r, p)) :
              /\ q # r /\ \A k \in Int : Within(q, k) => Within(r, k)
              /\ \A s \in Spans : Apart(r, s) => Apart(q, s) /\ Apart(s, q)
         /\ \A q, s \in Quick!Ranges(Quick!Sides(r, p)) : q # s => Apart(q, s)
         /\ \A k, l \in Int : Within(r, k) /\ Within(r, l) /\ k < l /\ (l < p \/ p < k) =>
              \E q \in Quick!Ranges(Quick!Sides(r, p)) : Within(q, k) /\ Within(q, l)
<1> DEFINE left == <<r[1], p>>
           right == <<p + 1, r[2]>>
           new == Quick!Ranges(Quick!Sides(r, p))
<1>1. r[1] \in Int /\ r[2] \in Int /\ 0 <= r[1] /\ r[1] < r[2] /\ r[2] <= ARRAY_SIZE /\ ARRAY_SIZE \in Nat
  BY SpanIs, QuickConstants DEF Bounds
<1>2. left[1] = r[1] /\ left[2] = p /\ right[1] = p + 1 /\ right[2] = r[2]
  OBVIOUS
<1>3. left \in Int \X Int /\ right \in Int \X Int
  BY <1>1
<1>4. \A q : q \in new <=> (q = left \/ q = right) /\ q[2] - q[1] >= 2
  BY DEF Quick!Ranges, Quick!Sides
<1> HIDE DEF left, right, new
<1>5. ASSUME NEW q \in new
      PROVE  q \in Spans /\ q[1] \in Int /\ q[2] \in Int /\ r[1] <= q[1] /\ q[2] <= r[2] /\ q # r
  <2>1. CASE q = left
    BY <1>1, <1>2, <1>3, <1>4, <2>1 DEF Spans
  <2>2. CASE q = right
    BY <1>1, <1>2, <1>3, <1>4, <2>2 DEF Spans
  <2> QED  BY <1>4, <2>1, <2>2
<1>6. ASSUME NEW q \in new  PROVE \A k \in Int : Within(q, k) => Within(r, k)
  BY <1>1, <1>5 DEF Within
<1>7. ASSUME NEW q \in new, NEW s \in Spans, Apart(r, s)  PROVE Apart(q, s) /\ Apart(s, q)
  <2>1. s[1] \in Int /\ s[2] \in Int
    BY SpanIs
  <2> QED  BY <1>1, <1>5, <1>7, <2>1 DEF Apart
<1>8. ASSUME NEW q \in new, NEW s \in new, q # s  PROVE Apart(q, s)
  <2>1. left[2] <= right[1]
    BY <1>2
  <2> QED  BY <1>4, <1>8, <2>1 DEF Apart
<1>9. ASSUME NEW k \in Int, NEW l \in Int, Within(r, k), Within(r, l), k < l, l < p \/ p < k
      PROVE  \E q \in new : Within(q, k) /\ Within(q, l)
  <2>1. CASE l < p
    <3>1. left \in new /\ Within(left, k) /\ Within(left, l)
      BY <1>1, <1>2, <1>4, <1>9, <2>1 DEF Within
    <3> QED  BY <3>1
  <2>2. CASE p < k
    <3>1. right \in new /\ Within(right, k) /\ Within(right, l)
      BY <1>1, <1>2, <1>4, <1>9, <2>2 DEF Within
    <3> QED  BY <3>1
  <2> QED  BY <1>9, <2>1, <2>2
<1> QED  BY <1>5, <1>6, <1>7, <1>8, <1>9 DEF new

LEMMA NewTaskIs ==
  ASSUME NEW a, NEW q \in Spans
  PROVE  /\ Quick!NewTask(q[1]) \in Locals /\ Quick!NewTask(q[1]).at # "join"
         /\ Local(a, q, Quick!NewTask(q[1])) /\ Settled(a, q, Quick!NewTask(q[1])) = a
<1> DEFINE t == Quick!NewTask(q[1])
           j == q[1] + 1
<1>1. q[1] \in Int /\ j \in Int
  BY SpanIs
<1>2. t = [at |-> "start", pivot |-> 0, i |-> q[1], j |-> j, p |-> q[1], min |-> q[1], temp |-> 0, swap |-> 0]
  BY DEF Quick!NewTask
<1> HIDE DEF t, j
<1>3. t \in Locals /\ t.at = "start" /\ t.i = q[1] /\ t.j = j /\ t.swap = 0
  BY <1>1, <1>2 DEF Locals
<1>4. AtRest(a, q, t) /\ BeforeSwap(a, q, t) /\ PivotKept(q, t)
  BY <1>3 DEF AtRest, BeforeSwap, PivotKept, j
<1>5. GoesOn(a, q, t)
  BY <1>3, <1>4, Resting
<1>6. t.swap # 2
  BY <1>3
<1> QED  BY <1>3, <1>5, <1>6 DEF GoesOn, Settled, t

LEMMA ForkedActive ==
  ASSUME NEW a, NEW ts, Sharing(a, ts), NEW r \in Active(ts), NEW us, ForkedTo(ts, r, us),
         r[1] <= ts[r].p, ts[r].p < r[2]
  PROVE  /\ r \in Spans /\ ts[r].p \in Int
         /\ Active(us) = Quick!Ranges(Quick!Sides(r, ts[r].p)) \cup (Active(ts) \ {r})
<1>1. r \in DOMAIN ts /\ r \in Spans /\ ts[r] \in Locals
  BY DEF Sharing, Active
<1>2. ts[r].p \in Int
  BY <1>1, LocalTypes
<1> DEFINE new == Quick!Ranges(Quick!Sides(r, ts[r].p))
<1>3. new \subseteq Spans /\ r \notin new
  BY <1>1, <1>2, SidesAre
<1>4. /\ DOMAIN us = new \cup DOMAIN ts
      /\ \A q \in new : us[q] = Quick!NewTask(q[1])
      /\ \A q \in DOMAIN ts \ (new \cup {r}) : us[q] = ts[q]
      /\ r \notin new => us[r].at = "join"
  BY DEF ForkedTo
<1>5. \A q \in new : us[q].at # "join"
  BY <1>3, <1>4, NewTaskIs
<1> HIDE DEF new
<1>6. Active(us) = new \cup (Active(ts) \ {r})
  BY <1>1, <1>3, <1>4, <1>5 DEF Active
<1> QED  BY <1>1, <1>2, <1>6 DEF new

\* Two tasks of a fork, or one of them and a third.
LEMMA ForkedApart ==
  ASSUME NEW a, NEW ts, Sharing(a, ts), NEW r \in Active(ts), NEW us, ForkedTo(ts, r, us),
         r[1] <= ts[r].p, ts[r].p < r[2]
  PROVE  \A q, s \in Active(us) : q # s => Apart(q, s)
<1> DEFINE new == Quick!Ranges(Quick!Sides(r, ts[r].p))
<1>1. r \in Spans /\ ts[r].p \in Int /\ Active(us) = new \cup (Active(ts) \ {r})
  BY ForkedActive
<1>2. Active(ts) \subseteq Spans /\ \A q, s \in Active(ts) : q # s => Apart(q, s)
  BY DEF Sharing, Active
<1>3. /\ \A q \in new : \A s \in Spans : Apart(r, s) => Apart(q, s) /\ Apart(s, q)
      /\ \A q, s \in new : q # s => Apart(q, s)
  BY <1>1, SidesAre
<1> HIDE DEF new
<1>4. ASSUME NEW q \in new, NEW s \in Active(ts) \ {r}  PROVE Apart(q, s) /\ Apart(s, q)
  BY <1>2, <1>3
<1> QED  BY <1>1, <1>2, <1>3, <1>4

LEMMA ForkSharing ==
  ASSUME NEW a, NEW ts, Sharing(a, ts), NEW r \in Active(ts), NEW us, ForkedTo(ts, r, us),
         r[1] <= ts[r].p, ts[r].p < r[2]
  PROVE  /\ Sharing(a, us)
         /\ \A q \in Active(us) : \/ q \in Active(ts) \ {r} /\ Settled(a, q, us[q]) = Settled(a, q, ts[q])
                                  \/ q \in Quick!Ranges(Quick!Sides(r, ts[r].p)) /\ Settled(a, q, us[q]) = a
<1> DEFINE new == Quick!Ranges(Quick!Sides(r, ts[r].p))
<1>1. r \in Spans /\ ts[r].p \in Int /\ Active(us) = new \cup (Active(ts) \ {r})
  BY ForkedActive
<1>2. new \subseteq Spans
  BY <1>1, SidesAre
<1>3. /\ DOMAIN us = new \cup DOMAIN ts /\ us \in [DOMAIN us -> Locals]
      /\ \A q \in new : us[q] = Quick!NewTask(q[1])
      /\ \A q \in DOMAIN ts \ (new \cup {r}) : us[q] = ts[q]
  BY DEF ForkedTo
<1>4. ASSUME NEW q \in Active(us)
      PROVE  /\ Local(a, q, us[q])
             /\ \/ q \in Active(ts) \ {r} /\ Settled(a, q, us[q]) = Settled(a, q, ts[q])
                \/ q \in new /\ Settled(a, q, us[q]) = a
  <2>1. CASE q \in new
    BY <1>2, <1>3, <2>1, NewTaskIs
  <2>2. CASE q \notin new
    <3>1. q \in Active(ts) \ {r} /\ us[q] = ts[q]
      BY <1>1, <1>3, <2>2 DEF Active
    <3> QED  BY <3>1 DEF Sharing
  <2> QED  BY <2>1, <2>2
<1>5. \A q, s \in Active(us) : q # s => Apart(q, s)
  BY ForkedApart
<1>6. DOMAIN us \subseteq Spans /\ a \in Arrays
  BY <1>2, <1>3 DEF Sharing
<1>7. Sharing(a, us)
  BY <1>3, <1>4, <1>5, <1>6 DEF Sharing
<1> QED  BY <1>4, <1>7

LEMMA ForkShows ==
  ASSUME NEW a, NEW ts, Sharing(a, ts), NEW r \in Active(ts), NEW us, ForkedTo(ts, r, us),
         r[1] <= ts[r].p, ts[r].p < r[2], ts[r].swap # 2, NEW w, Shows(w, a, ts)
  PROVE  Shows(w, a, us)
<1> DEFINE new == Quick!Ranges(Quick!Sides(r, ts[r].p))
<1>1. r \in Spans /\ ts[r].p \in Int /\ Active(us) = new \cup (Active(ts) \ {r})
  BY ForkedActive
<1>2. Agree(a, w, r[1], r[2]) /\ w \in Arrays
  BY DEF Shows, Settled
<1>3. ASSUME NEW q \in Active(us)  PROVE Agree(Settled(a, q, us[q]), w, q[1], q[2])
  <2>1. CASE q \in Active(ts) \ {r} /\ Settled(a, q, us[q]) = Settled(a, q, ts[q])
    BY <2>1 DEF Shows
  <2>2. CASE q \in new /\ Settled(a, q, us[q]) = a
    <3>1. ASSUME NEW k \in Cells, q[1] <= k, k < q[2]  PROVE w[k] = a[k]
      <4>1. k \in Int /\ Within(q, k)
        BY <3>1 DEF Within, Cells
      <4>2. Within(r, k)
        BY <1>1, <2>2, <4>1, SidesAre
      <4> QED  BY <1>2, <4>2 DEF Agree, Within
    <3> QED  BY <2>2, <3>1 DEF Agree
  <2> QED  BY <2>1, <2>2, ForkSharing
<1>4. ASSUME NEW k \in Cells, \A q \in Active(us) : ~Within(q, k)  PROVE w[k] = a[k]
  <2>1. CASE Within(r, k)
    BY <1>2, <2>1 DEF Agree, Within
  <2>2. CASE ~Within(r, k)
    <3>1. \A q \in Active(ts) : ~Within(q, k)
      BY <1>1, <1>4, <2>2
    <3> QED  BY <3>1 DEF Shows
  <2> QED  BY <2>1, <2>2
<1> QED  BY <1>2, <1>3, <1>4 DEF Shows

LEMMA ForkOrdered ==
  ASSUME NEW a, NEW ts, Sharing(a, ts), NEW r \in Active(ts), NEW us, ForkedTo(ts, r, us),
         NEW w \in Arrays, Parted(w, r[1], r[2], ts[r].p), Ordered(w, Active(ts))
  PROVE  Ordered(w, Active(us))
<1> DEFINE new == Quick!Ranges(Quick!Sides(r, ts[r].p))
           p == ts[r].p
<1>1. r[1] <= p /\ p < r[2]
  BY DEF Parted
<1>2. r \in Spans /\ p \in Int /\ Active(us) = new \cup (Active(ts) \ {r})
  BY <1>1, ForkedActive
<1>3. p \in Cells
  BY <1>1, <1>2, SpanIs, CellIs
<1> HIDE DEF p
<1>4. ASSUME NEW k \in Cells, NEW l \in Cells, k < l, Within(r, k), Within(r, l)
      PROVE  w[k] <= w[l] \/ \E q \in new : Within(q, k) /\ Within(q, l)
  <2>1. k \in Int /\ l \in Int /\ w[k] \in Int /\ w[l] \in Int /\ w[p] \in Int
    BY <1>3, ElementIs
  <2>2. CASE l < p \/ p < k
    BY <1>1, <1>2, <1>4, <2>1, <2>2, SidesAre DEF p
  <2>3. CASE k <= p /\ p <= l
    <3>1. w[k] <= w[p]
      <4>1. CASE k = p
        BY <2>1, <4>1
      <4>2. CASE k # p
        <5>1. k < p
          BY <1>2, <2>1, <2>3, <4>2
        <5> QED  BY <1>4, <5>1 DEF Parted, Within, p
      <4> QED  BY <4>1, <4>2
    <3>2. w[p] <= w[l]
      <4>1. CASE l = p
        BY <2>1, <4>1
      <4>2. CASE l # p
        <5>1. p < l
          BY <1>2, <2>1, <2>3, <4>2
        <5> QED  BY <1>4, <5>1 DEF Parted, Within, p
      <4> QED  BY <4>1, <4>2
    <3> QED  BY <2>1, <3>1, <3>2
  <2> QED  BY <1>2, <2>1, <2>2, <2>3
<1> HIDE DEF new
<1> QED  BY <1>2, <1>4 DEF Ordered

LEMMA ForkSorts ==
  ASSUME NEW inp, Sorting(array, tasks, inp), NEW r \in DOMAIN tasks, Quick!Fork(r)
  PROVE  Sorting(array', tasks', inp) /\ array' = array
<1> DEFINE t == tasks[r]
           new == Quick!NewTasks(Quick!Sides(r, tasks[r].p))
           old == [tasks EXCEPT ![r].at = "join"]
           S == Quick!Ranges(Quick!Sides(r, tasks[r].p))
<1>1. /\ t.at = "fork" /\ array' = array
      /\ tasks' = [q \in DOMAIN new \cup DOMAIN old |-> IF q \in DOMAIN new THEN new[q] ELSE old[q]]
  BY DEF Quick!Fork
<1>2. /\ r \in Active(tasks) /\ r \in Spans /\ array \in Arrays /\ t \in Locals /\ Local(array, r, t)
      /\ t.swap = 0
  BY <1>1, AtWork DEF Swaps
<1>3. Parted(array, r[1], r[2], t.p) /\ r[1] <= t.p /\ t.p < r[2] /\ t.p \in Int
  BY <1>1, <1>2, LocalTypes DEF Local, AtRest, Parted
<1>4. DOMAIN new = S /\ \A q \in S : new[q] = Quick!NewTask(q[1])
  BY DEF Quick!NewTasks
<1>5. Sharing(array, tasks)
  BY DEF Sorting
<1>6. DOMAIN old = DOMAIN tasks /\ old \in [DOMAIN tasks -> Locals] /\ old[r].at = "join" /\ \A q \in DOMAIN tasks \ {r} : old[q] = tasks[q]
  <2> DEFINE s == [t EXCEPT !.at = "join"]
  <2>1. s \in Locals /\ s.at = "join"
    BY <1>2 DEF Locals
  <2>2. old = [tasks EXCEPT ![r] = s]
    OBVIOUS
  <2>3. tasks \in [DOMAIN tasks -> Locals]
    BY <1>5 DEF Sharing
  <2> HIDE DEF s
  <2> QED  BY <2>1, <2>2, <2>3
<1>7. S \subseteq Spans
  BY <1>2, <1>3, SidesAre
<1>8. ASSUME NEW q \in S  PROVE new[q] \in Locals
  BY <1>4, <1>7, NewTaskIs
<1> HIDE DEF new, old, S
<1>9. /\ DOMAIN tasks' = S \cup DOMAIN tasks /\ tasks' \in [DOMAIN tasks' -> Locals]
      /\ \A q \in S : tasks'[q] = new[q]
      /\ \A q \in DOMAIN tasks \ S : tasks'[q] = old[q]
  BY <1>1, <1>4, <1>6, <1>8
<1>10. ForkedTo(tasks, r, tasks')
  BY <1>4, <1>6, <1>9 DEF ForkedTo, S
<1>11. Sharing(array, tasks')
  BY <1>2, <1>3, <1>5, <1>10, ForkSharing
<1>12. PICK w : Shows(w, array, tasks) /\ Ordered(w, Active(tasks)) /\ Permuted(w, inp)
  BY DEF Sorting, Halfway
<1>13. t.swap # 2
  BY <1>2
<1>14. Shows(w, array, tasks')
  BY <1>2, <1>3, <1>5, <1>10, <1>12, <1>13, ForkShows
<1>15. w \in Arrays /\ Parted(w, r[1], r[2], t.p)
  <2>1. w \in Arrays /\ Agree(array, w, r[1], r[2])
    BY <1>2, <1>12, <1>13 DEF Shows, Settled
  <2> QED  BY <1>2, <1>3, <2>1, SpanIs, PartedFrame
<1>16. Ordered(w, Active(tasks'))
  BY <1>2, <1>5, <1>10, <1>12, <1>15, ForkOrdered
<1>17. Halfway(array, tasks', inp)
  BY <1>12, <1>14, <1>16 DEF Halfway
<1> QED  BY <1>1, <1>11, <1>17 DEF Sorting

\* ... and both are joined.
LEMMA JoinSorts ==
  ASSUME NEW inp, Sorting(array, tasks, inp), NEW r \in DOMAIN tasks, Quick!Join(r)
  PROVE  Sorting(array', tasks', inp) /\ array' = array
<1>1. /\ tasks[r].at = "join" /\ array' = array
      /\ tasks' = [q \in DOMAIN tasks \ {r} |-> tasks[q]]
  BY DEF Quick!Join, Quick!Restrict
<1>2. DOMAIN tasks' = DOMAIN tasks \ {r} /\ \A q \in DOMAIN tasks' : tasks'[q] = tasks[q]
  BY <1>1
<1>3. Sharing(array, tasks)
  BY DEF Sorting
<1>4. Active(tasks') = Active(tasks) /\ \A q \in Active(tasks) : tasks'[q] = tasks[q]
  BY <1>1, <1>2 DEF Active
<1>5. tasks' \in [DOMAIN tasks' -> Locals]
  BY <1>1, <1>3 DEF Sharing
<1>6. Sharing(array, tasks')
  BY <1>2, <1>3, <1>4, <1>5 DEF Sharing
<1>7. PICK w : Shows(w, array, tasks) /\ Ordered(w, Active(tasks)) /\ Permuted(w, inp)
  BY DEF Sorting, Halfway
<1>8. Shows(w, array, tasks')
  BY <1>4, <1>7 DEF Shows
<1>9. Halfway(array, tasks', inp)
  BY <1>4, <1>7, <1>8 DEF Halfway
<1> QED  BY <1>1, <1>6, <1>9 DEF Sorting
-----------------------------------------------------------------------------
(* Quicksort: the program. *)

LEMMA NoWrite ==
  ASSUME array' = array
  PROVE  Quick!StaysInRange
  BY DEF Quick!StaysInRange

LEMMA WritesInside ==
  ASSUME NEW inp, Sorting(array, tasks, inp), NEW r, Turned(array, tasks, r, array', tasks', inp)
  PROVE  Quick!StaysInRange
<1>1. PICK u : TurnsTo(array, tasks, r, array', u, tasks')
  BY DEF Turned
<1>2. r \in Active(tasks) /\ Sharing(array, tasks)
  BY DEF Turned, Sorting
<1>3. DOMAIN tasks' = DOMAIN tasks /\ \A q \in DOMAIN tasks \ {r} : tasks'[q] = tasks[q]
  BY <1>1, <1>2, TurnsFacts
<1>4. \A k \in Cells : ~Within(r, k) => array'[k] = array[k]
  BY <1>1 DEF TurnsTo
<1> QED  BY <1>3, <1>4 DEF Quick!StaysInRange, Quick!InRange, Quick!Index, Cells, Within

\* Every statement of every task.
LEMMA ComputeSorts ==
  ASSUME NEW inp, Sorting(array, tasks, inp), NEW r \in DOMAIN tasks, Quick!Compute(r)
  PROVE  Sorting(array', tasks', inp) /\ Quick!StaysInRange
<1>1. ASSUME Turned(array, tasks, r, array', tasks', inp)
      PROVE  Sorting(array', tasks', inp) /\ Quick!StaysInRange
  BY <1>1, WritesInside DEF Turned
<1>2. CASE Quick!Start(r)
  BY <1>1, <1>2, StartSorts
<1>3. CASE Quick!Scan(r)
  BY <1>1, <1>3, ScanSorts
<1>4. CASE Quick!SwapLoad(r)
  BY <1>1, <1>4, SwapLoadSorts
<1>5. CASE Quick!SwapMove(r)
  BY <1>1, <1>5, SwapMoveSorts
<1>6. CASE Quick!SwapStore(r)
  BY <1>1, <1>6, SwapStoreSorts
<1>7. CASE Quick!Select(r)
  BY <1>1, <1>7, SelectSorts
<1>8. CASE Quick!Fork(r)
  BY <1>8, ForkSorts, NoWrite
<1>9. CASE Quick!Join(r)
  BY <1>9, JoinSorts, NoWrite
<1> QED  BY <1>2, <1>3, <1>4, <1>5, <1>6, <1>7, <1>8, <1>9 DEF Quick!Compute

\* Before the first statement.
LEMMA FreshSorts ==
  ASSUME NEW inp \in [Cells -> Values], Quick!Fresh(inp)
  PROVE  Sorting(array, tasks, inp)
<1> DEFINE root == <<0, ARRAY_SIZE>>
           S == Quick!Ranges({root})
<1>1. array = inp /\ DOMAIN tasks = S /\ tasks = [r \in S |-> Quick!NewTask(r[1])]
  BY DEF Quick!Fresh, Quick!NewTasks
<1>2. array \in Arrays
  BY <1>1, QuickConstants DEF Arrays
<1>3. ASSUME NEW r \in S  PROVE r = root /\ r \in Spans
  <2>1. r = root /\ root[1] = 0 /\ root[2] = ARRAY_SIZE /\ ARRAY_SIZE - 0 >= 2
    BY DEF Quick!Ranges
  <2>2. root \in Int \X Int /\ 0 <= 0 /\ ARRAY_SIZE <= ARRAY_SIZE
    BY QuickConstants
  <2> QED  BY <2>1, <2>2 DEF Spans
<1> HIDE DEF S
<1>4. \A r \in S : tasks[r] = Quick!NewTask(r[1])
  BY <1>1
<1>5. \A r \in S : tasks[r] \in Locals /\ tasks[r].at # "join" /\ Local(array, r, tasks[r]) /\ Settled(array, r, tasks[r]) = array
  BY <1>3, <1>4, NewTaskIs
<1>6. Active(tasks) = S /\ tasks \in [S -> Locals]
  BY <1>1, <1>5 DEF Active
<1>7. Sharing(array, tasks)
  BY <1>1, <1>2, <1>3, <1>5, <1>6 DEF Sharing
<1>8. Shows(array, array, tasks)
  BY <1>2, <1>5, <1>6 DEF Shows, Agree
<1>9. Ordered(array, Active(tasks))
  <2>1. ASSUME NEW k \in Cells, NEW l \in Cells, k < l  PROVE \E r \in S : Within(r, k) /\ Within(r, l)
    <3>1. k \in Int /\ l \in Int /\ 0 <= k /\ k < ARRAY_SIZE /\ 0 <= l /\ l < ARRAY_SIZE /\ ARRAY_SIZE - 0 >= 2
      BY <2>1, QuickConstants DEF Cells
    <3>2. root[1] = 0 /\ root[2] = ARRAY_SIZE
      OBVIOUS
    <3>3. root \in S
      BY <3>1, <3>2 DEF S, Quick!Ranges
    <3> QED  BY <3>1, <3>2, <3>3 DEF Within
  <2> QED  BY <1>6, <2>1 DEF Ordered
<1>10. Permuted(array, inp)
  <2> DEFINE pi == [k \in Cells |-> k]
  <2>1. Permutes(pi) /\ \A k \in Cells : array[k] = inp[pi[k]]
    BY <1>1 DEF Permutes
  <2> QED  BY <2>1 DEF Permuted
<1> QED  BY <1>7, <1>8, <1>9, <1>10 DEF Sorting, Halfway

\* A rearrangement has every number as often.
CountOf(w, v) == Cardinality({k \in Cells : w[k] = v})

LEMMA PermutedCounts ==
  ASSUME NEW w, NEW inp, Permuted(w, inp), NEW v
  PROVE  CountOf(w, v) = CountOf(inp, v)
<1> DEFINE S == {k \in Cells : w[k] = v}
           T == {k \in Cells : inp[k] = v}
<1>1. PICK pi : Permutes(pi) /\ \A k \in Cells : w[k] = inp[pi[k]]
  BY DEF Permuted
<1> DEFINE f == [k \in S |-> pi[k]]
<1>2. f \in [S -> T]
  BY <1>1 DEF Permutes
<1>3. \A k, l \in S : f[k] = f[l] => k = l
  BY <1>1 DEF Permutes
<1>4. \A l \in T : \E k \in S : f[k] = l
  BY SMTT(30), <1>1 DEF Permutes
<1>5. IsFiniteSet(S)
  <2>1. IsFiniteSet(Cells) /\ S \subseteq Cells
    BY QuickConstants, FS_Interval DEF Cells
  <2> QED  BY <2>1, FS_Subset
<1>6. ExistsBijection(S, T)
  <2> HIDE DEF S, T, f
  <2>1. f \in Bijection(S, T)
    BY <1>2, <1>3, <1>4 DEF Bijection, Injection, Surjection, IsInjective
  <2> QED  BY <2>1 DEF ExistsBijection
<1> HIDE DEF S, T
<1>7. Cardinality(T) = Cardinality(S)
  BY <1>5, <1>6, FS_Bijection
<1> QED  BY <1>7 DEF S, T, CountOf

\* When no task is left, the array is the input sorted.
LEMMA EndSorted ==
  ASSUME input \in [Cells -> Values], Sorting(array, tasks, input), DOMAIN tasks = {}
  PROVE  Sorted(array)
<1>1. PICK w : Shows(w, array, tasks) /\ Ordered(w, Active(tasks)) /\ Permuted(w, input)
  BY DEF Sorting, Halfway
<1>2. Active(tasks) = {} /\ array \in Arrays /\ w \in Arrays
  BY <1>1 DEF Active, Sorting, Sharing, Shows
<1>3. \A k \in Cells : w[k] = array[k]
  BY <1>1, <1>2 DEF Shows
<1>4. w = array
  BY <1>2, <1>3 DEF Arrays
<1>5. DOMAIN input = Cells
  OBVIOUS
<1>6. \A k, l \in Cells : k < l => array[k] <= array[l]
  BY <1>1, <1>2, <1>4 DEF Ordered
<1>7. \A v \in Values : Cardinality({k \in Cells : array[k] = v}) = Cardinality({k \in Cells : input[k] = v})
  <2>1. Permuted(array, input)
    BY <1>1, <1>4
  <2>2. \A v : CountOf(array, v) = CountOf(input, v)
    BY <2>1, PermutedCounts
  <2> QED  BY <2>2 DEF CountOf
<1> QED  BY <1>5, <1>6, <1>7 DEF Sorted

QuickInv == program = "Quicksort" => input \in [Cells -> Values] /\ Sorting(array, tasks, input)

LEMMA QuickInit == Init => QuickInv
<1> SUFFICES ASSUME Init, program = "Quicksort"
             PROVE  input \in [Cells -> Values] /\ Sorting(array, tasks, input)
  BY DEF QuickInv
<1>1. input \in Inputs /\ Quick!Fresh(input)
  BY DEF Init
<1>2. input \in [Cells -> Values]
  BY <1>1 DEF Inputs, Cells
<1> QED  BY <1>1, <1>2, FreshSorts

LEMMA QuickStep ==
  ASSUME QuickInv, [Next]_vars
  PROVE  QuickInv' /\ (program = "Quicksort" => Quick!StaysInRange)
<1>1. CASE program # "Quicksort"
  <2>1. program' = program
    BY DEF Next, Run, MultithreadSorting, Quicksort, Mergesort, SudokuChecker, AfterEnd, vars
  <2> QED  BY <1>1, <2>1 DEF QuickInv
<1>2. CASE program = "Quicksort"
  <2>1. input \in [Cells -> Values] /\ Sorting(array, tasks, input)
    BY <1>2 DEF QuickInv
  <2>2. Quicksort \/ UNCHANGED vars
    BY <1>2 DEF Next, Run, MultithreadSorting, Mergesort, SudokuChecker, AfterEnd
  <2>3. CASE Quicksort
    <3>1. program' = program /\ input' = input /\ Quick!Next
      BY <2>3 DEF Quicksort
    <3>2. PICK r \in DOMAIN tasks : Quick!Compute(r)
      BY <3>1 DEF Quick!Next
    <3>3. Sorting(array', tasks', input) /\ Quick!StaysInRange
      BY <2>1, <3>2, ComputeSorts
    <3> QED  BY <2>1, <3>1, <3>3 DEF QuickInv
  <2>4. CASE UNCHANGED vars
    <3>1. program' = program /\ input' = input /\ array' = array /\ tasks' = tasks
      BY <2>4 DEF vars
    <3> QED  BY <2>1, <3>1, NoWrite DEF QuickInv
  <2> QED  BY <2>2, <2>3, <2>4
<1> QED  BY <1>1, <1>2

\* Quicksort's tasks share the array without a lock; still, in every interleaving
\* and for every size, no step of a task changes a cell outside of its range.
THEOREM WritesStayInRange == Spec => TasksStayInRange
<1>1. Init => QuickInv
  BY QuickInit
<1>2. QuickInv /\ [Next]_vars => QuickInv'
  BY QuickStep
<1>3. QuickInv /\ [Next]_vars => [program = "Quicksort" => Quick!StaysInRange]_vars
  BY QuickStep
<1> QED  BY <1>1, <1>2, <1>3, PTL DEF Spec, TasksStayInRange

\* Quicksort, in every interleaving of its tasks, sorts every array of every size.
THEOREM QuicksortIsRight == Spec => []QuicksortSorts
<1>1. Init => QuickInv
  BY QuickInit
<1>2. QuickInv /\ [Next]_vars => QuickInv'
  BY QuickStep
<1>3. QuickInv => QuicksortSorts
  BY EndSorted DEF QuickInv, QuicksortSorts, Ended, Quick!Returned
<1> QED  BY <1>1, <1>2, <1>3, PTL DEF Spec
-----------------------------------------------------------------------------
(* Sequences of numbers: how often a number occurs, and what is in order. *)

CountIn(s, v) == Cardinality({k \in 1..Len(s) : s[k] = v})

Ascending(s) == \A k, l \in 1..Len(s) : k < l => s[k] <= s[l]

LEMMA JoinIs ==
  ASSUME NEW T, NEW s \in Seq(T), NEW t \in Seq(T)
  PROVE  /\ s \o t \in Seq(T) /\ Len(s \o t) = Len(s) + Len(t)
         /\ \A k \in 1..Len(s) : (s \o t)[k] = s[k]
         /\ \A k \in 1..Len(t) : (s \o t)[Len(s) + k] = t[k]
  OBVIOUS

LEMMA CountJoin ==
  ASSUME NEW T, NEW s \in Seq(T), NEW t \in Seq(T), NEW v
  PROVE  CountIn(s \o t, v) = CountIn(s, v) + CountIn(t, v) /\ CountIn(s, v) \in Nat
<1> DEFINE A == {k \in 1..Len(s) : s[k] = v}
           B == {k \in 1..Len(t) : t[k] = v}
           C == {k \in 1..Len(s \o t) : (s \o t)[k] = v}
           D == {Len(s) + k : k \in B}
           f == [k \in B |-> Len(s) + k]
<1>1. /\ Len(s) \in Nat /\ Len(t) \in Nat /\ Len(s \o t) = Len(s) + Len(t)
      /\ \A k \in 1..Len(s) : (s \o t)[k] = s[k]
      /\ \A k \in 1..Len(t) : (s \o t)[Len(s) + k] = t[k]
  OBVIOUS
<1>2. IsFiniteSet(A) /\ IsFiniteSet(B)
  <2>1. IsFiniteSet(1..Len(s)) /\ IsFiniteSet(1..Len(t))
    BY <1>1, FS_Interval
  <2>2. A \in SUBSET (1..Len(s)) /\ B \in SUBSET (1..Len(t))
    OBVIOUS
  <2> HIDE DEF A, B
  <2> QED  BY <2>1, <2>2, FS_Subset
<1>3. C = A \cup D
  <2>1. ASSUME NEW k \in C  PROVE k \in A \cup D
    <3>1. k \in 1..(Len(s) + Len(t)) /\ (s \o t)[k] = v
      BY <1>1
    <3>2. CASE k <= Len(s)
      <4>1. k \in 1..Len(s)
        BY <1>1, <3>1, <3>2
      <4> QED  BY <1>1, <3>1, <4>1
    <3>3. CASE k > Len(s)
      <4>1. k - Len(s) \in 1..Len(t) /\ Len(s) + (k - Len(s)) = k
        BY <1>1, <3>1, <3>3
      <4>2. t[k - Len(s)] = v
        BY <1>1, <3>1, <4>1
      <4>3. k - Len(s) \in B
        BY <4>1, <4>2
      <4> QED  BY <4>1, <4>3
    <3> QED  BY <1>1, <3>1, <3>2, <3>3
  <2>2. ASSUME NEW k \in A  PROVE k \in C
    BY <1>1
  <2>3. ASSUME NEW k \in B  PROVE Len(s) + k \in C
    BY <1>1
  <2> HIDE DEF A, B, C
  <2> QED  BY <2>1, <2>2, <2>3
<1>4. A \cap D = {}
  <2>1. ASSUME NEW k \in B  PROVE Len(s) + k \notin A
    BY <1>1
  <2> HIDE DEF A, B
  <2> QED  BY <2>1
<1>5. ExistsBijection(B, D)
  <2>1. f \in [B -> D] /\ (\A r \in D : \E k \in B : f[k] = r)
    <3> HIDE DEF B
    <3> QED  OBVIOUS
  <2>2. \A k, l \in B : f[k] = f[l] => k = l
    BY <1>1
  <2> HIDE DEF f, B, D
  <2>3. f \in Bijection(B, D)
    BY <2>1, <2>2 DEF Bijection, Injection, Surjection, IsInjective
  <2> QED  BY <2>3 DEF ExistsBijection
<1> HIDE DEF A, B, C, D
<1>6. IsFiniteSet(D) /\ Cardinality(D) = Cardinality(B)
  BY <1>2, <1>5, FS_Bijection
<1>7. Cardinality(A \cup D) = Cardinality(A) + Cardinality(D) - Cardinality(A \cap D)
  BY <1>2, <1>6, FS_Union
<1>8. Cardinality({}) = 0 /\ Cardinality(A) \in Nat /\ Cardinality(B) \in Nat
  BY <1>2, FS_EmptySet, FS_CardinalityType
<1>9. Cardinality(C) = Cardinality(A) + Cardinality(B)
  <2>1. Cardinality(C) = Cardinality(A) + Cardinality(B) - 0
    BY <1>3, <1>4, <1>6, <1>7, <1>8
  <2> QED  BY <1>8, <2>1
<1>10. CountIn(s, v) = Cardinality(A) /\ CountIn(t, v) = Cardinality(B) /\ CountIn(s \o t, v) = Cardinality(C)
  BY DEF CountIn, A, B, C
<1> QED  BY <1>8, <1>9, <1>10

LEMMA CountFirst ==
  ASSUME NEW T, NEW x \in T, NEW s \in Seq(T), NEW v
  PROVE  CountIn(<<x>> \o s, v) = (IF x = v THEN 1 ELSE 0) + CountIn(s, v) /\ CountIn(s, v) \in Nat
<1>1. <<x>> \in Seq(T) /\ Len(<<x>>) = 1 /\ <<x>>[1] = x
  OBVIOUS
<1>2. CountIn(<<x>> \o s, v) = CountIn(<<x>>, v) + CountIn(s, v) /\ CountIn(s, v) \in Nat
  BY <1>1, CountJoin
<1>3. {k \in 1..Len(<<x>>) : <<x>>[k] = v} = IF x = v THEN {1} ELSE {}
  BY <1>1
<1>4. CountIn(<<x>>, v) = IF x = v THEN 1 ELSE 0
  BY <1>3, FS_Singleton, FS_EmptySet DEF CountIn
<1> DEFINE c == CountIn(s, v)
           d == CountIn(<<x>>, v)
<1>5. CountIn(<<x>> \o s, v) = d + c /\ c \in Nat /\ (x = v => d = 1) /\ (x # v => d = 0)
  BY <1>2, <1>4
<1> HIDE DEF c, d
<1>6. CountIn(<<x>> \o s, v) = (IF x = v THEN 1 ELSE 0) + c
  BY <1>5
<1> QED  BY <1>5, <1>6 DEF c

\* What an element put in front does to a sequence.
LEMMA PushIs ==
  ASSUME NEW x \in Int, NEW s \in Seq(Int)
  PROVE  /\ <<x>> \o s \in Seq(Int) /\ Len(<<x>> \o s) = Len(s) + 1 /\ (<<x>> \o s)[1] = x
         /\ \A k \in 1..Len(s) : (<<x>> \o s)[k+1] = s[k]
         /\ \A k \in 2..(Len(s) + 1) : k - 1 \in 1..Len(s) /\ (<<x>> \o s)[k] = s[k-1]
<1>1. <<x>> \in Seq(Int) /\ Len(<<x>>) = 1 /\ <<x>>[1] = x
  OBVIOUS
<1>2. <<x>> \o s \in Seq(Int) /\ Len(<<x>> \o s) = Len(s) + 1 /\ (<<x>> \o s)[1] = x
  BY <1>1
<1>3. \A k \in 1..Len(s) : (<<x>> \o s)[1 + k] = s[k] /\ 1 + k = k + 1
  BY <1>1
<1>4. ASSUME NEW k \in 2..(Len(s) + 1)  PROVE k - 1 \in 1..Len(s) /\ (<<x>> \o s)[k] = s[k-1]
  <2>1. k - 1 \in 1..Len(s) /\ 1 + (k - 1) = k
    OBVIOUS
  <2> QED  BY <1>3, <2>1
<1> QED  BY <1>2, <1>3, <1>4

LEMMA AscendingPush ==
  ASSUME NEW x \in Int, NEW s \in Seq(Int), Ascending(s), \A k \in 1..Len(s) : x <= s[k]
  PROVE  Ascending(<<x>> \o s)
<1> DEFINE t == <<x>> \o s
<1>1. /\ Len(t) = Len(s) + 1 /\ t[1] = x
      /\ \A k \in 2..(Len(s) + 1) : k - 1 \in 1..Len(s) /\ t[k] = s[k-1]
  BY PushIs
<1> HIDE DEF t
<1>2. ASSUME NEW k \in 1..(Len(s) + 1), NEW l \in 1..(Len(s) + 1), k < l  PROVE t[k] <= t[l]
  <2>1. l \in 2..(Len(s) + 1)
    BY <1>2
  <2>2. l - 1 \in 1..Len(s) /\ t[l] = s[l-1]
    BY <1>1, <2>1
  <2>3. CASE k = 1
    BY <1>1, <2>2, <2>3
  <2>4. CASE k # 1
    <3>1. k \in 2..(Len(s) + 1) /\ k - 1 < l - 1
      BY <1>2, <2>4
    <3>2. k - 1 \in 1..Len(s) /\ t[k] = s[k-1]
      BY <1>1, <3>1
    <3> QED  BY <2>2, <3>1, <3>2 DEF Ascending
  <2> QED  BY <2>3, <2>4
<1> QED  BY <1>1, <1>2 DEF Ascending, t

\* The part of a sequence from i on.
From(s, i) == SubSeq(s, i, Len(s))

LEMMA FromIs ==
  ASSUME NEW T, NEW s \in Seq(T), NEW i \in 1..(Len(s) + 1)
  PROVE  /\ From(s, i) \in Seq(T) /\ Len(From(s, i)) = Len(s) + 1 - i
         /\ \A k \in 1..(Len(s) + 1 - i) : i + k - 1 \in i..Len(s) /\ From(s, i)[k] = s[i+k-1]
         /\ i <= Len(s) => s[i] \in T /\ From(s, i) = <<s[i]>> \o From(s, i + 1)
<1>1. /\ From(s, i) \in Seq(T) /\ Len(From(s, i)) = Len(s) + 1 - i
      /\ \A k \in 1..(Len(s) + 1 - i) : i + k - 1 \in i..Len(s) /\ From(s, i)[k] = s[i+k-1]
  BY DEF From
<1>2. ASSUME i <= Len(s)  PROVE s[i] \in T /\ From(s, i) = <<s[i]>> \o From(s, i + 1)
  <2> DEFINE r == From(s, i + 1)
  <2>1. s[i] \in T /\ i + 1 \in 1..(Len(s) + 1) /\ Len(s) \in Nat
    BY <1>2
  <2>2. /\ r \in Seq(T) /\ Len(r) = Len(s) - i
        /\ \A k \in 1..(Len(s) - i) : r[k] = s[i+k]
    BY <1>2, <2>1 DEF From
  <2> HIDE DEF r
  <2>3. <<s[i]>> \in Seq(T) /\ Len(<<s[i]>>) = 1 /\ <<s[i]>>[1] = s[i]
    BY <2>1
  <2>4. /\ <<s[i]>> \o r \in Seq(T) /\ Len(<<s[i]>> \o r) = Len(s) + 1 - i
        /\ (<<s[i]>> \o r)[1] = s[i]
    BY <2>1, <2>2, <2>3
  <2>5. \A k \in 1..Len(r) : (<<s[i]>> \o r)[1+k] = r[k]
    BY <2>2, <2>3
  <2>6. ASSUME NEW k \in 1..(Len(s) + 1 - i)  PROVE From(s, i)[k] = (<<s[i]>> \o r)[k]
    <3>1. CASE k = 1
      BY <1>1, <2>1, <2>4, <3>1
    <3>2. CASE k # 1
      <4>1. k - 1 \in 1..Len(r) /\ 1 + (k - 1) = k /\ i + (k - 1) = i + k - 1
        BY <2>1, <2>2, <3>2
      <4>2. (<<s[i]>> \o r)[1 + (k-1)] = r[k-1] /\ r[k-1] = s[i+(k-1)]
        BY <2>2, <2>5, <4>1
      <4> QED  BY <1>1, <4>1, <4>2
    <3> QED  BY <3>1, <3>2
  <2>7. From(s, i) = <<s[i]>> \o r
    <3> DEFINE p == From(s, i)
               q == <<s[i]>> \o r
    <3>1. p \in Seq(T) /\ q \in Seq(T) /\ Len(p) = Len(q) /\ \A k \in 1..Len(p) : p[k] = q[k]
      BY <1>1, <2>4, <2>6
    <3> HIDE DEF p, q
    <3>2. p = q
      BY <3>1
    <3> QED  BY <3>2 DEF p, q
  <2> QED  BY <2>1, <2>7 DEF r
<1> QED  BY <1>1, <1>2

-----------------------------------------------------------------------------
(* Mergesort: merge(). *)

\* r is what is left to append when the loops have come to places i and j.
Merged(s1, s2, i, j, r) ==
  /\ r \in Seq(Int) /\ Len(r) = (Len(s1) + 1 - i) + (Len(s2) + 1 - j) /\ Ascending(r)
  /\ \A k \in 1..Len(r) : (\E m \in i..Len(s1) : r[k] = s1[m]) \/ \E m \in j..Len(s2) : r[k] = s2[m]
  /\ \A v : CountIn(r, v) = CountIn(From(s1, i), v) + CountIn(From(s2, j), v)

LEMMA MergedSwap ==
  ASSUME NEW s1 \in Seq(Int), NEW s2 \in Seq(Int),
         NEW i \in 1..(Len(s1) + 1), NEW j \in 1..(Len(s2) + 1), NEW r, Merged(s1, s2, i, j, r)
  PROVE  Merged(s2, s1, j, i, r)
<1>1. ASSUME NEW v  PROVE CountIn(r, v) = CountIn(From(s2, j), v) + CountIn(From(s1, i), v)
  <2>1. From(s1, i) \in Seq(Int) /\ From(s2, j) \in Seq(Int)
    BY FromIs
  <2>2. CountIn(From(s1, i), v) \in Nat /\ CountIn(From(s2, j), v) \in Nat
    BY <2>1, CountJoin
  <2> QED  BY <2>2 DEF Merged
<1>2. Len(r) = (Len(s2) + 1 - j) + (Len(s1) + 1 - i)
  BY DEF Merged
<1> QED  BY <1>1, <1>2 DEF Merged

\* One of the two is used up.
LEMMA MergedEnd ==
  ASSUME NEW s1 \in Seq(Int), NEW s2 \in Seq(Int), Ascending(s1), Ascending(s2),
         NEW i \in 1..(Len(s1) + 1), NEW j \in 1..(Len(s2) + 1), i > Len(s1) \/ j > Len(s2)
  PROVE  Merged(s1, s2, i, j, From(s1, i) \o From(s2, j))
<1> DEFINE a == From(s1, i)
           b == From(s2, j)
<1>1. /\ a \in Seq(Int) /\ Len(a) = Len(s1) + 1 - i
      /\ \A k \in 1..(Len(s1) + 1 - i) : i + k - 1 \in i..Len(s1) /\ a[k] = s1[i+k-1]
  BY FromIs
<1>2. /\ b \in Seq(Int) /\ Len(b) = Len(s2) + 1 - j
      /\ \A k \in 1..(Len(s2) + 1 - j) : j + k - 1 \in j..Len(s2) /\ b[k] = s2[j+k-1]
  BY FromIs
<1> HIDE DEF a, b
<1>0. Len(s1) \in Nat /\ Len(s2) \in Nat /\ Len(a) \in Nat /\ Len(b) \in Nat
  BY <1>1, <1>2
<1>3. a \o b \in Seq(Int) /\ Len(a \o b) = (Len(s1) + 1 - i) + (Len(s2) + 1 - j)
  <2>1. a \in Seq(Int) /\ b \in Seq(Int) /\ Len(a) = Len(s1) + 1 - i /\ Len(b) = Len(s2) + 1 - j
    BY <1>1, <1>2
  <2>2. a \o b \in Seq(Int) /\ Len(a \o b) = Len(a) + Len(b)
    BY <2>1, JoinIs
  <2> QED  BY <2>1, <2>2
<1>4. \A v : CountIn(a \o b, v) = CountIn(a, v) + CountIn(b, v)
  BY <1>1, <1>2, CountJoin
<1>5. Ascending(a)
  <2>1. ASSUME NEW k \in 1..Len(a), NEW l \in 1..Len(a), k < l  PROVE a[k] <= a[l]
    <3>1. a[k] = s1[i+k-1] /\ a[l] = s1[i+l-1] /\ i + k - 1 \in 1..Len(s1) /\ i + l - 1 \in 1..Len(s1)
      BY <1>1
    <3>2. i + k - 1 < i + l - 1
      BY <2>1
    <3> QED  BY <3>1, <3>2 DEF Ascending
  <2> QED  BY <2>1 DEF Ascending
<1>6. Ascending(b)
  <2>1. ASSUME NEW k \in 1..Len(b), NEW l \in 1..Len(b), k < l  PROVE b[k] <= b[l]
    <3>1. b[k] = s2[j+k-1] /\ b[l] = s2[j+l-1] /\ j + k - 1 \in 1..Len(s2) /\ j + l - 1 \in 1..Len(s2)
      BY <1>2
    <3>2. j + k - 1 < j + l - 1
      BY <2>1
    <3> QED  BY <3>1, <3>2 DEF Ascending
  <2> QED  BY <2>1 DEF Ascending
<1>7. a \o b = a \/ a \o b = b
  <2>1. Len(a) = 0 \/ Len(b) = 0
    BY SMTT(30), <1>0, <1>1, <1>2
  <2>2. a \in Seq(Int) /\ b \in Seq(Int)
    BY <1>1, <1>2
  <2>3. (Len(a) = 0 => a = <<>>) /\ (Len(b) = 0 => b = <<>>)
    BY <2>2
  <2>4. <<>> \o b = b /\ a \o <<>> = a
    BY <2>2
  <2> QED  BY <2>1, <2>3, <2>4
<1>8. CASE a \o b = a
  <2>1. \A k \in 1..Len(a) : \E m \in i..Len(s1) : a[k] = s1[m]
    BY <1>1
  <2> QED  BY <1>3, <1>4, <1>5, <1>8, <2>1 DEF Merged, a, b
<1>9. CASE a \o b = b
  <2>1. \A k \in 1..Len(b) : \E m \in j..Len(s2) : b[k] = s2[m]
    BY <1>2
  <2> QED  BY <1>3, <1>4, <1>6, <1>9, <2>1 DEF Merged, a, b
<1> QED  BY <1>7, <1>8, <1>9 DEF a, b

\* The element of the first is not larger.
LEMMA MergedFirst ==
  ASSUME NEW s1 \in Seq(Int), NEW s2 \in Seq(Int), Ascending(s1), Ascending(s2),
         NEW i \in 1..Len(s1), NEW j \in 1..Len(s2), s1[i] <= s2[j],
         NEW r, Merged(s1, s2, i + 1, j, r)
  PROVE  Merged(s1, s2, i, j, <<s1[i]>> \o r)
<1> DEFINE x == s1[i]
           t == <<x>> \o r
<1>1. x \in Int /\ r \in Seq(Int) /\ Len(r) = (Len(s1) + 1 - (i + 1)) + (Len(s2) + 1 - j) /\ Ascending(r)
  BY DEF Merged
<1>2. /\ t \in Seq(Int) /\ Len(t) = Len(r) + 1 /\ t[1] = x
      /\ \A k \in 2..(Len(r) + 1) : k - 1 \in 1..Len(r) /\ t[k] = r[k-1]
  BY <1>1, PushIs
<1>3. \A k \in 1..Len(r) : (\E m \in (i+1)..Len(s1) : r[k] = s1[m]) \/ \E m \in j..Len(s2) : r[k] = s2[m]
  BY DEF Merged
<1>4. ASSUME NEW k \in 1..Len(r)  PROVE x <= r[k]
  <2>1. CASE \E m \in (i+1)..Len(s1) : r[k] = s1[m]
    <3>1. PICK m \in (i+1)..Len(s1) : r[k] = s1[m]
      BY <2>1
    <3>2. m \in 1..Len(s1) /\ i < m
      OBVIOUS
    <3> QED  BY <3>1, <3>2 DEF Ascending
  <2>2. CASE \E m \in j..Len(s2) : r[k] = s2[m]
    <3>1. PICK m \in j..Len(s2) : r[k] = s2[m]
      BY <2>2
    <3>2. m \in 1..Len(s2) /\ (j < m \/ j = m) /\ s2[m] \in Int /\ s2[j] \in Int
      OBVIOUS
    <3>3. s2[j] <= s2[m]
      BY <3>2 DEF Ascending
    <3>4. x <= s2[m]
      <4>1. x <= s2[j]
        OBVIOUS
      <4> HIDE DEF x
      <4> QED  BY SMTT(30), <1>1, <3>2, <3>3, <4>1
    <3> QED  BY <3>1, <3>4
  <2> QED  BY <1>3, <2>1, <2>2
<1>5. Ascending(t)
  BY <1>1, <1>4, AscendingPush
<1>6. Len(t) = (Len(s1) + 1 - i) + (Len(s2) + 1 - j)
  <2>1. Len(r) = (Len(s1) + 1 - (i + 1)) + (Len(s2) + 1 - j) /\ Len(t) = Len(r) + 1
    BY <1>1, <1>2
  <2> HIDE DEF t, x
  <2>2. Len(s1) \in Int /\ Len(s2) \in Int
    OBVIOUS
  <2> QED  BY <2>1, <2>2
<1>7. ASSUME NEW k \in 1..Len(t)
      PROVE  (\E m \in i..Len(s1) : t[k] = s1[m]) \/ \E m \in j..Len(s2) : t[k] = s2[m]
  <2>1. CASE k = 1
    <3>1. i \in i..Len(s1)
      OBVIOUS
    <3> QED  BY <1>2, <2>1, <3>1
  <2>2. CASE k # 1
    <3>1. k \in 2..(Len(r) + 1)
      BY <1>2, <2>2
    <3>2. k - 1 \in 1..Len(r) /\ t[k] = r[k-1]
      BY <1>2, <3>1
    <3>3. (i+1)..Len(s1) \subseteq i..Len(s1)
      OBVIOUS
    <3> HIDE DEF t
    <3> QED  BY <1>3, <3>2, <3>3
  <2> QED  BY <2>1, <2>2
<1>8. ASSUME NEW v  PROVE CountIn(t, v) = CountIn(From(s1, i), v) + CountIn(From(s2, j), v)
  <2>1. i \in 1..(Len(s1) + 1) /\ i + 1 \in 1..(Len(s1) + 1) /\ j \in 1..(Len(s2) + 1) /\ i <= Len(s1)
    OBVIOUS
  <2>2. From(s1, i) = <<x>> \o From(s1, i + 1) /\ From(s1, i + 1) \in Seq(Int)
    BY <2>1, FromIs
  <2>3. From(s2, j) \in Seq(Int)
    BY <2>1, FromIs
  <2>4. CountIn(t, v) = (IF x = v THEN 1 ELSE 0) + CountIn(r, v)
    BY SMTT(30), <1>1, CountFirst
  <2>5. /\ CountIn(From(s1, i), v) = (IF x = v THEN 1 ELSE 0) + CountIn(From(s1, i + 1), v)
        /\ CountIn(From(s1, i + 1), v) \in Nat
    <3> DEFINE f == From(s1, i + 1)
    <3>1. f \in Seq(Int)
      BY <2>2
    <3> HIDE DEF f, x, t
    <3>2. CountIn(<<x>> \o f, v) = (IF x = v THEN 1 ELSE 0) + CountIn(f, v) /\ CountIn(f, v) \in Nat
      BY <1>1, <3>1, CountFirst
    <3> QED  BY <2>2, <3>2 DEF f
  <2>6. CountIn(From(s2, j), v) \in Nat
    BY <2>3, CountJoin
  <2>7. CountIn(r, v) = CountIn(From(s1, i + 1), v) + CountIn(From(s2, j), v)
    BY DEF Merged
  <2> DEFINE c == CountIn(From(s1, i + 1), v)
             d == CountIn(From(s2, j), v)
             e == IF x = v THEN 1 ELSE 0
  <2>8. e \in Int /\ c \in Int /\ d \in Int
    BY <2>5, <2>6
  <2>9. CountIn(t, v) = e + (c + d) /\ CountIn(From(s1, i), v) = e + c
    BY <2>4, <2>5, <2>7
  <2> HIDE DEF c, d, e, t
  <2> QED  BY <2>8, <2>9 DEF d
<1> HIDE DEF t
<1>9. Merged(s1, s2, i, j, t)
  BY <1>2, <1>5, <1>6, <1>7, <1>8 DEF Merged
<1> QED  BY <1>9 DEF t

\* One turn of the loops, with f for the turns to come.
MergeTurn(s1, s2, i, j, f) ==
  IF i > Len(s1) \/ j > Len(s2) THEN From(s1, i) \o From(s2, j)
  ELSE IF s1[i] <= s2[j] THEN <<s1[i]>> \o f[<<i+1, j>>] ELSE <<s2[j]>> \o f[<<i, j+1>>]

Places(s1, s2) == (1..(Len(s1) + 1)) \X (1..(Len(s2) + 1))
ToCome(s1, s2, i, j) == (Len(s1) + 1 - i) + (Len(s2) + 1 - j)

LEMMA PlaceIs ==
  ASSUME NEW s1 \in Seq(Int), NEW s2 \in Seq(Int),
         NEW i \in 1..(Len(s1) + 1), NEW j \in 1..(Len(s2) + 1)
  PROVE  /\ <<i, j>> \in Places(s1, s2) /\ ToCome(s1, s2, i, j) \in 0..(Len(s1) + Len(s2))
         /\ i <= Len(s1) => /\ i + 1 \in 1..(Len(s1) + 1) /\ <<i + 1, j>> \in Places(s1, s2)
                            /\ ToCome(s1, s2, i + 1, j) = ToCome(s1, s2, i, j) - 1 /\ s1[i] \in Int
         /\ j <= Len(s2) => /\ j + 1 \in 1..(Len(s2) + 1) /\ <<i, j + 1>> \in Places(s1, s2)
                            /\ ToCome(s1, s2, i, j + 1) = ToCome(s1, s2, i, j) - 1 /\ s2[j] \in Int
         /\ ToCome(s1, s2, i, j) = 0 => i > Len(s1)
<1> DEFINE m == Len(s1)
           n == Len(s2)
<1>1. m \in Nat /\ n \in Nat /\ i \in Int /\ j \in Int
  OBVIOUS
<1>2. /\ (m + 1 - i) + (n + 1 - j) \in 0..(m + n)
      /\ (m + 1 - (i + 1)) + (n + 1 - j) = ((m + 1 - i) + (n + 1 - j)) - 1
      /\ (m + 1 - i) + (n + 1 - (j + 1)) = ((m + 1 - i) + (n + 1 - j)) - 1
      /\ (m + 1 - i) + (n + 1 - j) = 0 => i > m
  <2> HIDE DEF m, n
  <2> QED  BY <1>1 DEF m, n
<1>3. i <= m => i + 1 \in 1..(m + 1) /\ s1[i] \in Int
  OBVIOUS
<1>4. j <= n => j + 1 \in 1..(n + 1) /\ s2[j] \in Int
  OBVIOUS
<1> QED  BY <1>2, <1>3, <1>4 DEF Places, ToCome

LEMMA TurnType ==
  ASSUME NEW s1 \in Seq(Int), NEW s2 \in Seq(Int),
         NEW i \in 1..(Len(s1) + 1), NEW j \in 1..(Len(s2) + 1),
         NEW f \in [Places(s1, s2) -> Seq(Int)]
  PROVE  MergeTurn(s1, s2, i, j, f) \in Seq(Int)
<1>1. Len(s1) \in Nat /\ Len(s2) \in Nat
  OBVIOUS
<1>2. CASE i > Len(s1) \/ j > Len(s2)
  <2>1. From(s1, i) \in Seq(Int) /\ From(s2, j) \in Seq(Int)
    BY FromIs
  <2>2. From(s1, i) \o From(s2, j) \in Seq(Int)
    BY <2>1, JoinIs
  <2> QED  BY <1>2, <2>2 DEF MergeTurn
<1>3. CASE i <= Len(s1) /\ j <= Len(s2)
  <2>1. /\ <<i + 1, j>> \in Places(s1, s2) /\ s1[i] \in Int
        /\ <<i, j + 1>> \in Places(s1, s2) /\ s2[j] \in Int
    BY <1>3, PlaceIs
  <2>2. f[<<i + 1, j>>] \in Seq(Int) /\ f[<<i, j + 1>>] \in Seq(Int)
    BY <2>1
  <2>3. <<s1[i]>> \o f[<<i + 1, j>>] \in Seq(Int) /\ <<s2[j]>> \o f[<<i, j + 1>>] \in Seq(Int)
    BY <2>1, <2>2, PushIs
  <2>4. ~(i > Len(s1) \/ j > Len(s2))
    BY <1>1, <1>3
  <2> QED  BY <2>3, <2>4 DEF MergeTurn
<1> QED  BY <1>1, <1>2, <1>3

AgreeLater(s1, s2, i, j, f, g) ==
  \A k \in 1..(Len(s1) + 1), l \in 1..(Len(s2) + 1) :
    ToCome(s1, s2, k, l) < ToCome(s1, s2, i, j) => f[<<k, l>>] = g[<<k, l>>]

LEMMA TurnBelow ==
  ASSUME NEW s1 \in Seq(Int), NEW s2 \in Seq(Int),
         NEW i \in 1..(Len(s1) + 1), NEW j \in 1..(Len(s2) + 1),
         NEW f, NEW g, AgreeLater(s1, s2, i, j, f, g)
  PROVE  MergeTurn(s1, s2, i, j, f) = MergeTurn(s1, s2, i, j, g)
<1>1. Len(s1) \in Nat /\ Len(s2) \in Nat
  OBVIOUS
<1>2. CASE i > Len(s1) \/ j > Len(s2)
  BY <1>2 DEF MergeTurn
<1>3. CASE i <= Len(s1) /\ j <= Len(s2)
  <2>1. /\ i + 1 \in 1..(Len(s1) + 1) /\ ToCome(s1, s2, i + 1, j) = ToCome(s1, s2, i, j) - 1
        /\ j + 1 \in 1..(Len(s2) + 1) /\ ToCome(s1, s2, i, j + 1) = ToCome(s1, s2, i, j) - 1
        /\ ToCome(s1, s2, i, j) \in 0..(Len(s1) + Len(s2))
    BY <1>3, PlaceIs
  <2>2. ToCome(s1, s2, i + 1, j) < ToCome(s1, s2, i, j) /\ ToCome(s1, s2, i, j + 1) < ToCome(s1, s2, i, j)
    BY <2>1
  <2>3. f[<<i + 1, j>>] = g[<<i + 1, j>>] /\ f[<<i, j + 1>>] = g[<<i, j + 1>>]
    BY <2>1, <2>2 DEF AgreeLater
  <2> QED  BY <2>3 DEF MergeTurn
<1> QED  BY <1>1, <1>2, <1>3

\* merge() is the result of its turns.
MergeTurns(s1, s2, g) ==
  \A i \in 1..(Len(s1) + 1), j \in 1..(Len(s2) + 1) : g[<<i, j>>] = MergeTurn(s1, s2, i, j, g)

LEMMA MergeDef ==
  ASSUME NEW s1 \in Seq(Int), NEW s2 \in Seq(Int)
  PROVE  \E g : MergeTurns(s1, s2, g) /\ Merging!merge(s1, s2) = g[<<1, 1>>]
<1> DEFINE P == Places(s1, s2)
           S == Seq(Int)
           B == Len(s1) + Len(s2)
           g == CHOOSE g : g = [p \in P |-> MergeTurn(s1, s2, p[1], p[2], g)]
           m == [p \in P |-> ToCome(s1, s2, p[1], p[2])]
           step == [p \in P |-> [f \in [P -> S] |-> MergeTurn(s1, s2, p[1], p[2], f)]]
<1>1. \A p \in P : p[1] \in 1..(Len(s1) + 1) /\ p[2] \in 1..(Len(s2) + 1) /\ p = <<p[1], p[2]>>
  BY DEF Places
<1>2. B \in Nat /\ <<>> \in S
  OBVIOUS
<1>3. m \in [P -> 0..B]
  BY <1>1, PlaceIs
<1>4. step \in [P -> [[P -> S] -> S]]
  BY <1>1, TurnType
<1>5. \A p \in P, f \in [P -> S] : step[p][f] = MergeTurn(s1, s2, p[1], p[2], f)
  OBVIOUS
<1>6. LooksBelow(P, S, m, step)
  <2>1. ASSUME NEW p \in P, NEW f \in [P -> S], NEW h \in [P -> S], \A q \in P : m[q] < m[p] => f[q] = h[q]
        PROVE  MergeTurn(s1, s2, p[1], p[2], f) = MergeTurn(s1, s2, p[1], p[2], h)
    <3>1. ASSUME NEW k \in 1..(Len(s1) + 1), NEW l \in 1..(Len(s2) + 1),
                 ToCome(s1, s2, k, l) < ToCome(s1, s2, p[1], p[2])
          PROVE  f[<<k, l>>] = h[<<k, l>>]
      <4>1. <<k, l>> \in P /\ <<k, l>>[1] = k /\ <<k, l>>[2] = l
        BY DEF Places
      <4>2. m[<<k, l>>] = ToCome(s1, s2, k, l) /\ m[p] = ToCome(s1, s2, p[1], p[2])
        BY <4>1
      <4> QED  BY <2>1, <3>1, <4>1, <4>2
    <3>2. p[1] \in 1..(Len(s1) + 1) /\ p[2] \in 1..(Len(s2) + 1)
      BY <1>1
    <3>3. AgreeLater(s1, s2, p[1], p[2], f, h)
      BY <3>1 DEF AgreeLater
    <3> HIDE DEF P, S, m
    <3> QED  BY <3>2, <3>3, TurnBelow
  <2> HIDE DEF P, S, m, step
  <2> SUFFICES ASSUME NEW p \in P, NEW f \in [P -> S], NEW h \in [P -> S], \A q \in P : m[q] < m[p] => f[q] = h[q]
               PROVE  step[p][f] = step[p][h]
    BY DEF LooksBelow
  <2>2. MergeTurn(s1, s2, p[1], p[2], f) = MergeTurn(s1, s2, p[1], p[2], h)
    BY <2>1
  <2> QED  BY <1>5, <2>2
<1>7. Merging!merge(s1, s2) = g[<<1, 1>>]
  BY DEF Merging!merge, Places, MergeTurn, From
<1> HIDE DEF P, S, B, m, step
<1>8. PICK f \in [P -> S] : \A p \in P : f[p] = step[p][f]
  <2>1. Measured(P, S, B, m, <<>>, step)
    BY <1>2, <1>3, <1>4, <1>6 DEF Measured
  <2> QED  BY <2>1, MeasureRecursion
<1>9. f = [p \in P |-> MergeTurn(s1, s2, p[1], p[2], f)]
  BY <1>5, <1>8
<1>10. g = [p \in P |-> MergeTurn(s1, s2, p[1], p[2], g)]
  BY <1>9
<1> HIDE DEF g
<1>11. ASSUME NEW i \in 1..(Len(s1) + 1), NEW j \in 1..(Len(s2) + 1)
       PROVE  g[<<i, j>>] = MergeTurn(s1, s2, i, j, g)
  <2>1. <<i, j>> \in P /\ <<i, j>>[1] = i /\ <<i, j>>[2] = j
    BY DEF P, Places
  <2>2. g[<<i, j>>] = MergeTurn(s1, s2, <<i, j>>[1], <<i, j>>[2], g)
    BY <1>10, <2>1
  <2> QED  BY <2>1, <2>2
<1> QED  BY <1>7, <1>11 DEF MergeTurns

\* merge() of two ascending arrays is ascending and holds the elements of both.
LEMMA MergeIs ==
  ASSUME NEW s1 \in Seq(Int), NEW s2 \in Seq(Int), Ascending(s1), Ascending(s2)
  PROVE  Merged(s1, s2, 1, 1, Merging!merge(s1, s2))
<1>1. PICK g : MergeTurns(s1, s2, g) /\ Merging!merge(s1, s2) = g[<<1, 1>>]
  BY MergeDef
<1>2. Len(s1) \in Nat /\ Len(s2) \in Nat
  OBVIOUS
<1> DEFINE I == 1..(Len(s1) + 1)
           J == 1..(Len(s2) + 1)
           B == Len(s1) + Len(s2)
           Good(n) == \A i \in I, j \in J : ToCome(s1, s2, i, j) <= n => Merged(s1, s2, i, j, g[<<i, j>>])
           A == {n \in 0..B : Good(n)}
<1>3. ASSUME NEW i \in I, NEW j \in J, i > Len(s1) \/ j > Len(s2)  PROVE Merged(s1, s2, i, j, g[<<i, j>>])
  <2>1. g[<<i, j>>] = From(s1, i) \o From(s2, j)
    BY <1>1, <1>3 DEF MergeTurns, MergeTurn
  <2> QED  BY <1>3, <2>1, MergedEnd
<1>4. 0 \in A
  <2>1. ASSUME NEW i \in I, NEW j \in J, ToCome(s1, s2, i, j) <= 0  PROVE i > Len(s1)
    <3>1. ToCome(s1, s2, i, j) \in 0..B
      BY PlaceIs
    <3>2. ToCome(s1, s2, i, j) = 0
      BY <1>2, <2>1, <3>1
    <3> QED  BY <3>2, PlaceIs
  <2> QED  BY <1>2, <1>3, <2>1
<1>5. ASSUME NEW n \in 1..B, n - 1 \in A  PROVE n \in A
  <2>1. Good(n - 1)
    BY <1>5
  <2>2. ASSUME NEW i \in I, NEW j \in J, ToCome(s1, s2, i, j) <= n, i <= Len(s1) /\ j <= Len(s2)
        PROVE  Merged(s1, s2, i, j, g[<<i, j>>])
    <3>1. i \in 1..Len(s1) /\ j \in 1..Len(s2) /\ i + 1 \in I /\ j + 1 \in J
      BY <2>2
    <3>2. ToCome(s1, s2, i + 1, j) <= n - 1 /\ ToCome(s1, s2, i, j + 1) <= n - 1
      <4>1. /\ ToCome(s1, s2, i + 1, j) = ToCome(s1, s2, i, j) - 1
            /\ ToCome(s1, s2, i, j + 1) = ToCome(s1, s2, i, j) - 1
        BY <2>2, PlaceIs
      <4>2. ToCome(s1, s2, i, j) \in 0..(Len(s1) + Len(s2))
        BY PlaceIs
      <4>3. ToCome(s1, s2, i, j) \in Int
        BY <4>2
      <4> QED  BY <2>2, <4>1, <4>3
    <3>3. Merged(s1, s2, i + 1, j, g[<<i + 1, j>>]) /\ Merged(s1, s2, i, j + 1, g[<<i, j + 1>>])
      BY <2>1, <3>1, <3>2
    <3>4. g[<<i, j>>] = IF s1[i] <= s2[j] THEN <<s1[i]>> \o g[<<i + 1, j>>] ELSE <<s2[j]>> \o g[<<i, j + 1>>]
      <4>1. ~(i > Len(s1) \/ j > Len(s2))
        BY <1>2, <2>2
      <4>2. g[<<i, j>>] = MergeTurn(s1, s2, i, j, g)
        BY <1>1 DEF MergeTurns
      <4> QED  BY <4>1, <4>2 DEF MergeTurn
    <3>5. CASE s1[i] <= s2[j]
      <4>1. Merged(s1, s2, i, j, <<s1[i]>> \o g[<<i + 1, j>>])
        BY <3>1, <3>3, <3>5, MergedFirst
      <4> QED  BY <3>4, <3>5, <4>1
    <3>6. CASE ~(s1[i] <= s2[j])
      <4>1. s2[j] <= s1[i]
        <5>1. s1[i] \in Int /\ s2[j] \in Int
          BY <3>1
        <5> QED  BY <3>6, <5>1
      <4>2. Merged(s2, s1, j + 1, i, g[<<i, j + 1>>])
        BY <3>1, <3>3, MergedSwap
      <4>3. Merged(s2, s1, j, i, <<s2[j]>> \o g[<<i, j + 1>>])
        BY <3>1, <4>1, <4>2, MergedFirst
      <4>4. Merged(s1, s2, i, j, <<s2[j]>> \o g[<<i, j + 1>>])
        BY <4>3, MergedSwap
      <4> QED  BY <3>4, <3>6, <4>4
    <3> QED  BY <3>5, <3>6
  <2>3. Good(n)
    <3>1. \A i \in I, j \in J : (i > Len(s1) \/ j > Len(s2)) \/ (i <= Len(s1) /\ j <= Len(s2))
      BY <1>2
    <3> QED  BY <1>3, <2>2, <3>1
  <2>4. n \in 0..B
    BY <1>2
  <2> QED  BY <2>3, <2>4
<1>6. B \in Nat
  BY <1>2
<1> HIDE DEF A
<1>7. 0..B \subseteq A
  BY <1>4, <1>5, <1>6, BoundedInduction
<1>8. Good(B) /\ 1 \in I /\ 1 \in J
  <2>1. B \in 0..B
    BY <1>6
  <2>2. B \in A
    BY <1>7, <2>1
  <2>3. 1 \in I /\ 1 \in J
    BY <1>2
  <2> QED  BY <2>2, <2>3 DEF A
<1>9. ToCome(s1, s2, 1, 1) <= B
  <2>1. ToCome(s1, s2, 1, 1) \in 0..B
    BY <1>8, PlaceIs
  <2> QED  BY <1>6, <2>1
<1> QED  BY <1>1, <1>8, <1>9

-----------------------------------------------------------------------------
(* Mergesort: selection_sort(). *)

IsMinPlace(s, i, n, m) ==
  m \in i..n /\ (\A j \in i..n : s[m] <= s[j]) /\ \A j \in i..(m-1) : s[m] < s[j]

LEMMA MinPlaceIs ==
  ASSUME NEW s \in Seq(Int), NEW i \in 1..Len(s)
  PROVE  IsMinPlace(s, i, Len(s), Merging!MinPlace(s, i))
<1> DEFINE L == Len(s)
           Has(n) == \E m : IsMinPlace(s, i, n, m)
           T == {d \in 0..(L - i) : Has(i + d)}
<1>1. L \in Nat /\ i \in Int /\ L - i \in Nat /\ \A k \in i..L : s[k] \in Int
  OBVIOUS
<1>2. 0 \in T
  <2>1. i + 0 = i /\ i \in i..i /\ s[i] <= s[i] /\ \A j \in i..i : j = i
    BY <1>1
  <2>2. i..(i-1) = {}
    BY <1>1
  <2>3. IsMinPlace(s, i, i + 0, i)
    BY <2>1, <2>2 DEF IsMinPlace
  <2> QED  BY <1>1, <2>3
<1>3. ASSUME NEW d \in 1..(L - i), d - 1 \in T  PROVE d \in T
  <2> DEFINE n == i + d
  <2>1. PICK m : IsMinPlace(s, i, n - 1, m)
    <3>1. i + (d - 1) = n - 1
      BY <1>1
    <3> QED  BY <1>3, <3>1
  <2>2. n \in i..L /\ n - 1 \in i..L /\ n \in Int
    BY <1>1
  <2> HIDE DEF n
  <2>3. m \in i..(n-1) /\ m \in i..n /\ m \in i..L
    BY <1>1, <2>1, <2>2 DEF IsMinPlace
  <2>4. \A j \in i..n : j = n \/ j \in i..(n-1)
    BY <1>1, <2>2
  <2>5. s[n] \in Int /\ s[m] \in Int /\ \A j \in i..(n-1) : s[j] \in Int /\ s[m] <= s[j]
    <3>1. \A j \in i..(n-1) : j \in i..L
      BY <1>1, <2>2
    <3> QED  BY <1>1, <2>1, <2>2, <2>3, <3>1 DEF IsMinPlace
  <2>6. CASE s[n] < s[m]
    <3>1. \A j \in i..(n-1) : s[n] < s[j]
      BY <2>5, <2>6
    <3>2. \A j \in i..n : s[n] <= s[j]
      BY <2>4, <2>5, <3>1
    <3>3. IsMinPlace(s, i, n, n)
      BY <1>1, <2>2, <3>1, <3>2 DEF IsMinPlace
    <3> QED  BY <3>3 DEF n
  <2>7. CASE ~(s[n] < s[m])
    <3>1. s[m] <= s[n]
      BY <2>5, <2>7
    <3>2. \A j \in i..n : s[m] <= s[j]
      BY <2>4, <2>5, <3>1
    <3>3. IsMinPlace(s, i, n, m)
      BY <2>1, <2>3, <3>2 DEF IsMinPlace
    <3> QED  BY <3>3 DEF n
  <2> QED  BY <2>6, <2>7
<1> HIDE DEF T
<1>4. 0..(L - i) \subseteq T
  BY <1>1, <1>2, <1>3, BoundedInduction
<1>5. \E m : IsMinPlace(s, i, L, m)
  <2>1. L - i \in T /\ i + (L - i) = L
    BY <1>1, <1>4
  <2> QED  BY <2>1 DEF T
<1>6. PICK m \in i..L : (\A j \in i..L : s[m] <= s[j]) /\ \A j \in i..(m-1) : s[m] < s[j]
  BY <1>5 DEF IsMinPlace
<1> DEFINE c == Merging!MinPlace(s, i)
<1>7. c \in i..L /\ (\A j \in i..L : s[c] <= s[j]) /\ \A j \in i..(c-1) : s[c] < s[j]
  BY <1>6 DEF Merging!MinPlace
<1> HIDE DEF c
<1>8. IsMinPlace(s, i, L, c)
  BY <1>7 DEF IsMinPlace
<1> QED  BY <1>8 DEF c

\* t is s with places i and j exchanged.
Swapped(s, t, i, j) ==
  /\ t \in Seq(Int) /\ Len(t) = Len(s) /\ t[i] = s[j] /\ t[j] = s[i]
  /\ \A k \in 1..Len(s) : k # i /\ k # j => t[k] = s[k]

LEMMA ExchangeIs ==
  ASSUME NEW s \in Seq(Int), NEW i \in 1..Len(s), NEW j \in 1..Len(s)
  PROVE  Swapped(s, Merging!Exchange(s, i, j), i, j)
<1> DEFINE t == Merging!Exchange(s, i, j)
<1>1. s[i] \in Int /\ s[j] \in Int
  OBVIOUS
<1>2. t = [s EXCEPT ![i] = s[j], ![j] = s[i]]
  BY DEF Merging!Exchange
<1> HIDE DEF t
<1>3. t \in Seq(Int) /\ Len(t) = Len(s)
  BY <1>1, <1>2
<1>4. t[i] = s[j] /\ t[j] = s[i] /\ \A k \in 1..Len(s) : k # i /\ k # j => t[k] = s[k]
  BY <1>2
<1> QED  BY <1>3, <1>4 DEF t, Swapped

LEMMA SwappedCounts ==
  ASSUME NEW s \in Seq(Int), NEW t, NEW i \in 1..Len(s), NEW j \in 1..Len(s), Swapped(s, t, i, j), NEW v
  PROVE  CountIn(t, v) = CountIn(s, v)
<1> DEFINE A == {k \in 1..Len(s) : s[k] = v}
           B == {k \in 1..Len(t) : t[k] = v}
           f == [k \in A |-> IF k = i THEN j ELSE IF k = j THEN i ELSE k]
<1>1. /\ Len(t) = Len(s) /\ t[i] = s[j] /\ t[j] = s[i]
      /\ \A k \in 1..Len(s) : k # i /\ k # j => t[k] = s[k]
  BY DEF Swapped
<1>2. f \in [A -> B]
  <2>1. ASSUME NEW k \in A  PROVE (IF k = i THEN j ELSE IF k = j THEN i ELSE k) \in B
    BY <1>1
  <2> HIDE DEF A, B
  <2> QED  BY <2>1
<1>3. \A k, l \in A : f[k] = f[l] => k = l
  OBVIOUS
<1>4. ASSUME NEW l \in B  PROVE \E k \in A : f[k] = l
  <2> DEFINE k == IF l = i THEN j ELSE IF l = j THEN i ELSE l
  <2>1. k \in A
    BY <1>1
  <2>2. f[k] = l
    BY <2>1
  <2> QED  BY <2>1, <2>2
<1>5. IsFiniteSet(A)
  <2>1. Len(s) \in Int /\ 1 \in Int
    OBVIOUS
  <2>2. IsFiniteSet(1..Len(s)) /\ A \in SUBSET (1..Len(s))
    BY <2>1, FS_Interval
  <2> HIDE DEF A
  <2> QED  BY <2>2, FS_Subset
<1> HIDE DEF A, B, f
<1>6. f \in Bijection(A, B)
  BY <1>2, <1>3, <1>4 DEF Bijection, Injection, Surjection, IsInjective
<1>7. Cardinality(B) = Cardinality(A)
  BY <1>5, <1>6, FS_Bijection DEF ExistsBijection
<1> QED  BY <1>7 DEF CountIn, A, B

\* t is s after i turns of the outer loop.
Selected(s, i, t) ==
  /\ t \in Seq(Int) /\ Len(t) = Len(s) /\ \A v : CountIn(t, v) = CountIn(s, v)
  /\ \A k, l \in 1..Len(s) : k <= i /\ k < l => t[k] <= t[l]

LEMMA SelectTurn ==
  ASSUME NEW s \in Seq(Int), NEW i \in 1..(Len(s) - 1), NEW t, Selected(s, i - 1, t)
  PROVE  Selected(s, i, Merging!Exchange(t, i, Merging!MinPlace(t, i)))
<1> DEFINE m == Merging!MinPlace(t, i)
           u == Merging!Exchange(t, i, m)
           L == Len(s)
<1>1. /\ L \in Nat /\ t \in Seq(Int) /\ Len(t) = L /\ \A v : CountIn(t, v) = CountIn(s, v)
      /\ \A k, l \in 1..L : k <= i - 1 /\ k < l => t[k] <= t[l]
  BY DEF Selected
<1>2. i \in 1..Len(t) /\ i \in 1..L
  BY <1>1
<1>3. m \in i..L /\ \A j \in i..L : t[m] <= t[j]
  <2>1. IsMinPlace(t, i, Len(t), m)
    BY <1>1, <1>2, MinPlaceIs
  <2> QED  BY <1>1, <2>1 DEF IsMinPlace
<1> HIDE DEF m
<1>4. m \in 1..L /\ m \in 1..Len(t)
  BY <1>1, <1>3
<1>5. Swapped(t, u, i, m)
  BY <1>1, <1>2, <1>4, ExchangeIs
<1> HIDE DEF u
<1>6. /\ u \in Seq(Int) /\ Len(u) = L /\ u[i] = t[m] /\ u[m] = t[i]
      /\ \A k \in 1..L : k # i /\ k # m => u[k] = t[k]
  BY <1>1, <1>5 DEF Swapped
<1>7. \A v : CountIn(u, v) = CountIn(s, v)
  <2>1. \A v : CountIn(u, v) = CountIn(t, v)
    BY <1>1, <1>2, <1>4, <1>5, SwappedCounts
  <2> QED  BY <1>1, <2>1
<1>8. ASSUME NEW k \in 1..L, NEW l \in 1..L, k <= i, k < l  PROVE u[k] <= u[l]
  <2>1. PICK p \in 1..L : u[l] = t[p] /\ (p = l \/ p = i \/ p = m) /\ (l > i => p >= i) /\ (l = i => p = m)
    <3>1. CASE l = i
      BY <1>4, <1>6, <3>1
    <3>2. CASE l = m /\ l # i
      BY <1>2, <1>3, <1>6, <3>2
    <3>3. CASE l # m /\ l # i
      BY <1>6, <3>3
    <3> QED  BY <3>1, <3>2, <3>3
  <2>2. CASE k < i
    <3>1. k # i /\ k # m /\ u[k] = t[k] /\ k <= i - 1
      BY <1>3, <1>6, <2>2
    <3>2. k < p
      BY <1>3, <1>8, <2>1, <2>2
    <3> QED  BY <1>1, <2>1, <3>1, <3>2
  <2>3. CASE k = i
    <3>1. l > i /\ p \in i..L
      BY <1>8, <2>1, <2>3
    <3> QED  BY <1>3, <1>6, <2>1, <2>3, <3>1
  <2> QED  BY <1>8, <2>2, <2>3
<1>9. Selected(s, i, u)
  BY <1>6, <1>7, <1>8 DEF Selected
<1> QED  BY <1>9 DEF u, m

\* selection_sort() sorts.
LEMMA SelectionSorts ==
  ASSUME NEW s \in Seq(Int), Len(s) >= 2
  PROVE  /\ Merging!selection_sort(s) \in Seq(Int) /\ Len(Merging!selection_sort(s)) = Len(s)
         /\ Ascending(Merging!selection_sort(s))
         /\ \A v : CountIn(Merging!selection_sort(s), v) = CountIn(s, v)
<1> DEFINE Turn(t, i) == Merging!Exchange(t, i, Merging!MinPlace(t, i))
           S == {t \in Seq(Int) : Len(t) = Len(s)}
           n == Len(s) - 1
           step == [i \in 1..n |-> [t \in S |-> Turn(t, i)]]
           g == CHOOSE g : g = [i \in 0..n |-> IF i = 0 THEN s ELSE Turn(g[i-1], i)]
<1>1. n \in Nat /\ s \in S
  OBVIOUS
<1>2. ASSUME NEW i \in 1..n, NEW t \in S  PROVE Turn(t, i) \in S
  <2>1. t \in Seq(Int) /\ Len(t) = Len(s) /\ i \in 1..Len(t)
    BY <1>1
  <2>2. IsMinPlace(t, i, Len(t), Merging!MinPlace(t, i))
    BY <2>1, MinPlaceIs
  <2>3. Merging!MinPlace(t, i) \in 1..Len(t)
    BY <2>1, <2>2 DEF IsMinPlace
  <2>4. Swapped(t, Turn(t, i), i, Merging!MinPlace(t, i))
    BY <2>1, <2>3, ExchangeIs
  <2> HIDE DEF Turn
  <2> QED  BY <2>1, <2>4 DEF Swapped
<1>3. step \in Steps(n, S) /\ \A i \in 1..n, t \in S : step[i][t] = Turn(t, i)
  <2> HIDE DEF Turn, S, n
  <2> QED  BY <1>2 DEF Steps
<1>4. Merging!selection_sort(s) = g[n]
  BY DEF Merging!selection_sort
<1> HIDE DEF step, S, Turn
<1>5. PICK h : Recursive(h, n, S, s, step)
  BY <1>1, <1>3, RecursionExists
<1>6. h \in [0..n -> S] /\ h[0] = s /\ \A i \in 1..n : h[i] = Turn(h[i-1], i)
  <2>1. h \in [0..n -> S] /\ h[0] = s /\ \A i \in 1..n : h[i] = step[i][h[i-1]]
    BY <1>5 DEF Recursive
  <2>2. \A i \in 1..n : i - 1 \in 0..n
    BY <1>1
  <2> HIDE DEF n
  <2> QED  BY <1>3, <2>1, <2>2
<1>7. h = [i \in 0..n |-> IF i = 0 THEN s ELSE Turn(h[i-1], i)]
  <2>1. ASSUME NEW i \in 0..n  PROVE h[i] = IF i = 0 THEN s ELSE Turn(h[i-1], i)
    <3>1. i = 0 \/ i \in 1..n
      BY <1>1
    <3> QED  BY <1>1, <1>6, <3>1
  <2> HIDE DEF n
  <2> QED  BY <1>6, <2>1
<1>8. g = [i \in 0..n |-> IF i = 0 THEN s ELSE Turn(g[i-1], i)]
  BY <1>7
<1> HIDE DEF g, n
<1> DEFINE A == {i \in 0..n : Selected(s, i, g[i])}
<1>9. 0 \in A
  <2>1. g[0] = s
    BY <1>1, <1>8
  <2>2. Selected(s, 0, s)
    BY DEF Selected
  <2> QED  BY <1>1, <2>1, <2>2
<1>10. ASSUME NEW i \in 1..n, i - 1 \in A  PROVE i \in A
  <2>1. i \in 0..n /\ i # 0 /\ i \in 1..(Len(s) - 1)
    BY <1>1 DEF n
  <2>2. g[i] = Merging!Exchange(g[i-1], i, Merging!MinPlace(g[i-1], i))
    BY <1>8, <2>1 DEF Turn
  <2> QED  BY <1>10, <2>1, <2>2, SelectTurn
<1> HIDE DEF A
<1>11. 0..n \subseteq A
  BY <1>1, <1>9, <1>10, BoundedInduction
<1>12. Selected(s, n, g[n])
  <2>1. n \in 0..n
    BY <1>1
  <2> QED  BY <1>11, <2>1 DEF A
<1>13. Ascending(g[n])
  <2>1. ASSUME NEW k \in 1..Len(s), NEW l \in 1..Len(s), k < l  PROVE g[n][k] <= g[n][l]
    <3>1. k <= n
      BY <2>1 DEF n
    <3> QED  BY <1>12, <2>1, <3>1 DEF Selected
  <2> QED  BY <1>12, <2>1 DEF Selected, Ascending
<1> QED  BY <1>4, <1>12, <1>13 DEF Selected

-----------------------------------------------------------------------------
(* Mergesort: the tasks. *)

\* The part of the input a task was given.
Slice(inp, r) == [k \in 1..(r[2] - r[1]) |-> inp[r[1] + k - 1]]

Parts == {r \in Int \X Int : 0 <= r[1] /\ r[1] <= r[2] /\ r[2] <= ARRAY_SIZE}

\* The array of a task holds the numbers it was given, in order when the task has
\* returned.
TaskHolds(inp, r, a, at) ==
  /\ r \in Parts /\ a \in Seq(Int) /\ Len(a) = r[2] - r[1]
  /\ \A v : CountIn(a, v) = CountIn(Slice(inp, r), v)
  /\ at = "compute" => a = Slice(inp, r)
  /\ at = "returned" => Ascending(a)

TasksHold(inp, arrs, stg) ==
  /\ DOMAIN arrs = DOMAIN stg /\ Merging!Root \in DOMAIN stg
  /\ \A r \in DOMAIN stg : TaskHolds(inp, r, arrs[r], stg[r])
  /\ \A r \in DOMAIN stg : stg[r] = "join" => Merging!Left(r) \in DOMAIN stg /\ Merging!Right(r) \in DOMAIN stg

LEMMA SliceIs ==
  ASSUME NEW inp \in Arrays, NEW r \in Parts
  PROVE  Slice(inp, r) \in Seq(Int) /\ Len(Slice(inp, r)) = r[2] - r[1]
<1>1. r[1] \in Int /\ r[2] \in Int /\ 0 <= r[1] /\ r[1] <= r[2] /\ r[2] <= ARRAY_SIZE /\ ARRAY_SIZE \in Nat
  BY QuickConstants DEF Parts
<1>2. \A k \in 1..(r[2] - r[1]) : r[1] + k - 1 \in Cells
  BY <1>1 DEF Cells
<1>3. \A k \in 1..(r[2] - r[1]) : inp[r[1] + k - 1] \in Int
  BY <1>2 DEF Arrays
<1> DEFINE n == r[2] - r[1]
<1>4. n \in Nat
  BY <1>1
<1>5. Slice(inp, r) \in [1..n -> Int]
  BY <1>3 DEF Slice
<1> HIDE DEF n
<1>6. Slice(inp, r) \in Seq(Int) /\ Len(Slice(inp, r)) = n
  BY <1>4, <1>5
<1> QED  BY <1>6 DEF n

\* The two halves.
LEMMA HalvesAre ==
  ASSUME NEW inp \in Arrays, NEW r \in Parts
  PROVE  /\ Merging!Left(r) \in Parts /\ Merging!Right(r) \in Parts
         /\ Slice(inp, Merging!Left(r)) \o Slice(inp, Merging!Right(r)) = Slice(inp, r)
         /\ \A q \in {Merging!Left(r), Merging!Right(r)} :
              SubSeq(Slice(inp, r), q[1] - r[1] + 1, q[2] - r[1]) = Slice(inp, q)
<1> DEFINE a == r[1]
           b == r[2]
           m == Merging!Mid(r)
           s == Slice(inp, r)
<1>1. a \in Int /\ b \in Int /\ 0 <= a /\ a <= b /\ b <= ARRAY_SIZE /\ ARRAY_SIZE \in Nat
  BY QuickConstants DEF Parts
<1>2. m \in Int /\ 0 <= m /\ m <= b - a
  BY <1>1 DEF Merging!Mid
<1>3. Merging!Left(r) = <<a, a + m>> /\ Merging!Right(r) = <<a + m, b>>
  BY DEF Merging!Left, Merging!Right
<1>4. s \in Seq(Int) /\ Len(s) = b - a /\ \A k \in 1..(b - a) : s[k] = inp[a + k - 1]
  BY SliceIs DEF Slice
<1> HIDE DEF a, b, m, s
<1>5. <<a, a + m>> \in Parts /\ <<a + m, b>> \in Parts
  BY <1>1, <1>2 DEF Parts
<1> DEFINE p == Slice(inp, <<a, a + m>>)
           q == Slice(inp, <<a + m, b>>)
<1>6. p \in Seq(Int) /\ Len(p) = m /\ \A k \in 1..m : p[k] = inp[a + k - 1]
  <2>1. p \in Seq(Int) /\ Len(p) = (a + m) - a
    BY <1>5, SliceIs
  <2>2. \A k \in 1..((a + m) - a) : p[k] = inp[a + k - 1]
    BY DEF Slice
  <2> HIDE DEF p
  <2> QED  BY <1>1, <1>2, <2>1, <2>2
<1>7. q \in Seq(Int) /\ Len(q) = b - a - m /\ \A k \in 1..(b - a - m) : q[k] = inp[a + m + k - 1]
  <2>1. q \in Seq(Int) /\ Len(q) = b - (a + m)
    BY <1>5, SliceIs
  <2>2. \A k \in 1..(b - (a + m)) : q[k] = inp[a + m + k - 1]
    BY DEF Slice
  <2>3. b - (a + m) = b - a - m
    BY <1>1, <1>2
  <2> HIDE DEF q
  <2> QED  BY <2>1, <2>2, <2>3
<1> HIDE DEF p, q
<1>8. p \o q = s
  <2>1. p \o q \in Seq(Int) /\ Len(p \o q) = b - a
    <3>1. p \o q \in Seq(Int) /\ Len(p \o q) = Len(p) + Len(q)
      BY <1>6, <1>7, JoinIs
    <3> QED  BY <1>1, <1>2, <1>6, <1>7, <3>1
  <2>2. ASSUME NEW k \in 1..(b - a)  PROVE (p \o q)[k] = s[k]
    <3>1. CASE k <= m
      <4>1. k \in 1..m /\ k \in 1..Len(p)
        BY <1>2, <1>6, <3>1
      <4>2. (p \o q)[k] = p[k]
        BY <1>6, <1>7, <4>1, JoinIs
      <4> QED  BY <1>4, <1>6, <4>1, <4>2
    <3>2. CASE k > m
      <4>1. k - m \in 1..(b - a - m) /\ m + (k - m) = k /\ a + m + (k - m) - 1 = a + k - 1
        BY <1>1, <1>2, <3>2
      <4>2. (p \o q)[Len(p) + (k - m)] = q[k - m]
        BY <1>6, <1>7, <4>1, JoinIs
      <4>3. q[k - m] = inp[a + m + (k - m) - 1]
        BY <1>7, <4>1
      <4>4. Len(p) + (k - m) = k
        BY <1>6, <4>1
      <4>5. (p \o q)[k] = inp[a + k - 1]
        BY <4>1, <4>2, <4>3, <4>4
      <4> QED  BY <1>4, <4>5
    <3>3. k <= m \/ k > m
      BY <1>1, <1>2
    <3> QED  BY <3>1, <3>2, <3>3
  <2> DEFINE t == p \o q
  <2>3. t \in Seq(Int) /\ Len(t) = b - a /\ \A k \in 1..(b - a) : t[k] = s[k]
    BY <2>1, <2>2
  <2> HIDE DEF t
  <2>4. t = s
    BY <1>4, <2>3
  <2> QED  BY <2>4 DEF t
<1>9. SubSeq(s, a - a + 1, (a + m) - a) = p
  <2> DEFINE u == SubSeq(s, a - a + 1, (a + m) - a)
  <2>1. a - a + 1 = 1 /\ (a + m) - a = m /\ m <= Len(s)
    BY <1>1, <1>2, <1>4
  <2>2. u = SubSeq(s, 1, m)
    BY <2>1
  <2>3. u \in Seq(Int) /\ Len(u) = m /\ \A k \in 1..m : u[k] = s[k]
    BY <1>2, <1>4, <2>1, <2>2
  <2>4. \A k \in 1..m : k \in 1..(b - a)
    BY <1>1, <1>2
  <2> HIDE DEF u
  <2>5. ASSUME NEW k \in 1..m  PROVE u[k] = p[k]
    BY <1>4, <1>6, <2>3, <2>4
  <2>6. u = p
    BY <1>6, <2>3, <2>5
  <2> QED  BY <2>6 DEF u
<1>10. SubSeq(s, (a + m) - a + 1, b - a) = q
  <2> DEFINE u == SubSeq(s, (a + m) - a + 1, b - a)
  <2>1. (a + m) - a + 1 = m + 1 /\ b - a = Len(s)
    BY <1>1, <1>2, <1>4
  <2>2. u = SubSeq(s, m + 1, b - a)
    BY <2>1
  <2>3. u \in Seq(Int) /\ Len(u) = b - a - m /\ \A k \in 1..(b - a - m) : u[k] = s[m + k]
    BY <1>1, <1>2, <1>4, <2>1, <2>2
  <2>4. \A k \in 1..(b - a - m) : m + k \in 1..(b - a) /\ a + (m + k) - 1 = a + m + k - 1
    BY <1>1, <1>2
  <2> HIDE DEF u
  <2>5. ASSUME NEW k \in 1..(b - a - m)  PROVE u[k] = q[k]
    BY <1>4, <1>7, <2>3, <2>4
  <2>6. u = q
    BY <1>7, <2>3, <2>5
  <2> QED  BY <2>6 DEF u
<1>11. SubSeq(Slice(inp, r), Merging!Left(r)[1] - r[1] + 1, Merging!Left(r)[2] - r[1]) = Slice(inp, Merging!Left(r))
  BY <1>3, <1>9 DEF s, p, a
<1>12. SubSeq(Slice(inp, r), Merging!Right(r)[1] - r[1] + 1, Merging!Right(r)[2] - r[1]) = Slice(inp, Merging!Right(r))
  BY <1>3, <1>10 DEF s, q, a, b
<1> QED  BY <1>3, <1>5, <1>8, <1>11, <1>12 DEF s, p, q

LEMMA ReturnHolds ==
  ASSUME NEW inp, TasksHold(inp, arrays, stage), NEW r \in DOMAIN stage, NEW result, Merging!Return(r, result),
         result \in Seq(Int), Len(result) = r[2] - r[1], Ascending(result),
         \A v : CountIn(result, v) = CountIn(Slice(inp, r), v)
  PROVE  TasksHold(inp, arrays', stage')
<1>1. arrays' = [arrays EXCEPT ![r] = result] /\ stage' = [stage EXCEPT ![r] = "returned"]
  BY DEF Merging!Return
<1>2. DOMAIN arrays = DOMAIN stage /\ Merging!Root \in DOMAIN stage
  BY DEF TasksHold
<1>3. /\ DOMAIN arrays' = DOMAIN stage /\ DOMAIN stage' = DOMAIN stage
      /\ arrays'[r] = result /\ stage'[r] = "returned"
      /\ \A q \in DOMAIN stage : q # r => arrays'[q] = arrays[q] /\ stage'[q] = stage[q]
  BY <1>1, <1>2
<1>4. TaskHolds(inp, r, arrays'[r], stage'[r])
  <2>1. r \in Parts
    BY DEF TasksHold, TaskHolds
  <2> QED  BY <1>3, <2>1 DEF TaskHolds
<1>5. \A q \in DOMAIN stage : TaskHolds(inp, q, arrays'[q], stage'[q])
  BY <1>3, <1>4 DEF TasksHold
<1>6. \A q \in DOMAIN stage : stage'[q] = "join" => Merging!Left(q) \in DOMAIN stage /\ Merging!Right(q) \in DOMAIN stage
  BY <1>3 DEF TasksHold
<1> QED  BY <1>2, <1>3, <1>5, <1>6 DEF TasksHold

LEMMA SortAloneHolds ==
  ASSUME NEW inp, TasksHold(inp, arrays, stage), NEW r \in DOMAIN stage, Merging!SortAlone(r)
  PROVE  TasksHold(inp, arrays', stage')
<1> DEFINE a == arrays[r]
           result == IF Len(a) < 2 THEN a ELSE Merging!selection_sort(a)
<1>1. Merging!Return(r, result) /\ stage[r] = "compute"
  BY DEF Merging!SortAlone
<1>2. TaskHolds(inp, r, a, stage[r])
  BY DEF TasksHold
<1>3. a \in Seq(Int) /\ Len(a) = r[2] - r[1] /\ \A v : CountIn(a, v) = CountIn(Slice(inp, r), v)
  BY <1>2 DEF TaskHolds
<1> HIDE DEF a
<1>4. result \in Seq(Int) /\ Len(result) = Len(a) /\ Ascending(result) /\ \A v : CountIn(result, v) = CountIn(a, v)
  <2>1. CASE Len(a) < 2
    <3>1. \A k, l \in 1..Len(a) : ~(k < l)
      BY <1>3, <2>1
    <3>2. Ascending(a)
      BY <3>1 DEF Ascending
    <3> QED  BY <1>3, <2>1, <3>2
  <2>2. CASE ~(Len(a) < 2)
    <3>1. Len(a) >= 2
      BY <1>3, <2>2
    <3> QED  BY <1>3, <2>2, <3>1, SelectionSorts
  <2> QED  BY <2>1, <2>2
<1> HIDE DEF result
<1> QED  BY <1>1, <1>3, <1>4, ReturnHolds

LEMMA MergeHolds ==
  ASSUME NEW inp \in Arrays, TasksHold(inp, arrays, stage), NEW r \in DOMAIN stage, Merging!Merge(r)
  PROVE  TasksHold(inp, arrays', stage')
<1> DEFINE p == Merging!Left(r)
           q == Merging!Right(r)
           a == arrays[p]
           b == arrays[q]
           result == Merging!merge(a, b)
<1>1. stage[r] = "join" /\ stage[p] = "returned" /\ stage[q] = "returned" /\ Merging!Return(r, result)
  BY DEF Merging!Merge
<1>2. r \in Parts /\ p \in DOMAIN stage /\ q \in DOMAIN stage
  BY <1>1 DEF TasksHold, TaskHolds
<1>3. TaskHolds(inp, p, a, stage[p]) /\ TaskHolds(inp, q, b, stage[q])
  BY <1>2 DEF TasksHold
<1>4. /\ p \in Parts /\ q \in Parts /\ Slice(inp, p) \o Slice(inp, q) = Slice(inp, r)
  BY <1>2, HalvesAre
<1>5. /\ a \in Seq(Int) /\ Ascending(a) /\ \A v : CountIn(a, v) = CountIn(Slice(inp, p), v)
      /\ b \in Seq(Int) /\ Ascending(b) /\ \A v : CountIn(b, v) = CountIn(Slice(inp, q), v)
  BY <1>1, <1>3 DEF TaskHolds
<1>6. Len(a) = p[2] - p[1] /\ Len(b) = q[2] - q[1]
  BY <1>3 DEF TaskHolds
<1>7. Len(a) + Len(b) = r[2] - r[1]
  <2>1. p[1] = r[1] /\ p[2] = r[1] + Merging!Mid(r) /\ q[1] = r[1] + Merging!Mid(r) /\ q[2] = r[2]
    BY DEF Merging!Left, Merging!Right
  <2>2. r[1] \in Int /\ r[2] \in Int /\ Merging!Mid(r) \in Int
    BY <1>2 DEF Parts, Merging!Mid
  <2> HIDE DEF p, q, a, b
  <2> QED  BY <1>6, <2>1, <2>2
<1> HIDE DEF p, q, a, b
<1>8. Merged(a, b, 1, 1, result)
  BY <1>5, MergeIs
<1>9. From(a, 1) = a /\ From(b, 1) = b
  BY <1>5 DEF From
<1>10. result \in Seq(Int) /\ Ascending(result) /\ \A v : CountIn(result, v) = CountIn(a, v) + CountIn(b, v)
  BY <1>8, <1>9 DEF Merged
<1>11. Len(result) = r[2] - r[1]
  <2>1. Len(result) = (Len(a) + 1 - 1) + (Len(b) + 1 - 1)
    BY <1>8 DEF Merged
  <2>2. Len(a) \in Nat /\ Len(b) \in Nat
    BY <1>5
  <2> HIDE DEF result
  <2> QED  BY <1>7, <2>1, <2>2
<1>12. \A v : CountIn(result, v) = CountIn(Slice(inp, r), v)
  <2>1. Slice(inp, p) \in Seq(Int) /\ Slice(inp, q) \in Seq(Int)
    BY <1>4, SliceIs
  <2>2. \A v : CountIn(Slice(inp, p) \o Slice(inp, q), v) = CountIn(Slice(inp, p), v) + CountIn(Slice(inp, q), v)
    BY <2>1, CountJoin
  <2> HIDE DEF result
  <2> QED  BY <1>4, <1>5, <1>10, <2>2
<1> HIDE DEF result
<1> QED  BY <1>1, <1>10, <1>11, <1>12, ReturnHolds

LEMMA MergeForkHolds ==
  ASSUME NEW inp \in Arrays, TasksHold(inp, arrays, stage), NEW r \in DOMAIN stage, Merging!Fork(r)
  PROVE  TasksHold(inp, arrays', stage')
<1> DEFINE p == Merging!Left(r)
           q == Merging!Right(r)
           all == DOMAIN stage \cup {p, q}
<1>1. /\ stage[r] = "compute"
      /\ arrays' = [c \in all |-> IF c \in {p, q} THEN Merging!Copied(r, c) ELSE arrays[c]]
      /\ stage' = [c \in all |-> IF c \in {p, q} THEN "compute" ELSE IF c = r THEN "join" ELSE stage[c]]
  BY DEF Merging!Fork
<1>2. DOMAIN arrays = DOMAIN stage /\ Merging!Root \in DOMAIN stage /\ TaskHolds(inp, r, arrays[r], stage[r])
  BY DEF TasksHold
<1>3. r \in Parts /\ arrays[r] = Slice(inp, r)
  BY <1>1, <1>2 DEF TaskHolds
<1>4. \A c \in {p, q} : c \in Parts /\ Merging!Copied(r, c) = Slice(inp, c)
  BY <1>3, HalvesAre DEF Merging!Copied
<1> HIDE DEF p, q
<1>5. \A c \in {p, q} : arrays'[c] = Slice(inp, c) /\ stage'[c] = "compute"
  BY <1>1, <1>4
<1>6. \A c \in DOMAIN stage \ {p, q} : arrays'[c] = arrays[c] /\ stage'[c] = (IF c = r THEN "join" ELSE stage[c])
  BY <1>1
<1>7. DOMAIN arrays' = all /\ DOMAIN stage' = all
  BY <1>1
<1>8. ASSUME NEW c \in all  PROVE TaskHolds(inp, c, arrays'[c], stage'[c])
  <2>1. CASE c \in {p, q}
    <3>1. c \in Parts /\ Slice(inp, c) \in Seq(Int) /\ Len(Slice(inp, c)) = c[2] - c[1]
      BY <1>4, <2>1, SliceIs
    <3> QED  BY <1>5, <2>1, <3>1 DEF TaskHolds
  <2>2. CASE c \notin {p, q}
    <3>1. TaskHolds(inp, c, arrays[c], stage[c]) /\ arrays'[c] = arrays[c]
      BY <1>6, <2>2 DEF TasksHold
    <3>2. stage'[c] = "join" \/ stage'[c] = stage[c]
      BY <1>6, <2>2
    <3> QED  BY <3>1, <3>2 DEF TaskHolds
  <2> QED  BY <2>1, <2>2
<1>9. ASSUME NEW c \in all, stage'[c] = "join"  PROVE Merging!Left(c) \in all /\ Merging!Right(c) \in all
  <2>1. c \notin {p, q} /\ c \in DOMAIN stage
    BY <1>5, <1>9
  <2>2. CASE c = r
    BY <2>2 DEF p, q
  <2>3. CASE c # r
    BY <1>6, <1>9, <2>1, <2>3 DEF TasksHold
  <2> QED  BY <2>2, <2>3
<1> QED  BY <1>2, <1>7, <1>8, <1>9 DEF TasksHold

MergingInv == program = "Mergesort" => input \in [Cells -> Values] /\ TasksHold(input, arrays, stage)

LEMMA RootIs == Merging!Root = <<0, ARRAY_SIZE>> /\ Merging!Root \in Parts
  BY QuickConstants DEF Merging!Root, Parts

LEMMA MergingInit == Init => MergingInv
<1> SUFFICES ASSUME Init, program = "Mergesort"
             PROVE  input \in [Cells -> Values] /\ TasksHold(input, arrays, stage)
  BY DEF MergingInv
<1>1. input \in Inputs /\ Merging!Fresh(input)
  BY DEF Init
<1>2. input \in [Cells -> Values] /\ input \in Arrays
  BY <1>1, QuickConstants DEF Inputs, Cells, Arrays
<1> DEFINE root == Merging!Root
           s == [k \in 1..ARRAY_SIZE |-> input[k-1]]
<1>3. arrays = [r \in {root} |-> s] /\ stage = [r \in {root} |-> "compute"]
  BY <1>1 DEF Merging!Fresh
<1>4. s = Slice(input, root)
  <2>1. root[1] = 0 /\ root[2] = ARRAY_SIZE /\ ARRAY_SIZE - 0 = ARRAY_SIZE
    BY RootIs, QuickConstants
  <2>2. \A k \in 1..ARRAY_SIZE : 0 + k - 1 = k - 1
    BY QuickConstants
  <2> QED  BY <2>1, <2>2 DEF Slice
<1>5. root \in Parts /\ Slice(input, root) \in Seq(Int) /\ Len(Slice(input, root)) = root[2] - root[1]
  BY <1>2, RootIs, SliceIs
<1> HIDE DEF s, root
<1>6. TaskHolds(input, root, arrays[root], stage[root])
  BY <1>3, <1>4, <1>5 DEF TaskHolds
<1>7. DOMAIN arrays = {root} /\ DOMAIN stage = {root} /\ stage[root] = "compute"
  BY <1>3
<1> QED  BY <1>2, <1>6, <1>7 DEF TasksHold, root

LEMMA MergingStep == MergingInv /\ [Next]_vars => MergingInv'
<1> SUFFICES ASSUME MergingInv, [Next]_vars, program' = "Mergesort"
             PROVE  input' \in [Cells -> Values] /\ TasksHold(input', arrays', stage')
  BY DEF MergingInv
<1>1. program' = program /\ input' = input
  BY DEF Next, Run, MultithreadSorting, Quicksort, Mergesort, SudokuChecker, AfterEnd, vars
<1>2. input \in [Cells -> Values] /\ TasksHold(input, arrays, stage) /\ input \in Arrays
  BY <1>1, QuickConstants DEF MergingInv, Arrays
<1>3. CASE Mergesort
  <2>1. PICK r \in DOMAIN stage : Merging!SortAlone(r) \/ Merging!Fork(r) \/ Merging!Merge(r)
    BY <1>3 DEF Mergesort, Merging!Next
  <2>2. TasksHold(input, arrays', stage')
    BY <1>2, <2>1, SortAloneHolds, MergeForkHolds, MergeHolds
  <2> QED  BY <1>1, <1>2, <2>2
<1>4. CASE ~Mergesort
  <2>1. arrays' = arrays /\ stage' = stage
    BY <1>1, <1>4 DEF Next, Run, MultithreadSorting, Quicksort, SudokuChecker, AfterEnd, vars, mergingVars
  <2> QED  BY <1>1, <1>2, <2>1
<1> QED  BY <1>3, <1>4

\* An array and the sequence of its elements.
LEMMA CellsCount ==
  ASSUME NEW s, Len(s) = ARRAY_SIZE, NEW w, \A k \in Cells : w[k] = s[k+1], NEW v
  PROVE  CountOf(w, v) = CountIn(s, v)
<1> DEFINE A == {k \in Cells : w[k] = v}
           B == {k \in 1..Len(s) : s[k] = v}
           f == [k \in A |-> k + 1]
<1>1. ARRAY_SIZE \in Nat /\ \A k \in Cells : k \in Int /\ k + 1 \in 1..Len(s)
  BY QuickConstants DEF Cells
<1>2. f \in [A -> B] /\ \A k, l \in A : f[k] = f[l] => k = l
  BY <1>1
<1>3. ASSUME NEW l \in B  PROVE \E k \in A : f[k] = l
  <2>1. l - 1 \in Cells /\ (l - 1) + 1 = l
    BY <1>1 DEF Cells
  <2>2. l - 1 \in A
    BY <2>1
  <2>3. f[l - 1] = l
    BY <2>1, <2>2
  <2> QED  BY <2>2, <2>3
<1>4. IsFiniteSet(A)
  <2>1. ARRAY_SIZE - 1 \in Int /\ 0 \in Int
    BY <1>1
  <2>2. IsFiniteSet(Cells) /\ A \in SUBSET Cells
    BY <2>1, FS_Interval DEF Cells
  <2> HIDE DEF A
  <2> QED  BY <2>2, FS_Subset
<1> HIDE DEF A, B, f
<1>5. f \in Bijection(A, B)
  BY <1>2, <1>3 DEF Bijection, Injection, Surjection, IsInjective
<1>6. Cardinality(B) = Cardinality(A)
  BY <1>4, <1>5, FS_Bijection DEF ExistsBijection
<1> QED  BY <1>6 DEF CountIn, CountOf, A, B

LEMMA MergingEnd == MergingInv => MergesortSorts
<1> SUFFICES ASSUME MergingInv, program = "Mergesort", Ended
             PROVE  Sorted([k \in DOMAIN input |-> arrays[Merging!Root][k+1]])
  BY DEF MergesortSorts
<1> DEFINE root == Merging!Root
           s == arrays[root]
           w == [k \in DOMAIN input |-> s[k+1]]
<1>1. input \in [Cells -> Values] /\ input \in Arrays /\ TasksHold(input, arrays, stage)
  BY QuickConstants DEF MergingInv, Arrays
<1>2. stage[root] = "returned"
  BY DEF Ended, Merging!Returned
<1>3. TaskHolds(input, root, s, stage[root])
  BY <1>1 DEF TasksHold
<1>4. /\ s \in Seq(Int) /\ Ascending(s) /\ \A v : CountIn(s, v) = CountIn(Slice(input, root), v)
      /\ Len(s) = ARRAY_SIZE /\ ARRAY_SIZE \in Nat
  <2>1. root[1] = 0 /\ root[2] = ARRAY_SIZE /\ ARRAY_SIZE - 0 = ARRAY_SIZE /\ ARRAY_SIZE \in Nat
    BY RootIs, QuickConstants
  <2> QED  BY <1>2, <1>3, <2>1 DEF TaskHolds
<1> HIDE DEF s
<1>5. DOMAIN input = Cells /\ \A k \in Cells : w[k] = s[k+1]
  BY <1>1
<1>6. \A v : CountOf(w, v) = CountIn(s, v)
  <2> HIDE DEF w
  <2> QED  BY <1>4, <1>5, CellsCount
<1>7. \A v : CountOf(input, v) = CountIn(Slice(input, root), v)
  <2> DEFINE t == Slice(input, root)
  <2>1. root \in Parts /\ root[1] = 0 /\ root[2] = ARRAY_SIZE /\ ARRAY_SIZE - 0 = ARRAY_SIZE
    BY <1>4, RootIs
  <2>2. Len(t) = ARRAY_SIZE
    <3>1. Len(t) = root[2] - root[1]
      BY <1>1, <2>1, SliceIs
    <3> QED  BY <2>1, <3>1
  <2>3. ASSUME NEW k \in Cells  PROVE input[k] = t[k+1]
    <3>1. k \in Int /\ k + 1 \in 1..ARRAY_SIZE /\ 0 + (k + 1) - 1 = k
      BY <1>4 DEF Cells
    <3> QED  BY <2>1, <3>1 DEF Slice
  <2> HIDE DEF t
  <2>4. \A v : CountOf(input, v) = CountIn(t, v)
    BY <2>2, <2>3, CellsCount
  <2> QED  BY <2>4 DEF t
<1>8. \A k, l \in Cells : k < l => w[k] <= w[l]
  <2>1. ASSUME NEW k \in Cells, NEW l \in Cells, k < l  PROVE w[k] <= w[l]
    <3>1. k + 1 \in 1..Len(s) /\ l + 1 \in 1..Len(s) /\ k + 1 < l + 1
      BY <1>4, <2>1 DEF Cells
    <3> HIDE DEF w
    <3> QED  BY <1>4, <1>5, <3>1 DEF Ascending
  <2> QED  BY <2>1
<1> HIDE DEF w
<1>9. \A v \in Values : Cardinality({k \in Cells : w[k] = v}) = Cardinality({k \in Cells : input[k] = v})
  <2>1. ASSUME NEW v  PROVE CountOf(w, v) = CountOf(input, v)
    BY <1>4, <1>6, <1>7
  <2> QED  BY <2>1 DEF CountOf
<1>10. Sorted(w)
  BY <1>5, <1>8, <1>9 DEF Sorted
<1> QED  BY <1>10 DEF w, s, root

\* Mergesort sorts every array of every size.
THEOREM MergesortIsRight == Spec => []MergesortSorts
<1>1. Init => MergingInv
  BY MergingInit
<1>2. MergingInv /\ [Next]_vars => MergingInv'
  BY MergingStep
<1>3. MergingInv => MergesortSorts
  BY MergingEnd
<1> QED  BY <1>1, <1>2, <1>3, PTL DEF Spec
-----------------------------------------------------------------------------
(* The Sudoku checker: the threads and what they look at. *)

Size == Checker!Size

LEMMA BoxIs == Box \in Nat \ {0} /\ Size = Box * Box /\ Size \in Nat \ {0}
  BY Project3Assumption DEF Checker!Parameters, Size, Checker!Size

\* The threads that have a region of their own.
Corners  == {Box * k : k \in 0..(Box-1)}
Checkers ==
  {<<"box", x, y>> : x, y \in Corners}
    \cup {<<"column", 0, y>> : y \in 0..(Size-1)} \cup {<<"row", x, 0>> : x \in 0..(Size-1)}

DivMod(n) ==
  /\ \A i \in Nat, j \in 0..(n-1) : (i * n + j) \div n = i /\ (i * n + j) % n = j
  /\ \A k \in 0..(n * n - 1) : (k \div n) \in 0..(n-1) /\ (k % n) \in 0..(n-1)
  /\ \A k \in Nat : k = n * (k \div n) + (k % n)

LEMMA DivModIs == ASSUME NEW n \in Nat \ {0}  PROVE DivMod(n)
<1>1. \A i \in Nat, j \in 0..(n-1) : (i * n + j) \div n = i /\ (i * n + j) % n = j
  OBVIOUS
<1>2. \A k \in 0..(n * n - 1) : (k \div n) \in 0..(n-1) /\ (k % n) \in 0..(n-1)
  OBVIOUS
<1>3. \A k \in Nat : k = n * (k \div n) + (k % n)
  OBVIOUS
<1> QED  BY <1>1, <1>2, <1>3 DEF DivMod

\* The corners of the boxes are the multiples of Box.
LEMMA CornerIs ==
  /\ \A k \in 0..(Box-1) : Box * k \in 0..(Size-1) /\ (Box * k) \div Box = k
  /\ \A i \in 0..(Size-1) : i \in Corners <=> i % Box = 0
<1>1. Box \in Nat \ {0} /\ Size = Box * Box /\ DivMod(Box)
  BY BoxIs, DivModIs
<1>2. ASSUME NEW k \in 0..(Box-1)
      PROVE  Box * k \in 0..(Size-1) /\ (Box * k) \div Box = k /\ (Box * k) % Box = 0
  <2>1. k * Box + 0 = Box * k /\ 0 \in 0..(Box-1) /\ k \in Nat
    BY <1>1
  <2>2. (Box * k) \div Box = k /\ (Box * k) % Box = 0
    BY <1>1, <2>1 DEF DivMod
  <2>3. Box * k >= 0 /\ Box * k <= Box * (Box - 1)
    BY <1>1
  <2>4. Box * (Box - 1) < Box * Box
    BY <1>1
  <2>5. Box * k \in Int /\ Box * Box \in Int
    BY <1>1
  <2> QED  BY <1>1, <2>2, <2>3, <2>4, <2>5
<1>3. ASSUME NEW i \in 0..(Size-1), i % Box = 0  PROVE i \in Corners
  <2>1. i \in 0..(Box * Box - 1) /\ i \in Nat
    BY <1>1
  <2>2. i \div Box \in 0..(Box-1) /\ i = Box * (i \div Box) + (i % Box)
    BY <1>1, <2>1 DEF DivMod
  <2>3. i = Box * (i \div Box)
    BY <1>1, <1>3, <2>2
  <2> QED  BY <2>2, <2>3 DEF Corners
<1> QED  BY <1>2, <1>3 DEF Corners

\* The elements of a sequence.
Members(s) == {s[k] : k \in 1..Len(s)}

LEMMA MembersJoin ==
  ASSUME NEW T, NEW s \in Seq(T), NEW t \in Seq(T)
  PROVE  s \o t \in Seq(T) /\ Members(s) \subseteq Members(s \o t) /\ Members(t) \subseteq Members(s \o t)
<1>1. s \o t \in Seq(T) /\ Len(s \o t) = Len(s) + Len(t) /\ Len(s) \in Nat /\ Len(t) \in Nat
  OBVIOUS
<1>2. ASSUME NEW k \in 1..Len(s)  PROVE s[k] \in Members(s \o t)
  <2>1. k \in 1..Len(s \o t) /\ (s \o t)[k] = s[k]
    BY <1>1
  <2> QED  BY <2>1 DEF Members
<1>3. ASSUME NEW k \in 1..Len(t)  PROVE t[k] \in Members(s \o t)
  <2>1. Len(s) + k \in 1..Len(s \o t) /\ (s \o t)[Len(s) + k] = t[k]
    BY <1>1
  <2> QED  BY <2>1 DEF Members
<1> QED  BY <1>1, <1>2, <1>3 DEF Members

\* The library's concatenation of sequences keeps their elements.
LEMMA FlattenMembers ==
  ASSUME NEW T, NEW n \in Nat \ {0}, NEW seqs \in [1..n -> Seq(T)]
  PROVE  /\ Checker!FlattenSeq(seqs) \in Seq(T)
         /\ \A k \in 1..n : Members(seqs[k]) \subseteq Members(Checker!FlattenSeq(seqs))
<1> DEFINE step == [m \in 1..(n-1) |-> [x \in Seq(T) |-> x \o seqs[m+1]]]
           g == CHOOSE g : g = [i \in 1..Len(seqs) |-> IF i = 1 THEN seqs[i] ELSE g[i-1] \o seqs[i]]
<1>1. n - 1 \in Nat /\ Len(seqs) = n /\ 1 \in 1..n /\ n \in 1..n
  OBVIOUS
<1>2. step \in Steps(n - 1, Seq(T)) /\ seqs[1] \in Seq(T)
  <2>1. \A m \in 1..(n-1) : m + 1 \in 1..n
    OBVIOUS
  <2>2. \A m \in 1..(n-1), x \in Seq(T) : x \o seqs[m+1] \in Seq(T)
    BY <2>1, MembersJoin
  <2> QED  BY <1>1, <2>2 DEF Steps
<1>3. \A m \in 1..(n-1), x \in Seq(T) : step[m][x] = x \o seqs[m+1]
  OBVIOUS
<1> HIDE DEF step
<1>4. PICK s : Recursive(s, n - 1, Seq(T), seqs[1], step)
  BY <1>1, <1>2, RecursionExists
<1>5. s \in [0..(n-1) -> Seq(T)] /\ s[0] = seqs[1] /\ \A m \in 1..(n-1) : s[m] = s[m-1] \o seqs[m+1]
  <2>1. /\ s \in [0..(n-1) -> Seq(T)] /\ s[0] = seqs[1]
        /\ \A m \in 1..(n-1) : s[m] = step[m][s[m-1]]
    BY <1>4 DEF Recursive
  <2>2. \A m \in 1..(n-1) : s[m-1] \in Seq(T)
    BY <1>1, <2>1
  <2> QED  BY <1>3, <2>1, <2>2
<1> DEFINE h == [i \in 1..n |-> s[i-1]]
<1>6. h = [i \in 1..n |-> IF i = 1 THEN seqs[i] ELSE h[i-1] \o seqs[i]]
  <2>1. ASSUME NEW i \in 1..n  PROVE h[i] = IF i = 1 THEN seqs[i] ELSE h[i-1] \o seqs[i]
    <3>1. CASE i = 1
      BY <1>5, <3>1
    <3>2. CASE i # 1
      <4>1. i - 1 \in 1..(n-1) /\ i - 1 \in 1..n /\ (i - 1) + 1 = i
        BY <3>2
      <4>2. s[i-1] = s[(i-1)-1] \o seqs[(i-1)+1]
        BY <1>5, <4>1
      <4>3. h[i] = s[i-1] /\ h[i-1] = s[(i-1)-1]
        BY <4>1
      <4> QED  BY <3>2, <4>1, <4>2, <4>3
    <3> QED  BY <3>1, <3>2
  <2> HIDE DEF h
  <2>2. h = [i \in 1..n |-> h[i]]
    BY DEF h
  <2> QED  BY <2>1, <2>2
<1>7. g = [i \in 1..n |-> IF i = 1 THEN seqs[i] ELSE g[i-1] \o seqs[i]]
  <2> HIDE DEF h
  <2> QED  BY <1>1, <1>6
<1>8. Checker!FlattenSeq(seqs) = g[n]
  BY <1>1 DEF Checker!FlattenSeq
<1> HIDE DEF g
<1> DEFINE e == [i \in 0..(n-1) |-> g[i+1]]
<1>9. \A i \in 0..(n-1) : e[i] = s[i]
  <2>1. e[0] = s[0]
    BY <1>1, <1>5, <1>7
  <2>2. ASSUME NEW m \in 1..(n-1), e[m-1] = s[m-1]  PROVE e[m] = s[m]
    <3>1. m \in 0..(n-1) /\ m - 1 \in 0..(n-1) /\ m + 1 \in 1..n /\ m + 1 # 1 /\ (m + 1) - 1 = m /\ (m - 1) + 1 = m
      BY <1>1
    <3>2. e[m] = g[m+1] /\ e[m-1] = g[m]
      BY <3>1
    <3>3. g[m+1] = g[(m+1)-1] \o seqs[m+1]
      BY <1>7, <3>1
    <3> QED  BY <1>5, <2>2, <3>1, <3>2, <3>3
  <2> HIDE DEF e
  <2>3. SameSteps(n - 1, e, s)
    BY <2>1, <2>2 DEF SameSteps
  <2> QED  BY <1>1, <2>3, RecursionUnique
<1>10. g[n] = s[n-1]
  <2>1. n - 1 \in 0..(n-1) /\ (n - 1) + 1 = n
    BY <1>1
  <2>2. e[n-1] = g[n]
    BY <2>1
  <2> QED  BY <1>9, <2>1, <2>2
<1> DEFINE Holds(i) == \A k \in 1..(i+1) : Members(seqs[k]) \subseteq Members(s[i])
           S == {i \in 0..(n-1) : Holds(i)}
<1>11. 0 \in S
  <2>1. \A k \in 1..(0+1) : k = 1
    OBVIOUS
  <2> QED  BY <1>1, <1>5, <2>1
<1>12. ASSUME NEW m \in 1..(n-1), m - 1 \in S  PROVE m \in S
  <2>1. Holds(m-1)
    BY <1>12
  <2>2. m + 1 \in 1..n /\ m - 1 \in 0..(n-1) /\ m \in 0..(n-1)
    BY <1>1
  <2>3. s[m-1] \in Seq(T) /\ seqs[m+1] \in Seq(T) /\ s[m] = s[m-1] \o seqs[m+1]
    BY <1>5, <2>2
  <2>4. Members(s[m-1]) \subseteq Members(s[m]) /\ Members(seqs[m+1]) \subseteq Members(s[m])
    BY <2>3, MembersJoin
  <2>5. ASSUME NEW k \in 1..(m+1)  PROVE Members(seqs[k]) \subseteq Members(s[m])
    <3>1. k = m + 1 \/ k \in 1..((m-1)+1)
      OBVIOUS
    <3> QED  BY <2>1, <2>4, <3>1
  <2> QED  BY <2>2, <2>5
<1> HIDE DEF S
<1>13. 0..(n-1) \subseteq S
  BY <1>1, <1>11, <1>12, BoundedInduction
<1>14. Holds(n-1)
  BY <1>1, <1>13 DEF S
<1>15. \A k \in 1..n : Members(seqs[k]) \subseteq Members(s[n-1])
  <2>1. (n - 1) + 1 = n
    OBVIOUS
  <2> QED  BY <1>14, <2>1
<1>16. s[n-1] \in Seq(T)
  BY <1>1, <1>5
<1> QED  BY <1>8, <1>10, <1>15, <1>16

\* What one turn of main's loops creates.
LEMMA CreatedIs ==
  ASSUME NEW i \in 0..(Size-1), NEW j \in 0..(Size-1)
  PROVE  /\ Checker!CreatedAt(i, j) \in Seq(Checkers)
         /\ \A t \in Checkers : t[2] = i /\ t[3] = j => t \in Members(Checker!CreatedAt(i, j))
<1> DEFINE b == IF i % Box = 0 /\ j % Box = 0 THEN << <<"box", i, j>> >> ELSE <<>>
           c == IF i = 0 THEN << <<"column", i, j>> >> ELSE <<>>
           r == IF j = 0 THEN << <<"row", i, j>> >> ELSE <<>>
<1>1. i % Box = 0 /\ j % Box = 0 <=> i \in Corners /\ j \in Corners
  BY CornerIs
<1>2. b \in Seq(Checkers) /\ (i \in Corners /\ j \in Corners => <<"box", i, j>> \in Members(b))
  <2>1. CASE i \in Corners /\ j \in Corners
    <3>1. b = << <<"box", i, j>> >> /\ <<"box", i, j>> \in Checkers
      BY <1>1, <2>1 DEF Checkers
    <3> HIDE DEF b
    <3>2. b \in Seq(Checkers) /\ Len(b) = 1 /\ b[1] = <<"box", i, j>>
      BY <3>1
    <3> QED  BY <3>2 DEF Members
  <2>2. CASE ~(i \in Corners /\ j \in Corners)
    BY <1>1, <2>2
  <2> QED  BY <2>1, <2>2
<1>3. c \in Seq(Checkers) /\ (i = 0 => <<"column", i, j>> \in Members(c))
  <2>1. CASE i = 0
    <3>1. c = << <<"column", i, j>> >> /\ <<"column", i, j>> \in Checkers
      BY <2>1 DEF Checkers
    <3> HIDE DEF c
    <3>2. c \in Seq(Checkers) /\ Len(c) = 1 /\ c[1] = <<"column", i, j>>
      BY <3>1
    <3> QED  BY <3>2 DEF Members
  <2>2. CASE i # 0
    BY <2>2
  <2> QED  BY <2>1, <2>2
<1>4. r \in Seq(Checkers) /\ (j = 0 => <<"row", i, j>> \in Members(r))
  <2>1. CASE j = 0
    <3>1. r = << <<"row", i, j>> >> /\ <<"row", i, j>> \in Checkers
      BY <2>1 DEF Checkers
    <3> HIDE DEF r
    <3>2. r \in Seq(Checkers) /\ Len(r) = 1 /\ r[1] = <<"row", i, j>>
      BY <3>1
    <3> QED  BY <3>2 DEF Members
  <2>2. CASE j # 0
    BY <2>2
  <2> QED  BY <2>1, <2>2
<1>5. Checker!CreatedAt(i, j) = (b \o c) \o r
  BY DEF Checker!CreatedAt
<1> HIDE DEF b, c, r
<1>6. b \o c \in Seq(Checkers) /\ Members(b) \subseteq Members(b \o c) /\ Members(c) \subseteq Members(b \o c)
  BY <1>2, <1>3, MembersJoin
<1>7. /\ (b \o c) \o r \in Seq(Checkers) /\ Members(b \o c) \subseteq Members((b \o c) \o r)
      /\ Members(r) \subseteq Members((b \o c) \o r)
  BY <1>4, <1>6, MembersJoin
<1>8. ASSUME NEW t \in Checkers, t[2] = i, t[3] = j  PROVE t \in Members((b \o c) \o r)
  <2>1. \/ t = <<"box", i, j>> /\ i \in Corners /\ j \in Corners
        \/ t = <<"column", i, j>> /\ i = 0
        \/ t = <<"row", i, j>> /\ j = 0
    BY <1>8 DEF Checkers
  <2> QED  BY <1>2, <1>3, <1>4, <1>6, <1>7, <2>1
<1> QED  BY <1>5, <1>7, <1>8

Turns == [k \in 1..(Size * Size) |-> Checker!CreatedAt((k-1) \div Size, (k-1) % Size)]

\* main creates a thread for every row, column and box, and no other.
LEMMA AllCreated ==
  Checker!FlattenSeq(Turns) \in Seq(Checkers) /\ Checkers \subseteq Members(Checker!FlattenSeq(Turns))
<1>1. Size \in Nat \ {0} /\ DivMod(Size)
  BY BoxIs, DivModIs
<1>2. Size * Size \in Nat \ {0}
  BY <1>1
<1>3. ASSUME NEW k \in 1..(Size * Size)  PROVE (k-1) \div Size \in 0..(Size-1) /\ (k-1) % Size \in 0..(Size-1)
  <2>1. k - 1 \in 0..(Size * Size - 1)
    BY <1>2
  <2> QED  BY <1>1, <2>1 DEF DivMod
<1>4. Turns \in [1..(Size * Size) -> Seq(Checkers)]
  BY <1>3, CreatedIs DEF Turns
<1>5. /\ Checker!FlattenSeq(Turns) \in Seq(Checkers)
      /\ \A k \in 1..(Size * Size) : Members(Turns[k]) \subseteq Members(Checker!FlattenSeq(Turns))
  BY <1>2, <1>4, FlattenMembers
<1>6. ASSUME NEW t \in Checkers  PROVE t \in Members(Checker!FlattenSeq(Turns))
  <2>1. t[2] \in 0..(Size-1) /\ t[3] \in 0..(Size-1)
    BY <1>1, CornerIs DEF Checkers, Corners
  <2>2. PICK i, j : i = t[2] /\ j = t[3]
    OBVIOUS
  <2>3. i \in 0..(Size-1) /\ j \in 0..(Size-1)
    BY <2>1, <2>2
  <2> DEFINE k == i * Size + j + 1
  <2>4. k \in 1..(Size * Size) /\ k - 1 = i * Size + j
    <3>1. i * Size >= 0 /\ i * Size <= (Size - 1) * Size /\ i * Size \in Int
      BY <1>1, <2>3
    <3>2. (Size - 1) * Size = Size * Size - Size
      BY <1>1
    <3> QED  BY <1>1, <1>2, <2>3, <3>1, <3>2
  <2>5. (k - 1) \div Size = i /\ (k - 1) % Size = j
    <3>1. (i * Size + j) \div Size = i /\ (i * Size + j) % Size = j
      BY <1>1, <2>3 DEF DivMod
    <3> QED  BY <2>4, <3>1
  <2>6. Turns[k] = Checker!CreatedAt(i, j)
    BY <2>4, <2>5 DEF Turns
  <2>7. t \in Members(Turns[k])
    BY <2>2, <2>3, <2>6, CreatedIs
  <2> QED  BY <1>5, <2>4, <2>7
<1> QED  BY <1>5, <1>6

LEMMA OwnIndexIs ==
  /\ \A t \in Checkers : Checker!OwnIndex(t) \in 0..(3 * Size - 1)
  /\ \A t, u \in Checkers : Checker!OwnIndex(t) = Checker!OwnIndex(u) => t = u
  /\ \A k \in 0..(3 * Size - 1) : \E t \in Checkers : Checker!OwnIndex(t) = k
<1>1. Box \in Nat \ {0} /\ Size = Box * Box /\ Size \in Nat \ {0} /\ DivMod(Box)
  BY BoxIs, DivModIs
<1> DEFINE Offsets == 0..(Box-1)
           Owned(a, b) == a * Box + b
<1>2. ASSUME NEW a \in Offsets, NEW b \in Offsets
      PROVE  /\ Checker!OwnIndex(<<"box", Box * a, Box * b>>) = Owned(a, b)
             /\ Owned(a, b) \in 0..(Size-1) /\ Owned(a, b) \div Box = a /\ Owned(a, b) % Box = b
  <2>1. (Box * b) \div Box = b
    BY CornerIs
  <2>2. Box * a = a * Box /\ a \in Nat /\ a * Box \in Int /\ Box * Box \in Int
    BY <1>1
  <2>3. Owned(a, b) \div Box = a /\ Owned(a, b) % Box = b
    BY <1>1, <2>2 DEF DivMod
  <2>4. a * Box >= 0 /\ a * Box <= (Box - 1) * Box /\ (Box - 1) * Box = Box * Box - Box
    BY <1>1
  <2>5. Owned(a, b) \in 0..(Size-1)
    BY <1>1, <2>2, <2>4
  <2> QED  BY <2>1, <2>2, <2>3, <2>5 DEF Checker!OwnIndex
<1>3. \A y \in 0..(Size-1) : Checker!OwnIndex(<<"column", 0, y>>) = 2 * Size + y
  BY DEF Checker!OwnIndex, Size
<1>4. \A x \in 0..(Size-1) : Checker!OwnIndex(<<"row", x, 0>>) = Size + x
  BY DEF Checker!OwnIndex, Size
<1> HIDE DEF Owned
<1>5. ASSUME NEW t \in Checkers
      PROVE  \/ /\ Checker!OwnIndex(t) \in 0..(Size-1)
                /\ \E a, b \in Offsets : t = <<"box", Box * a, Box * b>> /\ Checker!OwnIndex(t) = Owned(a, b)
             \/ /\ Checker!OwnIndex(t) \in Size..(2*Size-1)
                /\ t = <<"row", Checker!OwnIndex(t) - Size, 0>>
             \/ /\ Checker!OwnIndex(t) \in (2*Size)..(3*Size-1)
                /\ t = <<"column", 0, Checker!OwnIndex(t) - 2 * Size>>
  <2>1. CASE \E x, y \in Corners : t = <<"box", x, y>>
    BY <1>2, <2>1 DEF Corners
  <2>2. CASE \E y \in 0..(Size-1) : t = <<"column", 0, y>>
    <3>1. PICK y \in 0..(Size-1) : t = <<"column", 0, y>>
      BY <2>2
    <3>2. Checker!OwnIndex(t) = 2 * Size + y
      BY <1>3, <3>1
    <3>3. 2 * Size + y \in (2*Size)..(3*Size-1) /\ (2 * Size + y) - 2 * Size = y
      BY <1>1
    <3> QED  BY <3>1, <3>2, <3>3
  <2>3. CASE \E x \in 0..(Size-1) : t = <<"row", x, 0>>
    <3>1. PICK x \in 0..(Size-1) : t = <<"row", x, 0>>
      BY <2>3
    <3>2. Checker!OwnIndex(t) = Size + x
      BY <1>4, <3>1
    <3>3. Size + x \in Size..(2*Size-1) /\ (Size + x) - Size = x
      BY <1>1
    <3> QED  BY <3>1, <3>2, <3>3
  <2> QED  BY <2>1, <2>2, <2>3 DEF Checkers
<1>6. ASSUME NEW t \in Checkers  PROVE Checker!OwnIndex(t) \in 0..(3 * Size - 1)
  <2>1. /\ 0..(Size-1) \subseteq 0..(3*Size-1) /\ Size..(2*Size-1) \subseteq 0..(3*Size-1)
        /\ (2*Size)..(3*Size-1) \subseteq 0..(3*Size-1)
    BY <1>1
  <2> QED  BY <1>5, <2>1
<1>7. ASSUME NEW t \in Checkers, NEW u \in Checkers, Checker!OwnIndex(t) = Checker!OwnIndex(u)  PROVE t = u
  <2>1. \A k : ~(k \in 0..(Size-1) /\ k \in Size..(2*Size-1)) /\ ~(k \in 0..(Size-1) /\ k \in (2*Size)..(3*Size-1))
               /\ ~(k \in Size..(2*Size-1) /\ k \in (2*Size)..(3*Size-1))
    BY <1>1
  <2>2. CASE Checker!OwnIndex(t) \in 0..(Size-1)
    <3>1. PICK a, b \in Offsets : t = <<"box", Box * a, Box * b>> /\ Checker!OwnIndex(t) = Owned(a, b)
      BY <1>5, <2>1, <2>2
    <3>2. PICK c, d \in Offsets : u = <<"box", Box * c, Box * d>> /\ Checker!OwnIndex(u) = Owned(c, d)
      BY <1>5, <1>7, <2>1, <2>2
    <3>3. a = c /\ b = d
      <4>1. Owned(a, b) = Owned(c, d)
        BY <1>7, <3>1, <3>2
      <4>2. Owned(a, b) \div Box = a /\ Owned(a, b) % Box = b
        BY <1>2
      <4>3. Owned(c, d) \div Box = c /\ Owned(c, d) % Box = d
        BY <1>2
      <4> QED  BY <4>1, <4>2, <4>3
    <3> QED  BY <3>1, <3>2, <3>3
  <2>3. CASE Checker!OwnIndex(t) \in Size..(2*Size-1)
    BY <1>5, <1>7, <2>1, <2>3
  <2>4. CASE Checker!OwnIndex(t) \in (2*Size)..(3*Size-1)
    BY <1>5, <1>7, <2>1, <2>4
  <2> QED  BY <1>5, <2>2, <2>3, <2>4
<1>8. ASSUME NEW k \in 0..(3 * Size - 1)  PROVE \E t \in Checkers : Checker!OwnIndex(t) = k
  <2>1. CASE k \in 0..(Size-1)
    <3>1. k \in 0..(Box * Box - 1) /\ k \in Nat
      BY <1>1, <2>1
    <3> DEFINE a == k \div Box
               b == k % Box
               t == <<"box", Box * a, Box * b>>
    <3>2. a \in Offsets /\ b \in Offsets /\ k = Box * a + b
      BY <1>1, <3>1 DEF DivMod
    <3> HIDE DEF a, b
    <3>3. t \in Checkers
      BY <3>2 DEF Checkers, Corners
    <3>4. Owned(a, b) = k
      BY <1>1, <3>2 DEF Owned
    <3> QED  BY <1>2, <3>2, <3>3, <3>4
  <2>2. CASE k \in Size..(2*Size-1)
    <3>1. k - Size \in 0..(Size-1) /\ Size + (k - Size) = k
      BY <1>1, <2>2
    <3>2. <<"row", k - Size, 0>> \in Checkers
      BY <3>1 DEF Checkers
    <3> QED  BY <1>4, <3>1, <3>2
  <2>3. CASE k \in (2*Size)..(3*Size-1)
    <3>1. k - 2 * Size \in 0..(Size-1) /\ 2 * Size + (k - 2 * Size) = k
      BY <1>1, <2>3
    <3>2. <<"column", 0, k - 2 * Size>> \in Checkers
      BY <3>1 DEF Checkers
    <3> QED  BY <1>3, <3>1, <3>2
  <2> QED  BY <1>1, <2>1, <2>2, <2>3
<1> QED  BY <1>6, <1>7, <1>8

LEMMA SizeIs ==
  /\ IsFiniteSet(0..(Size-1)) /\ Cardinality(0..(Size-1)) = Size
  /\ IsFiniteSet(1..Size) /\ Cardinality(1..Size) = Size
<1>1. Size \in Nat \ {0} /\ 0 \in Int /\ 1 \in Int /\ Size \in Int /\ Size - 1 \in Int
  BY BoxIs
<1>2. IsFiniteSet(0..(Size-1)) /\ Cardinality(0..(Size-1)) = IF 0 > Size - 1 THEN 0 ELSE (Size - 1) - 0 + 1
  BY <1>1, FS_Interval
<1>3. IsFiniteSet(1..Size) /\ Cardinality(1..Size) = IF 1 > Size THEN 0 ELSE Size - 1 + 1
  BY <1>1, FS_Interval
<1> QED  BY <1>1, <1>2, <1>3

\* A region has as many cells as there are numbers.
LEMMA RegionSize ==
  ASSUME NEW t \in Checkers
  PROVE  IsFiniteSet(Checker!Region(t)) /\ Cardinality(Checker!Region(t)) = Size
<1>1. Box \in Nat \ {0} /\ Size = Box * Box /\ Size \in Nat \ {0} /\ DivMod(Box)
  BY BoxIs, DivModIs
<1> DEFINE S == 0..(Size-1)
           R == Checker!Region(t)
<1>2. IsFiniteSet(S) /\ Cardinality(S) = Size
  BY SizeIs
<1>3. ASSUME NEW f \in Bijection(S, R)  PROVE IsFiniteSet(R) /\ Cardinality(R) = Size
  <2>1. ExistsBijection(S, R)
    BY <1>3 DEF ExistsBijection
  <2> HIDE DEF S, R
  <2> QED  BY <1>2, <2>1, FS_Bijection
<1>4. CASE \E x, y \in Corners : t = <<"box", x, y>>
  <2>1. PICK x, y \in Corners : t = <<"box", x, y>>
    BY <1>4
  <2>2. x \in Int /\ y \in Int
    BY <1>1, <2>1 DEF Corners
  <2>3. R = {<<x + c, y + d>> : c, d \in 0..(Box-1)}
    BY <2>1 DEF Checker!Region
  <2> DEFINE f == [k \in S |-> <<x + (k \div Box), y + (k % Box)>>]
  <2>4. \A k \in S : k \div Box \in 0..(Box-1) /\ k % Box \in 0..(Box-1) /\ k = Box * (k \div Box) + (k % Box)
    <3>1. \A k \in S : k \in 0..(Box * Box - 1) /\ k \in Nat
      BY <1>1
    <3> QED  BY <1>1, <3>1 DEF DivMod
  <2>5. f \in [S -> R]
    BY <2>3, <2>4
  <2>6. ASSUME NEW k \in S, NEW l \in S, f[k] = f[l]  PROVE k = l
    <3>1. x + (k \div Box) = x + (l \div Box) /\ y + (k % Box) = y + (l % Box)
      BY <2>6
    <3>2. k \div Box = l \div Box /\ k % Box = l % Box
      BY <2>2, <2>4, <3>1
    <3> QED  BY <2>4, <3>2
  <2>7. ASSUME NEW r \in R  PROVE \E k \in S : f[k] = r
    <3>1. PICK c, d \in 0..(Box-1) : r = <<x + c, y + d>>
      BY <2>3
    <3>2. c * Box + d \in S
      <4>1. c * Box >= 0 /\ c * Box <= (Box - 1) * Box /\ (Box - 1) * Box = Box * Box - Box
            /\ c * Box \in Int /\ Box * Box \in Int
        BY <1>1
      <4> QED  BY <1>1, <4>1
    <3>3. (c * Box + d) \div Box = c /\ (c * Box + d) % Box = d
      BY <1>1 DEF DivMod
    <3> QED  BY <3>1, <3>2, <3>3
  <2> HIDE DEF f, S, R
  <2>8. f \in Bijection(S, R)
    BY <2>5, <2>6, <2>7 DEF Bijection, Injection, Surjection, IsInjective
  <2> QED  BY <1>3, <2>8 DEF R
<1>5. CASE \E y \in S : t = <<"column", 0, y>>
  <2>1. PICK y \in S : t = <<"column", 0, y>>
    BY <1>5
  <2>2. R = {<<x, y>> : x \in S}
    BY <2>1 DEF Checker!Region, Checker!Cells, Size
  <2> DEFINE f == [x \in S |-> <<x, y>>]
  <2>3. f \in [S -> R] /\ (\A k, l \in S : f[k] = f[l] => k = l) /\ \A r \in R : \E k \in S : f[k] = r
    BY <2>2
  <2> HIDE DEF f, S, R
  <2>4. f \in Bijection(S, R)
    BY <2>3 DEF Bijection, Injection, Surjection, IsInjective
  <2> QED  BY <1>3, <2>4 DEF R
<1>6. CASE \E x \in S : t = <<"row", x, 0>>
  <2>1. PICK x \in S : t = <<"row", x, 0>>
    BY <1>6
  <2>2. R = {<<x, y>> : y \in S}
    BY <2>1 DEF Checker!Region, Checker!Cells, Size
  <2> DEFINE f == [y \in S |-> <<x, y>>]
  <2>3. f \in [S -> R] /\ (\A k, l \in S : f[k] = f[l] => k = l) /\ \A r \in R : \E k \in S : f[k] = r
    BY <2>2
  <2> HIDE DEF f, S, R
  <2>4. f \in Bijection(S, R)
    BY <2>3 DEF Bijection, Injection, Surjection, IsInjective
  <2> QED  BY <1>3, <2>4 DEF R
<1> QED  BY <1>4, <1>5, <1>6 DEF Checkers

\* The loops of a thread find every number in its region exactly if they find no
\* number twice and none out of range.
LEMMA RegionValidIs ==
  ASSUME NEW t \in Checkers
  PROVE  Checker!RegionValid(t) <=> {sudoku[c] : c \in Checker!Region(t)} = 1..Size
<1> DEFINE R == Checker!Region(t)
           T == 1..Size
           f == [c \in R |-> sudoku[c]]
<1>1. IsFiniteSet(R) /\ Cardinality(R) = Size
  BY RegionSize
<1>2. IsFiniteSet(T) /\ Cardinality(T) = Size
  BY SizeIs
<1>3. Checker!RegionValid(t) <=> (\A c \in R : sudoku[c] \in T) /\ \A c, d \in R : sudoku[c] = sudoku[d] => c = d
  BY DEF Checker!RegionValid, Size
<1> HIDE DEF R, T
<1>4. ASSUME Checker!RegionValid(t)  PROVE {sudoku[c] : c \in R} = T
  <2>1. f \in Injection(R, T)
    BY <1>3, <1>4 DEF Injection, IsInjective
  <2> HIDE DEF f
  <2>2. f \in Surjection(R, T)
    BY <1>1, <1>2, <2>1, FS_Injection
  <2>3. \A n \in T : \E c \in R : f[c] = n
    BY <2>2 DEF Surjection
  <2> QED  BY <1>3, <1>4, <2>3 DEF f
<1>5. ASSUME {sudoku[c] : c \in R} = T  PROVE Checker!RegionValid(t)
  <2>1. \A c \in R : sudoku[c] \in T
    BY <1>5
  <2>2. \A n \in T : \E c \in R : sudoku[c] = n
    BY <1>5
  <2>3. f \in Surjection(R, T)
    BY <2>1, <2>2 DEF Surjection
  <2>4. \A c, d \in R : f[c] = f[d] => c = d
    <3> HIDE DEF f
    <3>1. f \in Injection(R, T)
      BY <1>1, <1>2, <2>3, FS_Surjection
    <3> QED  BY <3>1 DEF Injection, IsInjective
  <2>5. \A c, d \in R : sudoku[c] = sudoku[d] => c = d
    BY <2>4
  <2> QED  BY <1>3, <2>1, <2>5
<1> QED  BY <1>4, <1>5 DEF R, T

\* The threads look at the rows, the columns and the boxes.
LEMMA SolutionIs ==
  IsSolution(sudoku) <=> \A t \in Checkers : Checker!RegionValid(t)
<1> DEFINE Full(S) == S = 1..Size
           Image(t) == {sudoku[c] : c \in Checker!Region(t)}
           InBox(x, y) == {sudoku[<<x+i, y+j>>] : i, j \in 0..(Box-1)}
<1>1. /\ Checker!Cells = 0..(Size-1) /\ Checker!Size = Size
      /\ {Box * k : k \in 0..(Box-1)} = Corners
  BY DEF Checker!Cells, Size, Corners
<1>2. \A x \in 0..(Size-1) : Image(<<"row", x, 0>>) = {sudoku[<<x, y>>] : y \in 0..(Size-1)}
  <2> TAKE x \in 0..(Size-1)
  <2>1. Checker!Region(<<"row", x, 0>>) = {<<x, y>> : y \in 0..(Size-1)}
    BY <1>1 DEF Checker!Region
  <2> QED  BY <2>1
<1>3. \A y \in 0..(Size-1) : Image(<<"column", 0, y>>) = {sudoku[<<x, y>>] : x \in 0..(Size-1)}
  <2> TAKE y \in 0..(Size-1)
  <2>1. Checker!Region(<<"column", 0, y>>) = {<<x, y>> : x \in 0..(Size-1)}
    BY <1>1 DEF Checker!Region
  <2> QED  BY <2>1
<1>4. ASSUME NEW x \in Corners, NEW y \in Corners
      PROVE  Image(<<"box", x, y>>) = InBox(x, y)
  <2>1. Checker!Region(<<"box", x, y>>) = {<<x + i, y + j>> : i, j \in 0..(Box-1)}
    BY DEF Checker!Region
  <2>2. \A n : n \in Image(<<"box", x, y>>) <=> \E i, j \in 0..(Box-1) : n = sudoku[<<x + i, y + j>>]
    <3>1. \A n : n \in Image(<<"box", x, y>>) <=> \E c \in Checker!Region(<<"box", x, y>>) : n = sudoku[c]
      OBVIOUS
    <3>2. \A c : c \in Checker!Region(<<"box", x, y>>) <=> \E i, j \in 0..(Box-1) : c = <<x + i, y + j>>
      BY <2>1
    <3>3. ASSUME NEW n, n \in Image(<<"box", x, y>>)  PROVE \E i, j \in 0..(Box-1) : n = sudoku[<<x + i, y + j>>]
      <4>1. PICK c \in Checker!Region(<<"box", x, y>>) : n = sudoku[c]
        BY <3>1, <3>3
      <4>2. PICK i, j \in 0..(Box-1) : c = <<x + i, y + j>>
        BY <3>2
      <4> QED  BY <4>1, <4>2
    <3>4. ASSUME NEW n, NEW i \in 0..(Box-1), NEW j \in 0..(Box-1), n = sudoku[<<x + i, y + j>>]
          PROVE  n \in Image(<<"box", x, y>>)
      <4>1. <<x + i, y + j>> \in Checker!Region(<<"box", x, y>>)
        BY <3>2
      <4> QED  BY <3>1, <3>4, <4>1
    <3> HIDE DEF Image
    <3> QED  BY <3>3, <3>4
  <2>3. \A n : n \in InBox(x, y) <=> \E i, j \in 0..(Box-1) : n = sudoku[<<x + i, y + j>>]
    OBVIOUS
  <2> HIDE DEF Image, InBox
  <2> QED  BY <2>2, <2>3
<1>5. IsSolution(sudoku) <=>
        /\ \A x \in 0..(Size-1) : Full({sudoku[<<x, y>>] : y \in 0..(Size-1)})
        /\ \A y \in 0..(Size-1) : Full({sudoku[<<x, y>>] : x \in 0..(Size-1)})
        /\ \A x, y \in Corners : Full(InBox(x, y))
  BY DEF IsSolution, Checker!Cells, Size, Corners
<1>6. \A t \in Checkers : Checker!RegionValid(t) <=> Full(Image(t))
  BY RegionValidIs
<1> HIDE DEF Full, Image, InBox
<1>7. IsSolution(sudoku) <=>
        /\ \A x \in 0..(Size-1) : Full(Image(<<"row", x, 0>>))
        /\ \A y \in 0..(Size-1) : Full(Image(<<"column", 0, y>>))
        /\ \A x, y \in Corners : Full(Image(<<"box", x, y>>))
  <2>1. (\A x \in 0..(Size-1) : Full({sudoku[<<x, y>>] : y \in 0..(Size-1)}))
          <=> \A x \in 0..(Size-1) : Full(Image(<<"row", x, 0>>))
    BY <1>2
  <2>2. (\A y \in 0..(Size-1) : Full({sudoku[<<x, y>>] : x \in 0..(Size-1)}))
          <=> \A y \in 0..(Size-1) : Full(Image(<<"column", 0, y>>))
    BY <1>3
  <2>3. (\A x, y \in Corners : Full(InBox(x, y)))
          <=> \A x, y \in Corners : Full(Image(<<"box", x, y>>))
    BY <1>4
  <2> QED  BY <1>5, <2>1, <2>2, <2>3
<1>8. (\A t \in Checkers : Full(Image(t))) <=>
        /\ \A x \in 0..(Size-1) : Full(Image(<<"row", x, 0>>))
        /\ \A y \in 0..(Size-1) : Full(Image(<<"column", 0, y>>))
        /\ \A x, y \in Corners : Full(Image(<<"box", x, y>>))
  BY DEF Checkers
<1> QED  BY <1>6, <1>7, <1>8

-----------------------------------------------------------------------------
(* The Sudoku checker: the program. *)

\* A thread that is neither to come nor running has set its cell of valid[] if its
\* region is right, and only such a thread has.
CheckerInv ==
  /\ toCreate \in Seq(Checkers) /\ running \subseteq Checkers
  /\ valid \in [0..(3 * Size - 1) -> {0, 1}]
  /\ \A t \in Checkers : valid[Checker!OwnIndex(t)] = 1 => Checker!RegionValid(t)
  /\ \A t \in Checkers : t \in Members(toCreate) \/ t \in running
                           \/ (Checker!RegionValid(t) => valid[Checker!OwnIndex(t)] = 1)
  /\ verdict # "none" => (verdict = "valid" <=> IsSolution(sudoku))

LEMMA CheckerInit == Init => CheckerInv
<1> SUFFICES ASSUME Init  PROVE CheckerInv
  OBVIOUS
<1>1. PICK puzzle : Checker!Fresh(puzzle)
  BY DEF Init
<1>2. /\ valid = [k \in 0..(3 * Size - 1) |-> 0] /\ running = {} /\ verdict = "none"
      /\ toCreate = Checker!FlattenSeq(Turns)
  BY <1>1 DEF Checker!Fresh, Checker!num_threads, Turns, Size
<1>3. valid \in [0..(3 * Size - 1) -> {0, 1}] /\ \A t \in Checkers : valid[Checker!OwnIndex(t)] = 0
  <2>1. \A t \in Checkers : Checker!OwnIndex(t) \in 0..(3 * Size - 1)
    BY OwnIndexIs
  <2> QED  BY <1>2, <2>1
<1>4. toCreate \in Seq(Checkers) /\ Checkers \subseteq Members(toCreate)
  BY <1>2, AllCreated
<1>5. running \subseteq Checkers /\ verdict = "none"
  BY <1>2
<1>6. \A t \in Checkers : valid[Checker!OwnIndex(t)] # 1
  BY <1>3
<1> QED  BY <1>3, <1>4, <1>5, <1>6 DEF CheckerInv

LEMMA SameRegions ==
  ASSUME sudoku' = sudoku
  PROVE  /\ \A t \in Checkers : Checker!RegionValid(t)' <=> Checker!RegionValid(t)
         /\ IsSolution(sudoku)' <=> IsSolution(sudoku)
<1>1. \A t \in Checkers : Checker!RegionValid(t)' <=> Checker!RegionValid(t)
  BY DEF Checker!RegionValid
<1>2. IsSolution(sudoku)' <=> IsSolution(sudoku)
  BY DEF IsSolution
<1> QED  BY <1>1, <1>2

LEMMA CreateKeeps ==
  ASSUME CheckerInv, Checker!CreateThread
  PROVE  CheckerInv'
<1>1. /\ toCreate \in Seq(Checkers) /\ toCreate # <<>> /\ toCreate' = Tail(toCreate)
      /\ running' = running \cup {Head(toCreate)}
      /\ sudoku' = sudoku /\ valid' = valid /\ verdict' = verdict
  BY DEF CheckerInv, Checker!CreateThread
<1>2. toCreate' \in Seq(Checkers) /\ Head(toCreate) \in Checkers
  BY <1>1
<1>3. ASSUME NEW t \in Members(toCreate)  PROVE t \in Members(toCreate') \/ t \in running'
  <2>1. PICK k \in 1..Len(toCreate) : t = toCreate[k]
    BY DEF Members
  <2>2. CASE k = 1
    BY <1>1, <2>1, <2>2
  <2>3. CASE k # 1
    <3>1. k - 1 \in 1..Len(toCreate') /\ toCreate'[k-1] = toCreate[k]
      BY <1>1, <2>3
    <3> QED  BY <2>1, <3>1 DEF Members
  <2> QED  BY <2>2, <2>3
<1>4. running' \subseteq Checkers /\ running \subseteq running'
  BY <1>1, <1>2 DEF CheckerInv
<1> QED  BY <1>1, <1>2, <1>3, <1>4, SameRegions DEF CheckerInv

LEMMA RunKeeps ==
  ASSUME CheckerInv, NEW t \in running, Checker!RunThread(t)
  PROVE  CheckerInv'
<1>1. /\ t \in Checkers /\ running' = running \ {t} /\ running \subseteq Checkers
      /\ valid' = IF Checker!RegionValid(t) THEN [valid EXCEPT ![Checker!OwnIndex(t)] = 1] ELSE valid
      /\ sudoku' = sudoku /\ toCreate' = toCreate /\ verdict' = verdict
      /\ valid \in [0..(3 * Size - 1) -> {0, 1}]
  BY DEF CheckerInv, Checker!RunThread
<1>2. Checker!OwnIndex(t) \in 0..(3 * Size - 1)
  BY <1>1, OwnIndexIs
<1>3. /\ valid' \in [0..(3 * Size - 1) -> {0, 1}]
      /\ Checker!RegionValid(t) => valid'[Checker!OwnIndex(t)] = 1
      /\ ~Checker!RegionValid(t) => valid' = valid
      /\ \A k \in 0..(3 * Size - 1) : k # Checker!OwnIndex(t) => valid'[k] = valid[k]
  BY <1>1, <1>2
<1>4. ASSUME NEW u \in Checkers, u # t  PROVE valid'[Checker!OwnIndex(u)] = valid[Checker!OwnIndex(u)]
  BY <1>1, <1>3, <1>4, OwnIndexIs
<1>5. ASSUME NEW u \in Checkers, valid'[Checker!OwnIndex(u)] = 1  PROVE Checker!RegionValid(u)
  BY <1>1, <1>3, <1>4, <1>5 DEF CheckerInv
<1>6. ASSUME NEW u \in Checkers
      PROVE  u \in Members(toCreate') \/ u \in running'
               \/ (Checker!RegionValid(u) => valid'[Checker!OwnIndex(u)] = 1)
  BY <1>1, <1>3, <1>4 DEF CheckerInv
<1>7. verdict' # "none" => (verdict' = "valid" <=> IsSolution(sudoku))
  BY <1>1 DEF CheckerInv
<1> QED  BY <1>1, <1>3, <1>5, <1>6, <1>7, SameRegions DEF CheckerInv

LEMMA DecideKeeps ==
  ASSUME CheckerInv, Checker!Decide
  PROVE  CheckerInv'
<1>1. /\ toCreate = <<>> /\ running = {}
      /\ verdict' = IF \E k \in DOMAIN valid : valid[k] = 0 THEN "invalid" ELSE "valid"
      /\ sudoku' = sudoku /\ valid' = valid /\ toCreate' = toCreate /\ running' = running
  BY DEF Checker!Decide, Checker!JoinedAll
<1>2. Members(toCreate) = {}
  BY <1>1 DEF Members
<1>3. \A t \in Checkers : valid[Checker!OwnIndex(t)] = 1 <=> Checker!RegionValid(t)
  BY <1>1, <1>2 DEF CheckerInv
<1>4. (\E k \in DOMAIN valid : valid[k] = 0) <=> \E t \in Checkers : ~Checker!RegionValid(t)
  <2>1. valid \in [0..(3 * Size - 1) -> {0, 1}]
    BY DEF CheckerInv
  <2>2. ASSUME NEW k \in DOMAIN valid, valid[k] = 0  PROVE \E t \in Checkers : ~Checker!RegionValid(t)
    <3>1. PICK t \in Checkers : Checker!OwnIndex(t) = k
      BY <2>1, OwnIndexIs
    <3> QED  BY <1>3, <2>2, <3>1
  <2>3. ASSUME NEW t \in Checkers, ~Checker!RegionValid(t)  PROVE \E k \in DOMAIN valid : valid[k] = 0
    <3>1. Checker!OwnIndex(t) \in 0..(3 * Size - 1) /\ valid[Checker!OwnIndex(t)] # 1
      BY <1>3, <2>3, OwnIndexIs
    <3> QED  BY <2>1, <3>1
  <2> QED  BY <2>2, <2>3
<1>5. verdict' = "valid" <=> IsSolution(sudoku)
  BY <1>1, <1>4, SolutionIs
<1> QED  BY <1>1, <1>5, SameRegions DEF CheckerInv

LEMMA CheckerStep == CheckerInv /\ [Next]_vars => CheckerInv'
<1> SUFFICES ASSUME CheckerInv, [Next]_vars  PROVE CheckerInv'
  OBVIOUS
<1>1. CASE SudokuChecker
  <2>1. Checker!CreateThread \/ Checker!Decide \/ \E t \in running : Checker!RunThread(t)
    BY <1>1 DEF SudokuChecker, Checker!Next
  <2> QED  BY <2>1, CreateKeeps, RunKeeps, DecideKeeps
<1>2. CASE ~SudokuChecker
  <2>1. /\ sudoku' = sudoku /\ valid' = valid /\ toCreate' = toCreate
        /\ running' = running /\ verdict' = verdict
    BY <1>2 DEF Next, Run, MultithreadSorting, Quicksort, Mergesort, AfterEnd, vars, checkerVars
  <2> QED  BY <2>1, SameRegions DEF CheckerInv
<1> QED  BY <1>1, <1>2

\* sudoku.c prints "valid" exactly for the solutions, in every interleaving of its
\* threads and for boards of every size.
THEOREM VerdictIsRight == Spec => []VerdictRight
<1>1. Init => CheckerInv
  BY CheckerInit
<1>2. CheckerInv /\ [Next]_vars => CheckerInv'
  BY CheckerStep
<1>3. CheckerInv => VerdictRight
  BY DEF CheckerInv, VerdictRight
<1> QED  BY <1>1, <1>2, <1>3, PTL DEF Spec
-----------------------------------------------------------------------------
(* The multithreaded sort: the calls of merge() that merge_sort() makes. *)

Index == Threaded!Index

\* The two parts that a call merges.
Halves(c) ==
  {<<c[1], Threaded!Mid(c[1], c[2])>>, <<Threaded!Mid(c[1], c[2]) + 1, c[2]>>}

ClearOf(c, h) == c[2] < h[1] \/ h[2] < c[1]

\* Call k finds part h as an earlier call has left it.
LeftBy(s, k, h) ==
  \E j \in 1..(k-1) : s[j] = h /\ \A i \in (j+1)..(k-1) : ClearOf(s[i], h)

Ranged(c, lo, hi) == c \in Int \X Int /\ lo <= c[1] /\ c[1] < c[2] /\ c[2] <= hi

\* The calls s sort the range lo..hi from the bottom.
Prepared(s, lo, hi) ==
  /\ s \in Seq(Int \X Int)
  /\ \A k \in 1..Len(s) : Ranged(s[k], lo, hi) /\ \A h \in Halves(s[k]) : h[1] = h[2] \/ LeftBy(s, k, h)
  /\ IF lo = hi THEN s = <<>> ELSE Len(s) > 0 /\ s[Len(s)] = <<lo, hi>>

LEMMA LengthIs == array_length \in Nat /\ array_length >= 2
  BY Project3Assumption DEF Threaded!Parameters

LEMMA MidIs ==
  ASSUME NEW l \in Int, NEW r \in Int, l < r
  PROVE  Threaded!Mid(l, r) \in Int /\ l <= Threaded!Mid(l, r) /\ Threaded!Mid(l, r) < r
  BY DEF Threaded!Mid

\* First the calls for the two parts, then the one that merges them.
LEMMA PreparedJoin ==
  ASSUME NEW l \in Int, NEW r \in Int, l < r, NEW m \in Int, m = Threaded!Mid(l, r),
         NEW s, Prepared(s, l, m), NEW t, Prepared(t, m + 1, r)
  PROVE  Prepared((s \o t) \o << <<l, r>> >>, l, r)
<1> DEFINE p == <<l, r>>
           u == (s \o t) \o <<p>>
           S == Len(s)
           T == Len(t)
<1>1. l <= m /\ m < r
  BY MidIs
<1>2. s \in Seq(Int \X Int) /\ t \in Seq(Int \X Int) /\ <<p>> \in Seq(Int \X Int) /\ Len(<<p>>) = 1 /\ <<p>>[1] = p
  BY DEF Prepared
<1>3. /\ s \o t \in Seq(Int \X Int) /\ Len(s \o t) = S + T
      /\ \A k \in 1..S : (s \o t)[k] = s[k]
      /\ \A k \in 1..T : (s \o t)[S + k] = t[k]
  BY <1>2, JoinIs
<1>4. S \in Nat /\ T \in Nat
  BY <1>2
<1> HIDE DEF S, T
<1>5. /\ u \in Seq(Int \X Int) /\ Len(u) = S + T + 1
      /\ \A k \in 1..(S + T) : u[k] = (s \o t)[k]
      /\ u[S + T + 1] = p
  <2>1. /\ u \in Seq(Int \X Int) /\ Len(u) = Len(s \o t) + Len(<<p>>)
        /\ \A k \in 1..Len(s \o t) : u[k] = (s \o t)[k]
        /\ \A k \in 1..Len(<<p>>) : u[Len(s \o t) + k] = <<p>>[k]
    BY <1>2, <1>3, JoinIs, SMTT(30)
  <2>2. 1 \in 1..Len(<<p>>)
    BY <1>2
  <2>3. u[Len(s \o t) + 1] = p
    BY <1>2, <2>1, <2>2
  <2> HIDE DEF u, p
  <2>4. Len(u) = (S + T) + 1
    BY <1>2, <1>3, <2>1
  <2>5. \A k \in 1..(S + T) : u[k] = (s \o t)[k]
    BY <1>3, <2>1
  <2>6. u[(S + T) + 1] = p
    BY <1>3, <2>3
  <2> QED  BY <2>1, <2>4, <2>5, <2>6
<1> HIDE DEF u, p
<1>6. \A k \in 1..S : u[k] = s[k] /\ k \in 1..(S + T)
  <2>1. \A k \in 1..S : k \in 1..(S + T)
    BY <1>4
  <2> QED  BY <1>3, <1>5, <2>1
<1>7. \A k \in 1..T : u[S + k] = t[k] /\ S + k \in 1..(S + T)
  <2>1. \A k \in 1..T : S + k \in 1..(S + T)
    BY <1>4
  <2> QED  BY <1>3, <1>5, <2>1
\* A call for the lower part.
<1>8. ASSUME NEW k \in 1..S
      PROVE  Ranged(u[k], l, r) /\ \A h \in Halves(u[k]) : h[1] = h[2] \/ LeftBy(u, k, h)
  <2>1. Ranged(s[k], l, m) /\ \A h \in Halves(s[k]) : h[1] = h[2] \/ LeftBy(s, k, h)
    BY DEF Prepared, S
  <2>2. Ranged(u[k], l, r)
    BY <1>1, <1>6, <2>1 DEF Ranged
  <2>3. ASSUME NEW h, LeftBy(s, k, h)  PROVE LeftBy(u, k, h)
    <3>1. \A j \in 1..(k-1) : u[j] = s[j]
      BY <1>4, <1>6
    <3>2. PICK j \in 1..(k-1) : s[j] = h /\ \A i \in (j+1)..(k-1) : ClearOf(s[i], h)
      BY <2>3 DEF LeftBy
    <3>3. \A i \in (j+1)..(k-1) : i \in 1..(k-1)
      BY <1>4
    <3> QED  BY <3>1, <3>2, <3>3 DEF LeftBy
  <2> QED  BY <1>6, <2>1, <2>2, <2>3
\* A call for the upper part.
<1>9. ASSUME NEW k \in 1..T
      PROVE  Ranged(u[S+k], l, r) /\ \A h \in Halves(u[S+k]) : h[1] = h[2] \/ LeftBy(u, S + k, h)
  <2>1. Ranged(t[k], m + 1, r) /\ \A h \in Halves(t[k]) : h[1] = h[2] \/ LeftBy(t, k, h)
    BY DEF Prepared, T
  <2>2. Ranged(u[S+k], l, r)
    BY <1>1, <1>7, <2>1 DEF Ranged
  <2>3. ASSUME NEW h, LeftBy(t, k, h)  PROVE LeftBy(u, S + k, h)
    <3>1. PICK j \in 1..(k-1) : t[j] = h /\ \A i \in (j+1)..(k-1) : ClearOf(t[i], h)
      BY <2>3 DEF LeftBy
    <3>2. S + j \in 1..((S + k) - 1) /\ u[S+j] = h
      <4>1. j \in 1..T
        BY <1>4
      <4> QED  BY <1>4, <1>7, <3>1, <4>1
    <3>3. ASSUME NEW i \in (S+j+1)..((S+k)-1)  PROVE ClearOf(u[i], h)
      <4>1. i - S \in (j+1)..(k-1) /\ i - S \in 1..T /\ S + (i - S) = i
        BY <1>4
      <4>2. u[i] = t[i-S]
        BY <1>7, <4>1
      <4> QED  BY <3>1, <4>1, <4>2
    <3> DEFINE J == S + j
               N == S + k
    <3>4. J \in 1..(N - 1) /\ u[J] = h /\ \A i \in (J+1)..(N-1) : ClearOf(u[i], h)
      BY <3>2, <3>3
    <3> HIDE DEF J, N
    <3>5. LeftBy(u, N, h)
      BY <3>4 DEF LeftBy
    <3> QED  BY <3>5 DEF N
  <2> QED  BY <1>7, <2>1, <2>2, <2>3
\* The last one.
<1>10. ASSUME NEW h \in Halves(u[S+T+1])  PROVE h[1] = h[2] \/ LeftBy(u, S + T + 1, h)
  <2>1. h = <<l, m>> \/ h = <<m + 1, r>>
    BY <1>5 DEF Halves, p
  <2>2. CASE h = <<l, m>>
    <3>1. CASE l = m
      BY <2>2, <3>1
    <3>2. CASE l # m
      <4>1. S > 0 /\ s[S] = h
        BY <2>2, <3>2 DEF Prepared, S
      <4>2. S \in 1..((S + T + 1) - 1) /\ S \in 1..S
        BY <1>4, <4>1
      <4>3. u[S] = h
        BY <1>6, <4>1, <4>2
      <4>4. ASSUME NEW i \in (S+1)..((S+T+1)-1)  PROVE ClearOf(u[i], h)
        <5>1. i - S \in 1..T /\ S + (i - S) = i
          BY <1>4
        <5>2. u[i] = t[i-S] /\ Ranged(t[i-S], m + 1, r)
          BY <1>7, <5>1 DEF Prepared, T
        <5> QED  BY <1>1, <2>2, <5>2 DEF ClearOf, Ranged
      <4> DEFINE N == S + T + 1
      <4>5. S \in 1..(N - 1) /\ u[S] = h /\ \A i \in (S+1)..(N-1) : ClearOf(u[i], h)
        BY <4>2, <4>3, <4>4
      <4> HIDE DEF N
      <4>6. LeftBy(u, N, h)
        BY <4>5 DEF LeftBy
      <4> QED  BY <4>6 DEF N
    <3> QED  BY <3>1, <3>2
  <2>3. CASE h = <<m + 1, r>>
    <3>1. CASE m + 1 = r
      BY <2>3, <3>1
    <3>2. CASE m + 1 # r
      <4>1. T > 0 /\ t[T] = h
        BY <2>3, <3>2 DEF Prepared, T
      <4>2. S + T \in 1..((S + T + 1) - 1) /\ T \in 1..T
        BY <1>4, <4>1
      <4>3. u[S+T] = h
        BY <1>7, <4>1, <4>2
      <4>4. (S+T+1)..((S+T+1)-1) = {}
        BY <1>4
      <4> QED  BY <4>2, <4>3, <4>4 DEF LeftBy
    <3> QED  BY <3>1, <3>2
  <2> QED  BY <2>1, <2>2, <2>3
<1>11. Ranged(u[S+T+1], l, r)
  BY <1>5 DEF Ranged, p
<1>12. ASSUME NEW k \in 1..Len(u)
       PROVE  Ranged(u[k], l, r) /\ \A h \in Halves(u[k]) : h[1] = h[2] \/ LeftBy(u, k, h)
  <2>1. k \in 1..(S + T + 1)
    BY <1>5
  <2>2. CASE k \in 1..S
    BY <1>8, <2>2
  <2>3. CASE k - S \in 1..T
    <3>1. S + (k - S) = k
      BY <1>4, <2>1
    <3> QED  BY <1>9, <2>3, <3>1
  <2>4. CASE k = S + T + 1
    BY <1>10, <1>11, <2>4
  <2>5. k \in 1..S \/ k - S \in 1..T \/ k = S + T + 1
    BY <1>4, <2>1
  <2> QED  BY <2>2, <2>3, <2>4, <2>5
<1>13. l # r /\ Len(u) > 0 /\ u[Len(u)] = <<l, r>>
  BY <1>4, <1>5 DEF p
<1> QED  BY <1>5, <1>12, <1>13 DEF Prepared, u, p

Below(p) == <<p[1], Threaded!Mid(p[1], p[2])>>
Above(p) == <<Threaded!Mid(p[1], p[2]) + 1, p[2]>>

\* The calls for p, with f for the calls of its parts.
CallTurn(p, f) == IF p[1] < p[2] THEN f[Below(p)] \o f[Above(p)] \o <<p>> ELSE <<>>
Width(p) == IF p[1] < p[2] THEN p[2] - p[1] ELSE 0

LEMMA PartsAre ==
  ASSUME NEW p \in Index \X Index
  PROVE  /\ p[1] \in Int /\ p[2] \in Int /\ p = <<p[1], p[2]>> /\ Width(p) \in 0..array_length
         /\ p[1] < p[2] => /\ Below(p) \in Index \X Index /\ Above(p) \in Index \X Index
                           /\ Width(Below(p)) < Width(p) /\ Width(Above(p)) < Width(p)
                           /\ Below(p)[1] <= Below(p)[2] /\ Above(p)[1] <= Above(p)[2]
<1> DEFINE l == p[1]
           r == p[2]
           m == Threaded!Mid(l, r)
<1>1. l \in Int /\ r \in Int /\ 0 <= l /\ l < array_length /\ 0 <= r /\ r < array_length /\ p = <<l, r>> /\ array_length \in Nat
  BY LengthIs DEF Index, Threaded!Index
<1>2. Width(p) \in 0..array_length
  <2> HIDE DEF l, r
  <2>1. (l < r => r - l \in 0..array_length) /\ 0 \in 0..array_length
    BY <1>1
  <2> QED  BY <2>1 DEF Width, l, r
<1>3. ASSUME l < r
      PROVE  /\ Below(p) \in Index \X Index /\ Above(p) \in Index \X Index
             /\ Width(Below(p)) < Width(p) /\ Width(Above(p)) < Width(p)
             /\ Below(p)[1] <= Below(p)[2] /\ Above(p)[1] <= Above(p)[2]
  <2>1. m \in Int /\ l <= m /\ m < r
    BY <1>1, <1>3, MidIs
  <2>2. Below(p) = <<l, m>> /\ Above(p) = <<m + 1, r>>
    BY DEF Below, Above
  <2> HIDE DEF l, r, m
  <2>3. l \in Index /\ m \in Index /\ m + 1 \in Index /\ r \in Index
    BY <1>1, <2>1 DEF Index, Threaded!Index
  <2>4. Width(p) = r - l
    BY <1>3 DEF Width, l, r
  <2>5. Width(<<l, m>>) < r - l /\ Width(<<m + 1, r>>) < r - l
    BY <1>1, <2>1 DEF Width
  <2> QED  BY <1>1, <2>1, <2>2, <2>3, <2>4, <2>5
<1> QED  BY <1>1, <1>2, <1>3

LEMMA CallTurnType ==
  ASSUME NEW p \in Index \X Index, NEW f \in [Index \X Index -> Seq(Int \X Int)]
  PROVE  CallTurn(p, f) \in Seq(Int \X Int)
<1>1. CASE p[1] < p[2]
  <2>1. f[Below(p)] \in Seq(Int \X Int) /\ f[Above(p)] \in Seq(Int \X Int)
    BY <1>1, PartsAre
  <2>2. p \in Int \X Int
    BY PartsAre
  <2>3. <<p>> \in Seq(Int \X Int)
    BY <2>2
  <2>4. f[Below(p)] \o f[Above(p)] \in Seq(Int \X Int)
    BY <2>1, JoinIs
  <2>5. (f[Below(p)] \o f[Above(p)]) \o <<p>> \in Seq(Int \X Int)
    BY <2>3, <2>4, JoinIs
  <2> QED  BY <1>1, <2>5 DEF CallTurn
<1>2. CASE ~(p[1] < p[2])
  <2>1. <<>> \in Seq(Int \X Int)
    OBVIOUS
  <2> QED  BY <1>2, <2>1 DEF CallTurn
<1> QED  BY <1>1, <1>2

\* merge_sort() is the result of its turns.
LEMMA CallsDef ==
  \E g : /\ \A p \in Index \X Index : g[p] = CallTurn(p, g)
         /\ \A l, r \in Index : Threaded!Calls(l, r) = g[<<l, r>>]
<1> DEFINE P == Index \X Index
           S == Seq(Int \X Int)
           g == CHOOSE g : g = [p \in P |-> CallTurn(p, g)]
           m == [p \in P |-> Width(p)]
           step == [p \in P |-> [f \in [P -> S] |-> CallTurn(p, f)]]
<1>1. array_length \in Nat /\ <<>> \in S
  BY LengthIs
<1>2. m \in [P -> 0..array_length]
  BY PartsAre
<1>3. step \in [P -> [[P -> S] -> S]]
  BY CallTurnType
<1>4. \A p \in P, f \in [P -> S] : step[p][f] = CallTurn(p, f)
  OBVIOUS
<1>5. \A p \in P : m[p] = Width(p)
  OBVIOUS
<1>6. \A l, r \in Index : Threaded!Calls(l, r) = g[<<l, r>>]
  BY DEF Threaded!Calls, CallTurn, Below, Above, Index
<1>7. LooksBelow(P, S, m, step)
  <2> SUFFICES ASSUME NEW p \in P, NEW f \in [P -> S], NEW h \in [P -> S], \A q \in P : m[q] < m[p] => f[q] = h[q]
               PROVE  step[p][f] = step[p][h]
    BY DEF LooksBelow
  <2> HIDE DEF m, step
  <2>1. CallTurn(p, f) = CallTurn(p, h)
    <3>1. CASE p[1] < p[2]
      <4>1. f[Below(p)] = h[Below(p)] /\ f[Above(p)] = h[Above(p)]
        <5>1. Below(p) \in P /\ Above(p) \in P /\ Width(Below(p)) < Width(p) /\ Width(Above(p)) < Width(p)
          BY <3>1, PartsAre
        <5> HIDE DEF P
        <5> QED  BY <1>5, <5>1
      <4> QED  BY <4>1 DEF CallTurn
    <3>2. CASE ~(p[1] < p[2])
      BY <3>2 DEF CallTurn
    <3> QED  BY <3>1, <3>2
  <2> QED  BY <1>4, <2>1
<1> HIDE DEF P, S, m, step
<1>8. PICK f \in [P -> S] : \A p \in P : f[p] = step[p][f]
  <2>1. Measured(P, S, array_length, m, <<>>, step)
    BY <1>1, <1>2, <1>3, <1>7 DEF Measured
  <2> QED  BY <2>1, MeasureRecursion
<1>9. f = [p \in P |-> CallTurn(p, f)]
  BY <1>4, <1>8
<1>10. g = [p \in P |-> CallTurn(p, g)]
  BY <1>9
<1> HIDE DEF g
<1>11. \A p \in P : g[p] = CallTurn(p, g)
  BY <1>10
<1> QED  BY <1>6, <1>11 DEF P

LEMMA CallsPrepared ==
  ASSUME NEW lo \in Index, NEW hi \in Index, lo <= hi
  PROVE  Prepared(Threaded!Calls(lo, hi), lo, hi)
<1> DEFINE P == Index \X Index
<1>1. PICK g : /\ \A p \in P : g[p] = CallTurn(p, g)
               /\ \A l, r \in Index : Threaded!Calls(l, r) = g[<<l, r>>]
  BY CallsDef
<1> DEFINE Good(n) == \A p \in P : p[1] <= p[2] /\ Width(p) <= n => Prepared(g[p], p[1], p[2])
           A == {n \in 0..array_length : Good(n)}
<1>2. ASSUME NEW p \in P, p[1] = p[2]  PROVE Prepared(g[p], p[1], p[2])
  <2>1. g[p] = <<>>
    <3>1. ~(p[1] < p[2])
      BY <1>2, PartsAre
    <3> QED  BY <1>1, <3>1 DEF CallTurn
  <2>2. <<>> \in Seq(Int \X Int) /\ 1..Len(<<>>) = {}
    OBVIOUS
  <2> QED  BY <1>2, <2>1, <2>2 DEF Prepared
<1>3. 0 \in A
  <2>1. ASSUME NEW p \in P, p[1] <= p[2], Width(p) <= 0  PROVE p[1] = p[2]
    <3>1. p[1] \in Int /\ p[2] \in Int
      BY PartsAre
    <3> QED  BY <2>1, <3>1 DEF Width
  <2>2. 0 \in 0..array_length
    BY LengthIs
  <2> HIDE DEF P
  <2> QED  BY <1>2, <2>1, <2>2
<1>4. ASSUME NEW n \in 1..array_length, n - 1 \in A  PROVE n \in A
  <2>1. Good(n - 1) /\ n \in 0..array_length
    BY <1>4, LengthIs
  <2>2. ASSUME NEW p \in P, p[1] < p[2], Width(p) <= n  PROVE Prepared(g[p], p[1], p[2])
    <3>1. /\ p[1] \in Int /\ p[2] \in Int /\ p = <<p[1], p[2]>> /\ Width(p) \in Int
          /\ Below(p) \in P /\ Above(p) \in P
          /\ Width(Below(p)) < Width(p) /\ Width(Above(p)) < Width(p)
          /\ Below(p)[1] <= Below(p)[2] /\ Above(p)[1] <= Above(p)[2]
      BY <2>2, PartsAre
    <3>2. Width(Below(p)) \in Int /\ Width(Above(p)) \in Int
      BY <3>1, PartsAre
    <3>3. Width(Below(p)) <= n - 1 /\ Width(Above(p)) <= n - 1
      BY <2>2, <3>1, <3>2
    <3>4. Prepared(g[Below(p)], Below(p)[1], Below(p)[2]) /\ Prepared(g[Above(p)], Above(p)[1], Above(p)[2])
      <4> HIDE DEF P
      <4> QED  BY <2>1, <3>1, <3>3
    <3> DEFINE m == Threaded!Mid(p[1], p[2])
    <3>5. Prepared(g[Below(p)], p[1], m) /\ Prepared(g[Above(p)], m + 1, p[2])
      BY <3>4 DEF Below, Above
    <3>6. m \in Int
      BY <2>2, <3>1, MidIs
    <3>7. Prepared((g[Below(p)] \o g[Above(p)]) \o << <<p[1], p[2]>> >>, p[1], p[2])
      BY <2>2, <3>1, <3>5, <3>6, PreparedJoin
    <3>8. g[p] = (g[Below(p)] \o g[Above(p)]) \o <<p>>
      BY <1>1, <2>2 DEF CallTurn
    <3> QED  BY <3>1, <3>7, <3>8
  <2>3. Good(n)
    <3>1. \A p \in P : p[1] <= p[2] => p[1] = p[2] \/ p[1] < p[2]
      BY PartsAre
    <3> HIDE DEF P
    <3> QED  BY <1>2, <2>2, <3>1
  <2> QED  BY <2>1, <2>3
<1> HIDE DEF A
<1>5. 0..array_length \subseteq A
  BY <1>3, <1>4, LengthIs, BoundedInduction
<1>6. Good(array_length)
  <2>1. array_length \in 0..array_length
    BY LengthIs
  <2> QED  BY <1>5, <2>1 DEF A
<1>7. <<lo, hi>> \in P /\ <<lo, hi>>[1] = lo /\ <<lo, hi>>[2] = hi
  OBVIOUS
<1>8. Width(<<lo, hi>>) <= array_length
  <2>1. Width(<<lo, hi>>) \in 0..array_length
    BY <1>7, PartsAre
  <2> QED  BY <2>1, LengthIs
<1>9. Prepared(g[<<lo, hi>>], lo, hi)
  <2> HIDE DEF P
  <2> QED  BY <1>6, <1>7, <1>8
<1> QED  BY <1>1, <1>9

-----------------------------------------------------------------------------
(* The multithreaded sort: what the calls still to come rely on. *)

Climbs(a, h) == \A x, y \in h[1]..h[2] : x < y => a[x] <= a[y]

\* Call k will find part h in order: it is, and no call before k touches it, or an
\* earlier call will put it in order.
Awaits(a, s, k, h) ==
  \/ h[1] = h[2]
  \/ Climbs(a, h) /\ \A i \in 1..(k-1) : ClearOf(s[i], h)
  \/ LeftBy(s, k, h)

Plan(a, s, lo, hi) ==
  /\ s \in Seq(Int \X Int)
  /\ \A k \in 1..Len(s) : Ranged(s[k], lo, hi) /\ \A h \in Halves(s[k]) : Awaits(a, s, k, h)
  /\ IF s = <<>> THEN Climbs(a, <<lo, hi>>) ELSE s[Len(s)] = <<lo, hi>>

AgreeOn(a, b, lo, hi) == \A k \in lo..hi : b[k] = a[k]

LEMMA SingleClimbs ==
  ASSUME NEW a, NEW x \in Int, NEW y \in Int, x = y
  PROVE  Climbs(a, <<x, y>>)
  BY DEF Climbs

LEMMA PlanStart ==
  ASSUME NEW a, NEW s, NEW lo \in Int, NEW hi \in Int, Prepared(s, lo, hi)
  PROVE  Plan(a, s, lo, hi)
<1>1. CASE lo = hi
  <2>1. s = <<>> /\ Climbs(a, <<lo, hi>>)
    BY <1>1, SingleClimbs DEF Prepared
  <2> QED  BY <2>1 DEF Prepared, Plan, Awaits
<1>2. CASE lo # hi
  <2>1. Len(s) > 0 /\ s[Len(s)] = <<lo, hi>>
    BY <1>2 DEF Prepared
  <2>2. s # <<>>
    BY <2>1
  <2> QED  BY <2>1, <2>2 DEF Prepared, Plan, Awaits
<1> QED  BY <1>1, <1>2

\* The two parts of a call in the range.
LEMMA HalfIs ==
  ASSUME NEW c, NEW lo \in Int, NEW hi \in Int, Ranged(c, lo, hi), NEW h \in Halves(c)
  PROVE  h[1] \in Int /\ h[2] \in Int /\ c[1] <= h[1] /\ h[1] <= h[2] /\ h[2] <= c[2] /\ h = <<h[1], h[2]>>
<1>1. c[1] \in Int /\ c[2] \in Int /\ c[1] < c[2]
  BY DEF Ranged
<1> DEFINE m == Threaded!Mid(c[1], c[2])
<1>2. m \in Int /\ c[1] <= m /\ m < c[2]
  BY <1>1, MidIs
<1>3. h = <<c[1], m>> \/ h = <<m + 1, c[2]>>
  BY DEF Halves
<1> HIDE DEF m
<1> QED  BY <1>1, <1>2, <1>3

LEMMA PlanHalves ==
  ASSUME NEW a, NEW s, NEW lo \in Int, NEW hi \in Int, Plan(a, s, lo, hi), s # <<>>
  PROVE  Ranged(s[1], lo, hi) /\ \A h \in Halves(s[1]) : Climbs(a, h)
<1>1. 1 \in 1..Len(s)
  BY DEF Plan
<1>2. Ranged(s[1], lo, hi) /\ \A h \in Halves(s[1]) : Awaits(a, s, 1, h)
  BY <1>1 DEF Plan
<1>3. ASSUME NEW h \in Halves(s[1])  PROVE Climbs(a, h)
  <2>1. h[1] \in Int /\ h[2] \in Int
    BY <1>2, HalfIs
  <2>2. 1..(1-1) = {}
    OBVIOUS
  <2>3. h[1] = h[2] \/ Climbs(a, h)
    BY <1>2, <2>2 DEF Awaits, LeftBy
  <2> QED  BY <2>1, <2>3 DEF Climbs
<1> QED  BY <1>2, <1>3

\* The first call has put its range in order.
LEMMA PlanNext ==
  ASSUME NEW a, NEW b, NEW s, NEW lo \in Int, NEW hi \in Int, Plan(a, s, lo, hi), s # <<>>,
         Climbs(b, s[1]),
         \A k \in lo..hi : k < s[1][1] \/ s[1][2] < k => b[k] = a[k]
  PROVE  Plan(b, Tail(s), lo, hi)
<1> DEFINE t == Tail(s)
           c == s[1]
<1>1. s \in Seq(Int \X Int) /\ Len(s) \in Nat /\ Len(s) >= 1
  BY DEF Plan
<1>2. t \in Seq(Int \X Int) /\ Len(t) = Len(s) - 1 /\ \A k \in 1..(Len(s) - 1) : t[k] = s[k+1]
  BY <1>1
<1>3. Ranged(c, lo, hi)
  BY PlanHalves
<1> HIDE DEF t, c
<1>0. ASSUME NEW k \in 1..Len(t)
      PROVE  /\ k + 1 \in 1..Len(s) /\ t[k] = s[k+1]
             /\ \A i \in 1..(k-1) : i \in 1..(Len(s) - 1) /\ i + 1 \in 1..((k+1)-1)
  <2> DEFINE n == Len(s)
  <2>1. n \in Nat /\ n >= 1 /\ k \in 1..(n-1)
    BY <1>1, <1>2
  <2>2. t[k] = s[k+1]
    BY <1>2, <2>1
  <2> HIDE DEF n
  <2>3. k + 1 \in 1..n /\ \A i \in 1..(k-1) : i \in 1..(n-1) /\ i + 1 \in 1..((k+1)-1)
    BY <2>1
  <2> QED  BY <2>2, <2>3 DEF n
<1>4. ASSUME NEW k \in 1..Len(t), NEW h \in Halves(t[k])  PROVE Awaits(b, t, k, h)
  <2>1. k + 1 \in 1..Len(s) /\ t[k] = s[k+1] /\ (k + 1) - 1 = k
    <3>1. k \in Int
      OBVIOUS
    <3> QED  BY <1>0, <3>1
  <2>2. Ranged(s[k+1], lo, hi) /\ Awaits(a, s, k + 1, h)
    BY <2>1 DEF Plan
  <2>3. h[1] \in Int /\ h[2] \in Int /\ lo <= h[1] /\ h[2] <= hi
    <3>1. h \in Halves(s[k+1])
      BY <2>1
    <3> QED  BY <2>2, <3>1, HalfIs DEF Ranged
  <2>4. \A i \in 1..(k-1) : t[i] = s[i+1] /\ i + 1 \in 1..((k+1)-1)
    BY <1>0, <1>2
  <2>5. CASE h[1] = h[2]
    BY <2>5 DEF Awaits
  <2>6. CASE Climbs(a, h) /\ \A i \in 1..((k+1)-1) : ClearOf(s[i], h)
    <3>1. \A i \in 1..(k-1) : ClearOf(t[i], h)
      BY <2>4, <2>6
    <3>2. ClearOf(c, h)
      <4>1. 1 \in 1..((k+1)-1)
        BY <2>1
      <4> QED  BY <2>6, <4>1 DEF c
    <3>3. ASSUME NEW x \in h[1]..h[2]  PROVE b[x] = a[x]
      <4>1. x \in lo..hi /\ (x < c[1] \/ c[2] < x)
        BY <1>3, <2>3, <3>2 DEF ClearOf, Ranged
      <4> QED  BY <4>1 DEF c
    <3>4. Climbs(b, h)
      BY <2>6, <3>3 DEF Climbs
    <3> QED  BY <3>1, <3>4 DEF Awaits
  <2>7. CASE LeftBy(s, k + 1, h)
    <3>1. PICK j \in 1..((k+1)-1) : s[j] = h /\ \A i \in (j+1)..((k+1)-1) : ClearOf(s[i], h)
      BY <2>7 DEF LeftBy
    <3>2. CASE j = 1
      <4>1. Climbs(b, h)
        BY <3>1, <3>2
      <4>2. ASSUME NEW i \in 1..(k-1)  PROVE ClearOf(t[i], h)
        <5>1. i + 1 \in (j+1)..((k+1)-1)
          BY <3>2
        <5> QED  BY <2>4, <3>1, <5>1
      <4> QED  BY <4>1, <4>2 DEF Awaits
    <3>3. CASE j # 1
      <4>1. j - 1 \in 1..(k-1) /\ (j - 1) + 1 = j
        BY <3>3
      <4>2. t[j-1] = h
        BY <2>4, <3>1, <4>1
      <4>3. ASSUME NEW i \in ((j-1)+1)..(k-1)  PROVE ClearOf(t[i], h)
        <5>1. i \in 1..(k-1) /\ i + 1 \in (j+1)..((k+1)-1)
          BY <4>1
        <5> QED  BY <2>4, <3>1, <5>1
      <4>4. LeftBy(t, k, h)
        BY <4>1, <4>2, <4>3 DEF LeftBy
      <4> QED  BY <4>4 DEF Awaits
    <3> QED  BY <3>2, <3>3
  <2> QED  BY <2>2, <2>5, <2>6, <2>7 DEF Awaits
<1>5. \A k \in 1..Len(t) : Ranged(t[k], lo, hi)
  <2>1. ASSUME NEW k \in 1..Len(t)  PROVE Ranged(t[k], lo, hi)
    <3>1. k + 1 \in 1..Len(s) /\ t[k] = s[k+1]
      BY <1>1, <1>2
    <3> QED  BY <3>1 DEF Plan
  <2> QED  BY <2>1
<1>6. CASE t = <<>>
  <2>1. Len(s) = 1
    BY <1>1, <1>2, <1>6
  <2>2. c = <<lo, hi>>
    BY <2>1 DEF Plan, c
  <2>3. Climbs(b, <<lo, hi>>)
    BY <2>2 DEF c
  <2> QED  BY <1>2, <1>4, <1>5, <1>6, <2>3 DEF Plan, t
<1>7. CASE t # <<>>
  <2>1. Len(t) \in 1..(Len(s) - 1) /\ Len(t) + 1 = Len(s)
    BY <1>1, <1>2, <1>7
  <2>2. t[Len(t)] = <<lo, hi>>
    BY <1>2, <2>1 DEF Plan
  <2> QED  BY <1>2, <1>4, <1>5, <1>7, <2>2 DEF Plan, t
<1> QED  BY <1>6, <1>7

LEMMA PlanFrame ==
  ASSUME NEW a, NEW b, NEW s, NEW lo \in Int, NEW hi \in Int, Plan(a, s, lo, hi), AgreeOn(a, b, lo, hi)
  PROVE  Plan(b, s, lo, hi)
<1>1. ASSUME NEW h, h[1] \in Int, h[2] \in Int, lo <= h[1], h[2] <= hi, Climbs(a, h)  PROVE Climbs(b, h)
  <2>1. \A x \in h[1]..h[2] : x \in lo..hi
    BY <1>1
  <2>2. \A x \in h[1]..h[2] : b[x] = a[x]
    BY <2>1 DEF AgreeOn
  <2> QED  BY <1>1, <2>2 DEF Climbs
<1>2. ASSUME NEW k \in 1..Len(s), NEW h \in Halves(s[k])  PROVE Awaits(b, s, k, h)
  <2>1. Ranged(s[k], lo, hi) /\ Awaits(a, s, k, h)
    BY DEF Plan
  <2>2. h[1] \in Int /\ h[2] \in Int /\ lo <= h[1] /\ h[2] <= hi
    BY <2>1, HalfIs DEF Ranged
  <2> QED  BY <1>1, <2>1, <2>2 DEF Awaits
<1>3. s = <<>> => Climbs(b, <<lo, hi>>)
  <2>1. <<lo, hi>>[1] = lo /\ <<lo, hi>>[2] = hi /\ lo <= lo /\ hi <= hi
    OBVIOUS
  <2> QED  BY <1>1, <2>1 DEF Plan
<1> QED  BY <1>2, <1>3 DEF Plan

-----------------------------------------------------------------------------
(* The multithreaded sort: how often a number occurs in some places. *)

Amount(a, S, v) == Cardinality({k \in S : a[k] = v})

SameNumbers(a, b, S) == \A v : Amount(a, S, v) = Amount(b, S, v)

LEMMA AmountJoin ==
  ASSUME NEW a, NEW S, NEW T, IsFiniteSet(S), IsFiniteSet(T), S \cap T = {}, NEW v
  PROVE  /\ Amount(a, S \cup T, v) = Amount(a, S, v) + Amount(a, T, v)
         /\ Amount(a, S, v) \in Nat /\ Amount(a, T, v) \in Nat
<1> DEFINE A == {k \in S : a[k] = v}
           B == {k \in T : a[k] = v}
<1>1. IsFiniteSet(A) /\ IsFiniteSet(B)
  <2>1. A \in SUBSET S /\ B \in SUBSET T
    OBVIOUS
  <2> HIDE DEF A, B
  <2> QED  BY <2>1, FS_Subset
<1>2. {k \in S \cup T : a[k] = v} = A \cup B /\ A \cap B = {}
  OBVIOUS
<1>3. Amount(a, S \cup T, v) = Cardinality(A \cup B) /\ Amount(a, S, v) = Cardinality(A) /\ Amount(a, T, v) = Cardinality(B)
  BY <1>2 DEF Amount
<1> HIDE DEF A, B
<1>4. Cardinality(A \cup B) = Cardinality(A) + Cardinality(B) - Cardinality(A \cap B)
  BY <1>1, FS_Union
<1>5. Cardinality(A \cap B) = 0 /\ Cardinality(A) \in Nat /\ Cardinality(B) \in Nat
  BY <1>1, <1>2, FS_EmptySet, FS_CardinalityType
<1>6. Cardinality(A \cup B) = Cardinality(A) + Cardinality(B)
  <2>1. Cardinality(A \cup B) = Cardinality(A) + Cardinality(B) - 0
    BY <1>4, <1>5
  <2> QED  BY <1>5, <2>1
<1> QED  BY <1>3, <1>5, <1>6

LEMMA AmountOne ==
  ASSUME NEW a, NEW x, NEW v
  PROVE  Amount(a, {x}, v) = IF a[x] = v THEN 1 ELSE 0
<1>1. {k \in {x} : a[k] = v} = IF a[x] = v THEN {x} ELSE {}
  OBVIOUS
<1> QED  BY <1>1, FS_Singleton, FS_EmptySet DEF Amount

LEMMA AmountAgree ==
  ASSUME NEW a, NEW b, NEW S, \A k \in S : b[k] = a[k]
  PROVE  SameNumbers(b, a, S)
<1>1. ASSUME NEW v  PROVE Amount(b, S, v) = Amount(a, S, v)
  <2>1. {k \in S : b[k] = v} = {k \in S : a[k] = v}
    OBVIOUS
  <2> QED  BY <2>1 DEF Amount
<1> QED  BY <1>1 DEF SameNumbers

\* The numbers of a part decide, if the rest has not changed.
LEMMA NumbersOfPart ==
  ASSUME NEW a, NEW b, NEW S, NEW T, IsFiniteSet(S), T \subseteq S,
         SameNumbers(b, a, T), \A k \in S \ T : b[k] = a[k]
  PROVE  SameNumbers(b, a, S)
<1> DEFINE R == S \ T
<1>1. IsFiniteSet(R) /\ IsFiniteSet(T)
  BY FS_Subset
<1>2. T \cup R = S /\ T \cap R = {} /\ \A k \in R : b[k] = a[k]
  OBVIOUS
<1> HIDE DEF R
<1>3. ASSUME NEW v  PROVE Amount(b, S, v) = Amount(a, S, v)
  <2>1. Amount(b, T \cup R, v) = Amount(b, T, v) + Amount(b, R, v)
    BY <1>1, <1>2, AmountJoin
  <2>2. Amount(a, T \cup R, v) = Amount(a, T, v) + Amount(a, R, v)
    BY <1>1, <1>2, AmountJoin
  <2>3. Amount(b, T, v) = Amount(a, T, v) /\ Amount(b, R, v) = Amount(a, R, v)
    BY <1>2, AmountAgree DEF SameNumbers
  <2> QED  BY <1>2, <2>1, <2>2, <2>3
<1> QED  BY <1>3 DEF SameNumbers

LEMMA CountAppend ==
  ASSUME NEW b \in Seq(Int), NEW x \in Int, NEW v
  PROVE  CountIn(Append(b, x), v) = CountIn(b, v) + (IF x = v THEN 1 ELSE 0) /\ CountIn(b, v) \in Nat
<1>1. <<x>> \in Seq(Int) /\ Len(<<x>>) = 1 /\ <<x>>[1] = x /\ Append(b, x) = b \o <<x>>
  OBVIOUS
<1>2. CountIn(b \o <<x>>, v) = CountIn(b, v) + CountIn(<<x>>, v) /\ CountIn(b, v) \in Nat
  BY <1>1, CountJoin
<1>3. {k \in 1..Len(<<x>>) : <<x>>[k] = v} = IF x = v THEN {1} ELSE {}
  BY <1>1
<1>4. CountIn(<<x>>, v) = IF x = v THEN 1 ELSE 0
  BY <1>3, FS_Singleton, FS_EmptySet DEF CountIn
<1> QED  BY <1>1, <1>2, <1>4

LEMMA CountNone == ASSUME NEW v  PROVE CountIn(<<>>, v) = 0
<1>1. {k \in 1..Len(<<>>) : <<>>[k] = v} = {}
  OBVIOUS
<1> QED  BY <1>1, FS_EmptySet DEF CountIn

\* A sequence laid into an array has its numbers there.
LEMMA AmountLaid ==
  ASSUME NEW b \in Seq(Int), NEW o \in Int, NEW w, \A k \in 1..Len(b) : w[o+k] = b[k], NEW v
  PROVE  Amount(w, (o+1)..(o+Len(b)), v) = CountIn(b, v)
<1> DEFINE n == Len(b)
           A == {k \in 1..n : b[k] = v}
           B == {k \in (o+1)..(o+n) : w[k] = v}
           f == [k \in A |-> o + k]
<1>1. n \in Nat /\ \A k \in 1..n : o + k \in (o+1)..(o+n)
  OBVIOUS
<1>2. f \in [A -> B] /\ \A k, l \in A : f[k] = f[l] => k = l
  BY <1>1
<1>3. ASSUME NEW l \in B  PROVE \E k \in A : f[k] = l
  <2>1. l - o \in 1..n /\ o + (l - o) = l
    BY <1>1
  <2>2. l - o \in A
    BY <2>1
  <2>3. f[l - o] = l
    BY <2>1, <2>2
  <2> QED  BY <2>2, <2>3
<1>4. IsFiniteSet(A)
  <2>1. IsFiniteSet(1..n) /\ A \in SUBSET (1..n)
    BY <1>1, FS_Interval
  <2> HIDE DEF A
  <2> QED  BY <2>1, FS_Subset
<1> HIDE DEF A, B, f
<1>5. f \in Bijection(A, B)
  BY <1>2, <1>3 DEF Bijection, Injection, Surjection, IsInjective
<1>6. Cardinality(B) = Cardinality(A)
  BY <1>4, <1>5, FS_Bijection DEF ExistsBijection
<1> QED  BY <1>6 DEF Amount, CountIn, A, B

-----------------------------------------------------------------------------
(* The multithreaded sort: the loops of merge() that copy. *)

\* b has what was in places D, in order, and nothing left in R is smaller.
Gathered(a, D, R, b) ==
  /\ b \in Seq(Int) /\ Ascending(b)
  /\ \A k \in 1..Len(b), x \in R : b[k] <= a[x]
  /\ \A v : CountIn(b, v) = Amount(a, D, v)

LEMMA GatherNone ==
  ASSUME NEW a, NEW R
  PROVE  Gathered(a, {}, R, <<>>)
<1>1. <<>> \in Seq(Int) /\ 1..Len(<<>>) = {}
  OBVIOUS
<1>2. ASSUME NEW v  PROVE CountIn(<<>>, v) = Amount(a, {}, v)
  <2>1. {k \in {} : a[k] = v} = {}
    OBVIOUS
  <2> QED  BY <2>1, CountNone, FS_EmptySet DEF Amount
<1> QED  BY <1>1, <1>2 DEF Gathered, Ascending

\* One more.
LEMMA GatherOne ==
  ASSUME NEW a, NEW D, NEW R, NEW b, Gathered(a, D, R, b), IsFiniteSet(D),
         NEW x \in R, x \notin D, a[x] \in Int, \A y \in R : a[x] <= a[y], NEW Q, Q \subseteq R
  PROVE  Gathered(a, D \cup {x}, Q, Append(b, a[x]))
<1> DEFINE c == Append(b, a[x])
           n == Len(b)
<1>1. b \in Seq(Int) /\ n \in Nat
  BY DEF Gathered
<1>2. c \in Seq(Int) /\ Len(c) = n + 1 /\ c[n+1] = a[x] /\ \A k \in 1..n : c[k] = b[k]
  BY <1>1
<1>3. ASSUME NEW v  PROVE CountIn(c, v) = Amount(a, D \cup {x}, v)
  <2>1. CountIn(c, v) = CountIn(b, v) + (IF a[x] = v THEN 1 ELSE 0) /\ CountIn(b, v) \in Nat
    BY <1>1, CountAppend
  <2>2. Amount(a, D \cup {x}, v) = Amount(a, D, v) + Amount(a, {x}, v)
    <3>1. IsFiniteSet({x}) /\ D \cap {x} = {}
      BY FS_Singleton
    <3> QED  BY <3>1, AmountJoin
  <2>3. Amount(a, {x}, v) = IF a[x] = v THEN 1 ELSE 0
    BY AmountOne
  <2>4. CountIn(b, v) = Amount(a, D, v)
    BY DEF Gathered
  <2> QED  BY <2>1, <2>2, <2>3, <2>4
<1> HIDE DEF c, n
<1>4. ASSUME NEW k \in 1..(n+1), NEW l \in 1..(n+1), k < l  PROVE c[k] <= c[l]
  <2>1. k \in 1..n
    BY <1>1, <1>4
  <2>2. CASE l = n + 1
    BY <1>2, <2>1, <2>2 DEF Gathered, n
  <2>3. CASE l # n + 1
    <3>1. l \in 1..n
      BY <1>1, <2>3
    <3> QED  BY <1>2, <1>4, <2>1, <3>1 DEF Gathered, Ascending, n
  <2> QED  BY <2>2, <2>3
<1>5. ASSUME NEW k \in 1..(n+1), NEW y \in Q  PROVE c[k] <= a[y]
  <2>1. CASE k = n + 1
    BY <1>2, <2>1
  <2>2. CASE k # n + 1
    <3>1. k \in 1..n
      BY <1>1, <2>2
    <3> QED  BY <1>2, <3>1 DEF Gathered, n
  <2> QED  BY <2>1, <2>2
<1> QED  BY <1>2, <1>3, <1>4, <1>5 DEF Gathered, Ascending, c

-----------------------------------------------------------------------------
(* The multithreaded sort: a thread between two of its steps. *)

Frames ==
  [left : Int, right : Int, seen : [Threaded!Sides -> Int \cup {NotRead}], b : Seq(Int)]

LEMMA FrameIs ==
  ASSUME NEW f
  PROVE  /\ f \in Frames =>
              /\ f.left \in Int /\ f.right \in Int /\ f.b \in Seq(Int)
              /\ f.seen \in [Threaded!Sides -> Int \cup {NotRead}]
              /\ f = [left |-> f.left, right |-> f.right, seen |-> f.seen, b |-> f.b]
         /\ \A l, r \in Int, e \in [Threaded!Sides -> Int \cup {NotRead}], b \in Seq(Int) :
              f = [left |-> l, right |-> r, seen |-> e, b |-> b] =>
                f \in Frames /\ f.left = l /\ f.right = r /\ f.seen = e /\ f.b = b
<1> DEFINE E == [Threaded!Sides -> Int \cup {NotRead}]
           B == Seq(Int)
<1>1. Frames = [left : Int, right : Int, seen : E, b : B]
  BY DEF Frames
<1> HIDE DEF E, B
<1>2. f \in Frames =>
        /\ f.left \in Int /\ f.right \in Int /\ f.b \in B /\ f.seen \in E
        /\ f = [left |-> f.left, right |-> f.right, seen |-> f.seen, b |-> f.b]
  BY <1>1
<1>3. \A l, r \in Int, e \in E, b \in B :
        f = [left |-> l, right |-> r, seen |-> e, b |-> b] =>
          f \in Frames /\ f.left = l /\ f.right = r /\ f.seen = e /\ f.b = b
  BY <1>1
<1> QED  BY <1>2, <1>3 DEF E, B

\* The locals after b[temp++]=a[s++].
IsCopied(f, s, v, g) ==
  g = [f EXCEPT ![s] = @ + 1, !.b = Append(@, v), !.seen = [side \in Threaded!Sides |-> NotRead]]

LeftMoved(f, x, c, e, g)  == g = [f EXCEPT !.left = x, !.b = c, !.seen = e]
RightMoved(f, x, c, e, g) == g = [f EXCEPT !.right = x, !.b = c, !.seen = e]

LEMMA FrameMoved ==
  ASSUME NEW f \in Frames, NEW x \in Int, NEW e \in [Threaded!Sides -> Int \cup {NotRead}],
         NEW c \in Seq(Int), NEW g
  PROVE  /\ LeftMoved(f, x, c, e, g) =>
               g \in Frames /\ g.left = x /\ g.right = f.right /\ g.b = c /\ g.seen = e
         /\ RightMoved(f, x, c, e, g) =>
               g \in Frames /\ g.left = f.left /\ g.right = x /\ g.b = c /\ g.seen = e
<1> DEFINE E == [Threaded!Sides -> Int \cup {NotRead}]
           B == Seq(Int)
<1>1. Frames = [left : Int, right : Int, seen : E, b : B] /\ e \in E /\ c \in B
  BY DEF Frames
<1> HIDE DEF E, B
<1> QED  BY <1>1 DEF LeftMoved, RightMoved

LEMMA FrameCopied ==
  ASSUME NEW f \in Frames, NEW s \in Threaded!Sides, NEW v \in Int, NEW g, IsCopied(f, s, v, g)
  PROVE  /\ g \in Frames /\ g.b = Append(f.b, v) /\ \A side \in Threaded!Sides : g.seen[side] = NotRead
         /\ s = "left" => g.left = f.left + 1 /\ g.right = f.right
         /\ s = "right" => g.left = f.left /\ g.right = f.right + 1
<1> DEFINE e == [side \in Threaded!Sides |-> NotRead]
           c == Append(f.b, v)
<1>1. e \in [Threaded!Sides -> Int \cup {NotRead}] /\ \A side \in Threaded!Sides : e[side] = NotRead
  OBVIOUS
<1>2. f.left \in Int /\ f.right \in Int /\ f.b \in Seq(Int)
  BY FrameIs
<1>3. c \in Seq(Int) /\ f.left + 1 \in Int /\ f.right + 1 \in Int
  BY <1>2
<1>4. IsCopied(f, s, v, g) => g = [f EXCEPT ![s] = @ + 1, !.b = c, !.seen = e]
  BY DEF IsCopied, Frames
<1> HIDE DEF e, c
<1>5. CASE s = "left"
  <2>1. LeftMoved(f, f.left + 1, c, e, g)
    BY <1>4, <1>5 DEF Frames, LeftMoved
  <2>2. g \in Frames /\ g.left = f.left + 1 /\ g.right = f.right /\ g.b = c /\ g.seen = e
    BY <1>1, <1>3, <2>1, FrameMoved
  <2>3. s # "right"
    BY <1>5
  <2> QED  BY <1>1, <2>2, <2>3 DEF c
<1>6. CASE s = "right"
  <2>1. RightMoved(f, f.right + 1, c, e, g)
    BY <1>4, <1>6 DEF Frames, RightMoved
  <2>2. g \in Frames /\ g.left = f.left /\ g.right = f.right + 1 /\ g.b = c /\ g.seen = e
    BY <1>1, <1>3, <2>1, FrameMoved
  <2>3. s # "left"
    BY <1>6
  <2> QED  BY <1>1, <2>2, <2>3 DEF c
<1> QED  BY <1>5, <1>6 DEF Threaded!Sides

\* ... after an operand has been loaded ...
IsRead(f, s, v, g) == g = [f EXCEPT !.seen[s] = v]

LEMMA FrameRead ==
  ASSUME NEW f \in Frames, NEW s \in Threaded!Sides, NEW v \in Int, NEW g, IsRead(f, s, v, g)
  PROVE  /\ g \in Frames /\ g.left = f.left /\ g.right = f.right /\ g.b = f.b
         /\ \A side \in Threaded!Sides : g.seen[side] = (IF side = s THEN v ELSE f.seen[side])
<1> DEFINE e == [f.seen EXCEPT ![s] = v]
<1>1. /\ f.left \in Int /\ f.right \in Int /\ f.b \in Seq(Int) /\ f.seen \in [Threaded!Sides -> Int \cup {NotRead}]
      /\ f = [left |-> f.left, right |-> f.right, seen |-> f.seen, b |-> f.b]
  BY FrameIs
<1>2. e \in [Threaded!Sides -> Int \cup {NotRead}] /\ \A side \in Threaded!Sides : e[side] = (IF side = s THEN v ELSE f.seen[side])
  BY <1>1
<1>3. g = [f EXCEPT !.seen = e]
  BY <1>1 DEF IsRead
<1> HIDE DEF e
<1>4. g = [left |-> f.left, right |-> f.right, seen |-> e, b |-> f.b]
  BY <1>1, <1>3
<1>5. g \in Frames /\ g.left = f.left /\ g.right = f.right /\ g.seen = e /\ g.b = f.b
  BY <1>1, <1>2, <1>4, FrameIs
<1> QED  BY <1>2, <1>5

\* ... and after an element has been written back.
IsWritten(f, c, g) == g = [f EXCEPT !.b = c]

LEMMA FrameWritten ==
  ASSUME NEW f \in Frames, NEW c \in Seq(Int), NEW g, IsWritten(f, c, g)
  PROVE  g \in Frames /\ g.left = f.left /\ g.right = f.right /\ g.b = c
<1>1. /\ f.left \in Int /\ f.right \in Int /\ f.seen \in [Threaded!Sides -> Int \cup {NotRead}]
      /\ f = [left |-> f.left, right |-> f.right, seen |-> f.seen, b |-> f.b]
  BY FrameIs
<1>2. g = [left |-> f.left, right |-> f.right, seen |-> f.seen, b |-> c]
  BY <1>1 DEF IsWritten
<1> QED  BY <1>1, <1>2, FrameIs

MidOf(c) == Threaded!Mid(c[1], c[2])

\* The places of call c that have been copied, and those that have not.
Done(c, f) == (c[1]..(f.left - 1)) \cup ((MidOf(c) + 1)..(f.right - 1))
Rest(c, f) == (f.left..MidOf(c)) \cup (f.right..c[2])

Finished(c, f) == f.left = MidOf(c) + 1 /\ f.right = c[2] + 1

\* An operand that has been loaded is what the array still holds.
SeenRight(a, c, f) ==
  \A s \in Threaded!Sides :
    f.seen[s] # NotRead =>
      f.left <= MidOf(c) /\ f.right <= c[2] /\ f.seen[s] = a[IF s = "left" THEN f.left ELSE f.right]

Copying(a, c, f) ==
  /\ c[1] <= f.left /\ f.left <= MidOf(c) + 1 /\ MidOf(c) + 1 <= f.right /\ f.right <= c[2] + 1
  /\ Len(f.b) = (f.left - c[1]) + (f.right - (MidOf(c) + 1))
  /\ Gathered(a, Done(c, f), Rest(c, f), f.b)
  /\ SeenRight(a, c, f)

\* a is w but for what b still holds of call c.
Laid(w, a, c, b, lo, hi) ==
  /\ Len(b) >= 1 /\ Len(b) <= c[2] - c[1] + 1
  /\ \A k \in 1..Len(b) : w[(c[2] - Len(b)) + k] = b[k]
  /\ \A k \in lo..hi : k <= c[2] - Len(b) \/ c[2] < k => w[k] = a[k]

AtCopies(inp, a, s, f, lo, hi) ==
  /\ Plan(a, s, lo, hi) /\ SameNumbers(a, inp, lo..hi)
  /\ s # <<>> => Copying(a, s[1], f) /\ ~Finished(s[1], f)

AtWrites(inp, a, s, f, lo, hi) ==
  /\ s # <<>> /\ Ranged(s[1], lo, hi) /\ Finished(s[1], f)
  /\ \E w : Plan(w, Tail(s), lo, hi) /\ SameNumbers(w, inp, lo..hi) /\ Laid(w, a, s[1], f.b, lo, hi)

\* A thread that sorts lo..hi has the calls s to make, and the locals f of the first.
Working(inp, a, s, f, lo, hi) ==
  /\ s \in Seq(Int \X Int) /\ f \in Frames
  /\ AtCopies(inp, a, s, f, lo, hi) \/ AtWrites(inp, a, s, f, lo, hi)

\* The numbers of the two parts and of the whole.
LEMMA RangedIs ==
  ASSUME NEW c, NEW lo \in Int, NEW hi \in Int, Ranged(c, lo, hi)
  PROVE  /\ c[1] \in Int /\ c[2] \in Int /\ MidOf(c) \in Int
         /\ lo <= c[1] /\ c[1] <= MidOf(c) /\ MidOf(c) < c[2] /\ c[2] <= hi
<1>1. c[1] \in Int /\ c[2] \in Int /\ c[1] < c[2] /\ lo <= c[1] /\ c[2] <= hi
  BY DEF Ranged
<1> QED  BY <1>1, MidIs DEF MidOf

\* Nothing else writes in the range of a thread.
LEMMA WorkingFrame ==
  ASSUME NEW inp, NEW a, NEW b, NEW s, NEW f, NEW lo \in Int, NEW hi \in Int,
         Working(inp, a, s, f, lo, hi), AgreeOn(a, b, lo, hi)
  PROVE  Working(inp, b, s, f, lo, hi)
<1>1. f.left \in Int /\ f.right \in Int
  BY FrameIs DEF Working
<1>2. CASE AtCopies(inp, a, s, f, lo, hi)
  <2>1. Plan(b, s, lo, hi)
    BY <1>2, PlanFrame DEF AtCopies
  <2>2. SameNumbers(b, inp, lo..hi)
    <3>1. SameNumbers(b, a, lo..hi)
      BY AmountAgree DEF AgreeOn
    <3> QED  BY <1>2, <3>1 DEF AtCopies, SameNumbers
  <2>3. ASSUME s # <<>>  PROVE Copying(b, s[1], f)
    <3> DEFINE c == s[1]
    <3>1. Copying(a, c, f) /\ Ranged(c, lo, hi)
      BY <1>2, <2>3, PlanHalves DEF AtCopies
    <3> HIDE DEF c
    <3>2. /\ c[1] \in Int /\ c[2] \in Int /\ MidOf(c) \in Int
          /\ lo <= c[1] /\ c[1] <= MidOf(c) /\ MidOf(c) < c[2] /\ c[2] <= hi
      BY <3>1, RangedIs
    <3>3. c[1] <= f.left /\ f.left <= MidOf(c) + 1 /\ MidOf(c) + 1 <= f.right /\ f.right <= c[2] + 1
      BY <3>1 DEF Copying
    <3>4. Done(c, f) \subseteq lo..hi /\ Rest(c, f) \subseteq lo..hi
      BY <1>1, <3>2, <3>3 DEF Done, Rest
    <3>5. Gathered(b, Done(c, f), Rest(c, f), f.b)
      <4>1. Gathered(a, Done(c, f), Rest(c, f), f.b)
        BY <3>1 DEF Copying
      <4>2. \A k \in Done(c, f) : b[k] = a[k]
        BY <3>4 DEF AgreeOn
      <4>3. \A k \in Rest(c, f) : b[k] = a[k]
        BY <3>4 DEF AgreeOn
      <4>4. SameNumbers(b, a, Done(c, f))
        BY <4>2, AmountAgree
      <4> QED  BY <4>1, <4>3, <4>4 DEF Gathered, SameNumbers
    <3>6. SeenRight(b, c, f)
      <4>1. SeenRight(a, c, f)
        BY <3>1 DEF Copying
      <4>2. ASSUME f.left <= MidOf(c), f.right <= c[2]  PROVE b[f.left] = a[f.left] /\ b[f.right] = a[f.right]
        <5>1. f.left \in lo..hi /\ f.right \in lo..hi
          BY <1>1, <3>2, <3>3, <4>2
        <5> QED  BY <5>1 DEF AgreeOn
      <4> QED  BY <4>1, <4>2 DEF SeenRight
    <3>7. Copying(b, c, f)
      BY <3>1, <3>5, <3>6 DEF Copying
    <3> QED  BY <3>7 DEF c
  <2>4. AtCopies(inp, b, s, f, lo, hi)
    BY <1>2, <2>1, <2>2, <2>3 DEF AtCopies
  <2> QED  BY <2>4 DEF Working
<1>3. CASE AtWrites(inp, a, s, f, lo, hi)
  <2>1. PICK w : Plan(w, Tail(s), lo, hi) /\ SameNumbers(w, inp, lo..hi) /\ Laid(w, a, s[1], f.b, lo, hi)
    BY <1>3 DEF AtWrites
  <2>2. Laid(w, b, s[1], f.b, lo, hi)
    BY <2>1 DEF Laid, AgreeOn
  <2>3. AtWrites(inp, b, s, f, lo, hi)
    BY <1>3, <2>1, <2>2 DEF AtWrites
  <2> QED  BY <2>3 DEF Working
<1> QED  BY <1>2, <1>3 DEF Working

\* The locals with which a call is entered.
LEMMA EnteredWorks ==
  ASSUME NEW inp, NEW a, NEW s, NEW lo \in Int, NEW hi \in Int,
         Plan(a, s, lo, hi), SameNumbers(a, inp, lo..hi)
  PROVE  Working(inp, a, s, Threaded!Entered(s), lo, hi)
<1> DEFINE f == Threaded!Entered(s)
           l == IF s = <<>> THEN 0 ELSE s[1][1]
           r == IF s = <<>> THEN 0 ELSE Threaded!Mid(s[1][1], s[1][2]) + 1
           e == [side \in Threaded!Sides |-> NotRead]
<1>1. f = [left |-> l, right |-> r, seen |-> e, b |-> <<>>]
  BY DEF Threaded!Entered
<1>2. ASSUME s # <<>>
      PROVE  /\ l = s[1][1] /\ r = MidOf(s[1]) + 1 /\ Ranged(s[1], lo, hi)
             /\ s[1][1] \in Int /\ s[1][2] \in Int /\ MidOf(s[1]) \in Int
             /\ s[1][1] <= MidOf(s[1]) /\ MidOf(s[1]) < s[1][2]
  BY <1>2, PlanHalves, RangedIs DEF MidOf
<1>3. l \in Int /\ r \in Int
  <2>1. CASE s = <<>>
    BY <2>1
  <2>2. CASE s # <<>>
    <3>1. MidOf(s[1]) + 1 \in Int
      BY <1>2, <2>2
    <3> QED  BY <1>2, <2>2, <3>1
  <2> QED  BY <2>1, <2>2
<1>4. e \in [Threaded!Sides -> Int \cup {NotRead}] /\ \A side \in Threaded!Sides : e[side] = NotRead
  OBVIOUS
<1>5. <<>> \in Seq(Int)
  OBVIOUS
<1> HIDE DEF f, l, r, e
<1>6. f \in Frames /\ f.left = l /\ f.right = r /\ f.seen = e /\ f.b = <<>>
  BY <1>1, <1>3, <1>4, <1>5, FrameIs
<1>7. ASSUME s # <<>>  PROVE Copying(a, s[1], f) /\ ~Finished(s[1], f)
  <2> DEFINE c == s[1]
             m == MidOf(c)
  <2>1. f.left = c[1] /\ f.right = m + 1 /\ c[1] \in Int /\ c[2] \in Int /\ m \in Int /\ c[1] <= m /\ m < c[2]
    BY <1>2, <1>6, <1>7
  <2> HIDE DEF c, m
  <2>2. Done(c, f) = {}
    <3>1. c[1]..(f.left - 1) = {} /\ (m + 1)..(f.right - 1) = {}
      BY <2>1
    <3> QED  BY <3>1 DEF Done, m
  <2>3. Gathered(a, Done(c, f), Rest(c, f), f.b)
    BY <1>6, <2>2, GatherNone
  <2>4. Len(f.b) = (f.left - c[1]) + (f.right - (m + 1))
    <3>1. Len(<<>>) = 0
      OBVIOUS
    <3>2. (c[1] - c[1]) + ((m + 1) - (m + 1)) = 0
      BY <2>1
    <3> QED  BY <1>6, <2>1, <3>1, <3>2
  <2>5. c[1] <= f.left /\ f.left <= m + 1 /\ m + 1 <= f.right /\ f.right <= c[2] + 1 /\ ~(f.left = m + 1)
    BY <2>1
  <2>6. SeenRight(a, c, f)
    BY <1>4, <1>6 DEF SeenRight
  <2> QED  BY <2>3, <2>4, <2>5, <2>6 DEF Copying, Finished, c, m
<1>8. AtCopies(inp, a, s, f, lo, hi)
  BY <1>7 DEF AtCopies
<1> QED  BY <1>6, <1>8 DEF Working, Plan, f

\* The first element of one of two ascending parts, if the other's is not smaller.
LEMMA HeadLeast ==
  ASSUME NEW a, NEW x \in Int, NEW m \in Int, NEW y \in Int, NEW r \in Int, x <= m,
         \A k \in (x..m) \cup (y..r) : a[k] \in Int,
         Climbs(a, <<x, m>>), Climbs(a, <<y, r>>), y <= r => a[x] <= a[y]
  PROVE  \A k \in (x..m) \cup (y..r) : a[x] <= a[k]
<1>1. \A k \in x..m : x < k => a[x] <= a[k]
  <2>1. x \in x..m
    OBVIOUS
  <2> QED  BY <2>1 DEF Climbs
<1>2. \A k \in y..r : y < k => a[y] <= a[k]
  <2>1. \A k \in y..r : y \in y..r
    OBVIOUS
  <2> QED  BY <2>1 DEF Climbs
<1>3. ASSUME NEW k \in x..m  PROVE a[x] <= a[k]
  <2>1. k = x \/ x < k
    OBVIOUS
  <2>2. a[x] \in Int
    OBVIOUS
  <2> QED  BY <1>1, <2>1, <2>2
<1>4. ASSUME NEW k \in y..r  PROVE a[x] <= a[k]
  <2>1. y <= r /\ (k = y \/ y < k) /\ x \in x..m /\ y \in y..r
    OBVIOUS
  <2>2. a[x] \in Int /\ a[y] \in Int /\ a[k] \in Int
    BY <2>1
  <2>3. a[x] <= a[y] /\ (k = y \/ a[y] <= a[k])
    BY <1>2, <2>1
  <2> QED  BY <2>2, <2>3
<1> QED  BY <1>3, <1>4

LEMMA RangeGrows ==
  ASSUME NEW l \in Int, NEW k \in Int, l <= k, NEW j \in Int, j = k + 1, NEW m \in Int
  PROVE  l..(j-1) = (l..(k-1)) \cup {k} /\ j..m \subseteq k..m
<1>1. \A i \in Int : (l <= i /\ i <= j - 1) <=> ((l <= i /\ i <= k - 1) \/ i = k)
  OBVIOUS
<1>2. j - 1 \in Int /\ k - 1 \in Int
  OBVIOUS
<1> QED  BY <1>1, <1>2

\* The place of side s that is copied next.
At(f, s) == IF s = "left" THEN f.left ELSE f.right

\* Its side has elements left, and the other side has no smaller one.
MayCopy(a, c, f, s) ==
  /\ s = "left" => f.left <= MidOf(c) /\ (f.right <= c[2] => a[f.left] <= a[f.right])
  /\ s = "right" => f.right <= c[2] /\ (f.left <= MidOf(c) => a[f.right] <= a[f.left])

\* Copying the smaller of the two next elements, or what one part has left.
LEMMA CopyKeeps ==
  ASSUME NEW a, NEW c, NEW lo \in Int, NEW hi \in Int, Ranged(c, lo, hi), \A k \in lo..hi : a[k] \in Int,
         \A h \in Halves(c) : Climbs(a, h),
         NEW f \in Frames, Copying(a, c, f), NEW s \in Threaded!Sides, NEW g, IsCopied(f, s, a[At(f, s)], g),
         MayCopy(a, c, f, s)
  PROVE  g \in Frames /\ Copying(a, c, g) /\ Len(g.b) >= 1
<1> DEFINE m == MidOf(c)
           D == Done(c, f)
           R == Rest(c, f)
           x == At(f, s)
           b == f.b
<1>1. c[1] \in Int /\ c[2] \in Int /\ m \in Int /\ lo <= c[1] /\ c[1] <= m /\ m < c[2] /\ c[2] <= hi
  BY RangedIs
<1>2. f.left \in Int /\ f.right \in Int /\ b \in Seq(Int)
  BY FrameIs
<1>3. /\ c[1] <= f.left /\ f.left <= m + 1 /\ m + 1 <= f.right /\ f.right <= c[2] + 1
      /\ Len(b) = (f.left - c[1]) + (f.right - (m + 1)) /\ Gathered(a, D, R, b)
  BY DEF Copying
<1>4. Climbs(a, <<c[1], m>>) /\ Climbs(a, <<m + 1, c[2]>>)
  BY DEF Halves, MidOf
<1>5. D = (c[1]..(f.left - 1)) \cup ((m + 1)..(f.right - 1)) /\ R = (f.left..m) \cup (f.right..c[2])
  BY DEF Done, Rest
<1> HIDE DEF m, D, R
<1>6. Climbs(a, <<f.left, m>>) /\ Climbs(a, <<f.right, c[2]>>)
  <2>1. \A k \in f.left..m : k \in c[1]..m
    BY <1>1, <1>2, <1>3
  <2>2. \A k \in f.right..c[2] : k \in (m+1)..c[2]
    BY <1>1, <1>2, <1>3
  <2> QED  BY <1>4, <2>1, <2>2 DEF Climbs
<1>7. IsFiniteSet(D)
  <2>1. f.left - 1 \in Int /\ m + 1 \in Int /\ f.right - 1 \in Int
    BY <1>1, <1>2
  <2>2. IsFiniteSet(c[1]..(f.left - 1)) /\ IsFiniteSet((m + 1)..(f.right - 1))
    BY <1>1, <2>1, FS_Interval
  <2> QED  BY <1>5, <2>2, FS_Union
<1>8. ASSUME NEW k \in R  PROVE a[k] \in Int
  <2> DEFINE x1 == f.left
             y1 == f.right
             l == c[1]
             r == c[2]
  <2>1. k \in (x1..m) \cup (y1..r) /\ x1 \in Int /\ y1 \in Int /\ l <= x1 /\ m + 1 <= y1
    BY <1>2, <1>3, <1>5
  <2>2. l \in Int /\ r \in Int /\ m \in Int /\ lo <= l /\ l <= m /\ m < r /\ r <= hi
    BY <1>1
  <2> HIDE DEF x1, y1, l, r
  <2>3. k \in lo..hi
    BY <2>1, <2>2
  <2> QED  BY <2>3
<1>9. x \in R /\ x \notin D
  <2>1. s = "left" \/ s = "right"
    BY DEF Threaded!Sides
  <2>2. (s = "left" => x = f.left) /\ (s = "right" => x = f.right)
    BY DEF At
  <2> DEFINE x1 == f.left
             y1 == f.right
             l == c[1]
             r == c[2]
  <2>3. /\ x1 \in Int /\ y1 \in Int /\ l \in Int /\ r \in Int /\ m \in Int
        /\ l <= x1 /\ x1 <= m + 1 /\ m + 1 <= y1 /\ y1 <= r + 1
        /\ D = (l..(x1 - 1)) \cup ((m + 1)..(y1 - 1)) /\ R = (x1..m) \cup (y1..r)
        /\ (x = x1 /\ x1 <= m) \/ (x = y1 /\ y1 <= r)
    BY <1>1, <1>2, <1>3, <1>5, <2>1, <2>2 DEF m, MayCopy
  <2> HIDE DEF x, x1, y1, l, r
  <2>4. (x1 <= m => x1 \in x1..m /\ x1 \notin l..(x1 - 1) /\ x1 \notin (m + 1)..(y1 - 1))
    BY <2>3
  <2>5. (y1 <= r => y1 \in y1..r /\ y1 \notin l..(x1 - 1) /\ y1 \notin (m + 1)..(y1 - 1))
    BY <2>3
  <2> QED  BY <2>3, <2>4, <2>5
<1>10. \A k \in R : a[x] <= a[k]
  <2>1. CASE s = "left"
    <3>1. f.left <= m /\ (f.right <= c[2] => a[f.left] <= a[f.right])
      BY <2>1 DEF m, MayCopy
    <3>2. \A k \in (f.left..m) \cup (f.right..c[2]) : a[k] \in Int
      BY <1>5, <1>8
    <3>3. \A k \in (f.left..m) \cup (f.right..c[2]) : a[f.left] <= a[k]
      BY <1>1, <1>2, <1>6, <3>1, <3>2, HeadLeast
    <3> QED  BY <1>5, <2>1, <3>3 DEF At
  <2>2. CASE s = "right"
    <3>1. f.right <= c[2] /\ (f.left <= m => a[f.right] <= a[f.left])
      BY <2>2 DEF m, MayCopy
    <3>2. \A k \in (f.right..c[2]) \cup (f.left..m) : a[k] \in Int
      BY <1>5, <1>8
    <3>3. \A k \in (f.right..c[2]) \cup (f.left..m) : a[f.right] <= a[k]
      BY <1>1, <1>2, <1>6, <3>1, <3>2, HeadLeast
    <3>4. x = f.right
      BY <2>2 DEF At
    <3> QED  BY <1>5, <3>3, <3>4
  <2> QED  BY <2>1, <2>2 DEF Threaded!Sides
<1>11. a[x] \in Int
  BY <1>8, <1>9
<1>12. /\ g \in Frames /\ g.b = Append(b, a[x]) /\ \A side \in Threaded!Sides : g.seen[side] = NotRead
       /\ s = "left" => g.left = f.left + 1 /\ g.right = f.right
       /\ s = "right" => g.left = f.left /\ g.right = f.right + 1
  BY <1>11, FrameCopied
<1>13. /\ s = "left" => x = f.left /\ f.left <= m
       /\ s = "right" => x = f.right /\ f.right <= c[2]
       /\ s = "left" \/ s = "right"
  BY DEF At, Threaded!Sides, MayCopy, m
<1> HIDE DEF x, b
<1>14. Done(c, g) = D \cup {x} /\ Rest(c, g) \subseteq R
  <2>1. Done(c, g) = (c[1]..(g.left - 1)) \cup ((m + 1)..(g.right - 1)) /\ Rest(c, g) = (g.left..m) \cup (g.right..c[2])
    BY DEF Done, Rest, m
  <2>2. CASE s = "left"
    <3>1. g.left = f.left + 1 /\ g.right = f.right /\ x = f.left
      BY <1>12, <1>13, <2>2
    <3>2. c[1]..(g.left - 1) = (c[1]..(f.left - 1)) \cup {f.left} /\ g.left..m \subseteq f.left..m
      <4>1. g.left \in Int
        BY <1>2, <3>1
      <4> QED  BY <1>1, <1>2, <1>3, <3>1, <4>1, RangeGrows
    <3> QED  BY <1>5, <2>1, <3>1, <3>2
  <2>3. CASE s = "right"
    <3>1. g.left = f.left /\ g.right = f.right + 1 /\ x = f.right
      BY <1>12, <1>13, <2>3
    <3>2. (m + 1)..(g.right - 1) = ((m + 1)..(f.right - 1)) \cup {f.right} /\ g.right..c[2] \subseteq f.right..c[2]
      <4>1. g.right \in Int /\ m + 1 \in Int
        BY <1>1, <1>2, <3>1
      <4> QED  BY <1>1, <1>2, <1>3, <3>1, <4>1, RangeGrows
    <3> QED  BY <1>5, <2>1, <3>1, <3>2
  <2> QED  BY <1>13, <2>2, <2>3
<1>15. Gathered(a, Done(c, g), Rest(c, g), g.b)
  <2>1. Gathered(a, D, R, b)
    BY <1>3
  <2>2. Rest(c, g) \subseteq R
    BY <1>14
  <2> DEFINE Q == Rest(c, g)
  <2> HIDE DEF Q
  <2>3. Q \subseteq R
    BY <2>2 DEF Q
  <2>4. Gathered(a, D \cup {x}, Q, Append(b, a[x]))
    BY <1>7, <1>9, <1>10, <1>11, <2>1, <2>3, GatherOne
  <2>5. g.b = Append(b, a[x])
    BY <1>12 DEF b
  <2> QED  BY <1>14, <2>4, <2>5 DEF Q
<1>16. Len(g.b) = Len(b) + 1 /\ Len(b) \in Nat
  BY <1>2, <1>11, <1>12 DEF b
<1>17. /\ c[1] <= g.left /\ g.left <= m + 1 /\ m + 1 <= g.right /\ g.right <= c[2] + 1
       /\ Len(g.b) = (g.left - c[1]) + (g.right - (m + 1)) /\ Len(g.b) >= 1
  <2> DEFINE L == f.left
             M == f.right
             u == c[1]
             v == c[2]
             n == Len(b)
             K == g.left
             N == g.right
             p == Len(g.b)
  <2>1. /\ u \in Int /\ v \in Int /\ m \in Int /\ L \in Int /\ M \in Int /\ n \in Nat /\ p = n + 1
        /\ u <= L /\ L <= m + 1 /\ m + 1 <= M /\ M <= v + 1
        /\ n = (L - u) + (M - (m + 1))
    BY <1>1, <1>2, <1>3, <1>16
  <2>2. (K = L + 1 /\ N = M /\ L <= m) \/ (K = L /\ N = M + 1 /\ M <= v)
    BY <1>12, <1>13
  <2> HIDE DEF L, M, u, v, n, K, N, p
  <2>3. u <= K /\ K <= m + 1 /\ m + 1 <= N /\ N <= v + 1 /\ p = (K - u) + (N - (m + 1)) /\ p >= 1
    BY <2>1, <2>2
  <2> QED  BY <2>3 DEF u, v, K, N, p
<1>18. SeenRight(a, c, g)
  BY <1>12 DEF SeenRight
<1> QED  BY <1>12, <1>15, <1>17, <1>18 DEF Copying, m

\* When both parts have been copied, the call knows the range that it leaves.
LEMMA ReadyToWrite ==
  ASSUME NEW inp, NEW a, NEW s, NEW f \in Frames, NEW lo \in Int, NEW hi \in Int,
         Plan(a, s, lo, hi), SameNumbers(a, inp, lo..hi), s # <<>>,
         Copying(a, s[1], f), Finished(s[1], f)
  PROVE  AtWrites(inp, a, s, f, lo, hi)
<1> DEFINE c == s[1]
           l == c[1]
           r == c[2]
           b == f.b
           n == Len(b)
           w == [k \in lo..hi |-> IF l <= k /\ k <= r THEN b[(k - l) + 1] ELSE a[k]]
<1>1. Ranged(c, lo, hi)
  BY PlanHalves
<1>2. l \in Int /\ r \in Int /\ lo <= l /\ l < r /\ r <= hi /\ MidOf(c) \in Int /\ l <= MidOf(c) /\ MidOf(c) < r
  <2>1. /\ c[1] \in Int /\ c[2] \in Int /\ MidOf(c) \in Int
        /\ lo <= c[1] /\ c[1] <= MidOf(c) /\ MidOf(c) < c[2] /\ c[2] <= hi
    BY <1>1, RangedIs
  <2> QED  BY <2>1
<1>3. f.left = MidOf(c) + 1 /\ f.right = r + 1
  BY DEF Finished
<1>4. b \in Seq(Int) /\ n \in Nat /\ Gathered(a, Done(c, f), Rest(c, f), b) /\ n = (f.left - l) + (f.right - (MidOf(c) + 1))
  BY FrameIs DEF Copying
<1>5. n = (r - l) + 1
  <2> DEFINE m == MidOf(c)
             x == f.left
             y == f.right
  <2>1. m \in Int /\ x = m + 1 /\ y = r + 1 /\ n = (x - l) + (y - (m + 1))
    BY <1>2, <1>3, <1>4
  <2> HIDE DEF l, r, n, m, x, y
  <2> QED  BY <1>2, <2>1
<1>6. Done(c, f) = l..r
  <2> DEFINE m == MidOf(c)
             x == f.left
             y == f.right
  <2>1. m \in Int /\ x = m + 1 /\ y = r + 1 /\ Done(c, f) = (l..(x - 1)) \cup ((m + 1)..(y - 1)) /\ l <= m /\ m < r
    BY <1>2, <1>3 DEF Done
  <2> HIDE DEF l, r, m, x, y
  <2> QED  BY <1>2, <2>1
<1>7. Ascending(b) /\ \A v : CountIn(b, v) = Amount(a, l..r, v)
  BY <1>4, <1>6 DEF Gathered
<1> HIDE DEF l, r, n, b
<1>8. /\ \A k \in lo..hi : l <= k /\ k <= r => w[k] = b[(k - l) + 1]
      /\ \A k \in lo..hi : k < l \/ r < k => w[k] = a[k]
  BY <1>2
<1> HIDE DEF w
<1>9. ASSUME NEW k \in l..r  PROVE k \in lo..hi /\ w[k] = b[(k - l) + 1] /\ (k - l) + 1 \in 1..n
  <2>1. k \in lo..hi /\ l <= k /\ k <= r
    BY <1>2
  <2> QED  BY <1>2, <1>5, <1>8, <2>1
<1>10. ASSUME NEW k \in 1..n  PROVE w[(l - 1) + k] = b[k]
  <2>1. (l - 1) + k \in l..r /\ (((l - 1) + k) - l) + 1 = k
    BY <1>2, <1>5
  <2> QED  BY <1>9, <2>1
<1>11. Climbs(w, c)
  <2>1. ASSUME NEW x \in l..r, NEW y \in l..r, x < y  PROVE w[x] <= w[y]
    <3> DEFINE i == (x - l) + 1
               j == (y - l) + 1
    <3>1. i < j
      BY <1>2, <2>1
    <3>2. i \in 1..n /\ j \in 1..n /\ w[x] = b[i] /\ w[y] = b[j]
      BY <1>9
    <3> HIDE DEF i, j
    <3>3. b[i] <= b[j]
      BY <1>7, <3>1, <3>2 DEF Ascending, n
    <3> QED  BY <3>2, <3>3
  <2> QED  BY <2>1 DEF Climbs, l, r
<1>12. Plan(w, Tail(s), lo, hi)
  <2>1. \A k \in lo..hi : k < s[1][1] \/ s[1][2] < k => w[k] = a[k]
    BY <1>8 DEF l, r
  <2> HIDE DEF c
  <2> QED  BY <1>11, <2>1, PlanNext DEF c
<1>13. SameNumbers(w, inp, lo..hi)
  <2>1. ASSUME NEW v  PROVE Amount(w, l..r, v) = CountIn(b, v)
    <3> DEFINE o == l - 1
    <3>1. o \in Int /\ o + 1 = l /\ o + n = r
      BY <1>2, <1>5
    <3>2. \A k \in 1..Len(b) : w[o+k] = b[k]
      BY <1>10 DEF n
    <3> HIDE DEF o
    <3>3. Amount(w, (o+1)..(o+Len(b)), v) = CountIn(b, v)
      BY <1>4, <3>1, <3>2, AmountLaid
    <3> QED  BY <3>1, <3>3 DEF n
  <2>2. SameNumbers(w, a, l..r)
    BY <1>7, <2>1 DEF SameNumbers
  <2>3. IsFiniteSet(lo..hi) /\ l..r \subseteq lo..hi /\ \A k \in (lo..hi) \ (l..r) : w[k] = a[k]
    <3>1. IsFiniteSet(lo..hi)
      BY FS_Interval
    <3>2. l..r \subseteq lo..hi
      BY <1>9
    <3>3. \A k \in (lo..hi) \ (l..r) : k < l \/ r < k
      BY <1>2
    <3> QED  BY <1>8, <3>1, <3>2, <3>3
  <2>4. SameNumbers(w, a, lo..hi)
    BY <2>2, <2>3, NumbersOfPart
  <2> QED  BY <2>4 DEF SameNumbers
<1>14. Laid(w, a, c, b, lo, hi)
  <2>1. n >= 1 /\ n <= r - l + 1 /\ r - n = l - 1
    BY <1>2, <1>5
  <2>2. \A k \in 1..n : w[(r - n) + k] = b[k]
    BY <1>10, <2>1
  <2>3. ASSUME NEW k \in lo..hi, k <= r - n \/ r < k  PROVE w[k] = a[k]
    <3>1. k < l \/ r < k
      BY <1>2, <2>1, <2>3
    <3> QED  BY <1>8, <3>1
  <2> QED  BY <2>1, <2>2, <2>3 DEF Laid, l, r, n
<1> QED  BY <1>1, <1>12, <1>13, <1>14 DEF AtWrites, b

\* The place that is written next.
WritesAt(c, f, x) == x = c[2] - Len(f.b) + 1

LEMMA WritePlace ==
  ASSUME NEW inp, NEW a, NEW s, NEW f \in Frames, NEW lo \in Int, NEW hi \in Int,
         AtWrites(inp, a, s, f, lo, hi), NEW x, WritesAt(s[1], f, x)
  PROVE  Len(f.b) >= 1 /\ x \in lo..hi
<1> DEFINE c == s[1]
           l == c[1]
           r == c[2]
           n == Len(f.b)
<1>1. PICK w : Ranged(c, lo, hi) /\ Laid(w, a, c, f.b, lo, hi)
  BY DEF AtWrites
<1>2. l \in Int /\ r \in Int /\ lo <= l /\ l < r /\ r <= hi
  <2>1. c[1] \in Int /\ c[2] \in Int /\ MidOf(c) \in Int /\ lo <= c[1] /\ c[1] <= MidOf(c) /\ MidOf(c) < c[2] /\ c[2] <= hi
    BY <1>1, RangedIs
  <2> QED  BY <2>1
<1>3. n \in Nat
  <2>1. f.b \in Seq(Int)
    BY FrameIs
  <2> QED  BY <2>1
<1>4. n >= 1 /\ n <= (r - l) + 1 /\ x = (r - n) + 1
  BY <1>1 DEF Laid, WritesAt
<1> HIDE DEF l, r, n
<1>5. x \in Int
  BY <1>2, <1>3, <1>4
<1>6. x \in lo..hi
  BY <1>2, <1>3, <1>4, <1>5
<1> QED  BY <1>4, <1>6 DEF n

LEMMA FirstOf ==
  ASSUME NEW b \in Seq(Int), Len(b) >= 1
  PROVE  Head(b) = b[1] /\ Tail(b) \in Seq(Int) /\ Len(Tail(b)) = Len(b) - 1 /\ \A k \in 1..(Len(b)-1) : Tail(b)[k] = b[k+1]
  OBVIOUS

\* The next element that is written back.
LEMMA WriteKeeps ==
  ASSUME NEW inp, NEW a, NEW s, NEW f \in Frames, NEW lo \in Int, NEW hi \in Int,
         s \in Seq(Int \X Int), AtWrites(inp, a, s, f, lo, hi),
         NEW x, WritesAt(s[1], f, x),
         NEW a2, a2[x] = Head(f.b), \A k \in lo..hi : k # x => a2[k] = a[k]
  PROVE  /\ Len(f.b) >= 1 /\ x \in lo..hi
         /\ Len(f.b) = 1 => Working(inp, a2, Tail(s), Threaded!Entered(Tail(s)), lo, hi)
         /\ Len(f.b) # 1 =>
              \A g \in Frames : g.left = f.left /\ g.right = f.right /\ g.b = Tail(f.b) => AtWrites(inp, a2, s, g, lo, hi)
<1> DEFINE c == s[1]
           l == c[1]
           r == c[2]
           b == f.b
           n == Len(b)
<1>1. Ranged(c, lo, hi) /\ Finished(c, f) /\ s # <<>>
  BY DEF AtWrites
<1>2. l \in Int /\ r \in Int /\ lo <= l /\ l < r /\ r <= hi
  <2>1. c[1] \in Int /\ c[2] \in Int /\ MidOf(c) \in Int /\ lo <= c[1] /\ c[1] <= MidOf(c) /\ MidOf(c) < c[2] /\ c[2] <= hi
    BY <1>1, RangedIs
  <2> QED  BY <2>1
<1>3. PICK w : Plan(w, Tail(s), lo, hi) /\ SameNumbers(w, inp, lo..hi) /\ Laid(w, a, c, b, lo, hi)
  BY DEF AtWrites
<1>4. b \in Seq(Int) /\ n \in Nat /\ x = r - n + 1
  BY FrameIs DEF WritesAt
<1>5. /\ n >= 1 /\ n <= r - l + 1
      /\ \A k \in 1..n : w[(r - n) + k] = b[k]
      /\ \A k \in lo..hi : k <= r - n \/ r < k => w[k] = a[k]
  BY <1>3 DEF Laid
<1>6. Head(b) = b[1] /\ Tail(b) \in Seq(Int) /\ Len(Tail(b)) = n - 1 /\ \A k \in 1..(n-1) : Tail(b)[k] = b[k+1]
  BY <1>4, <1>5, FirstOf
<1> HIDE DEF l, r, n, b
<1>7. x \in lo..hi /\ l <= x /\ x <= r /\ x = (r - n) + 1 /\ x = r - (n - 1) /\ x \in Int
  <2>1. x = (r - n) + 1
    BY <1>4
  <2>2. r - n \in Int /\ n \in Int
    BY <1>2, <1>4
  <2>3. x \in Int
    BY <2>1, <2>2
  <2>4. n >= 1 /\ n <= (r - l) + 1
    BY <1>5
  <2>5. l <= x /\ x <= r /\ x = r - (n - 1)
    BY <1>2, <2>1, <2>2, <2>3, <2>4
  <2> QED  BY <1>2, <2>1, <2>3, <2>5
<1>8. w[x] = a2[x]
  <2>1. 1 \in 1..n
    BY <1>4, <1>5
  <2>2. w[x] = b[1]
    BY <1>5, <1>7, <2>1
  <2> QED  BY <1>6, <2>2 DEF b
<1>9. ASSUME n = 1  PROVE Working(inp, a2, Tail(s), Threaded!Entered(Tail(s)), lo, hi)
  <2>1. ASSUME NEW k \in lo..hi  PROVE a2[k] = w[k]
    <3>1. k = x \/ k <= r - n \/ r < k
      BY <1>2, <1>7, <1>9
    <3>2. CASE k = x
      BY <1>8, <3>2
    <3>3. CASE k # x
      BY <1>5, <3>1, <3>3
    <3> QED  BY <3>2, <3>3
  <2>2. Plan(a2, Tail(s), lo, hi)
    <3>1. AgreeOn(w, a2, lo, hi)
      BY <2>1 DEF AgreeOn
    <3> QED  BY <1>3, <3>1, PlanFrame
  <2>3. SameNumbers(a2, inp, lo..hi)
    <3>1. SameNumbers(a2, w, lo..hi)
      BY <2>1, AmountAgree
    <3> QED  BY <1>3, <3>1 DEF SameNumbers
  <2> QED  BY <2>2, <2>3, EnteredWorks
<1>10. ASSUME n # 1, NEW g \in Frames, g.left = f.left, g.right = f.right, g.b = Tail(f.b)
       PROVE  AtWrites(inp, a2, s, g, lo, hi)
  <2>1. Finished(c, g)
    BY <1>1, <1>10 DEF Finished
  <2> DEFINE d == Tail(b)
             m == Len(d)
  <2>2. m = n - 1 /\ \A k \in 1..m : d[k] = b[k+1]
    BY <1>6
  <2> HIDE DEF d, m
  <2>3. m >= 1 /\ m <= r - l + 1 /\ x = r - m /\ m \in Int
    <3>1. n \in Int /\ n >= 1 /\ n # 1 /\ n <= (r - l) + 1 /\ x = r - (n - 1)
      BY <1>4, <1>5, <1>7, <1>10
    <3> QED  BY <1>2, <2>2, <3>1
  <2>4. ASSUME NEW k \in 1..m  PROVE w[(r - m) + k] = d[k]
    <3>1. k + 1 \in 1..n /\ (r - n) + (k + 1) = (r - m) + k
      <4>1. m \in Int /\ n \in Int /\ m = n - 1
        BY <1>4, <2>2, <2>3
      <4> QED  BY <1>2, <4>1
    <3> QED  BY <1>5, <2>2, <3>1
  <2>5. ASSUME NEW k \in lo..hi, k <= r - m \/ r < k  PROVE w[k] = a2[k]
    <3>1. k = x \/ k <= r - n \/ r < k
      BY <1>2, <1>4, <1>7, <2>2, <2>3, <2>5
    <3>2. CASE k = x
      BY <1>8, <3>2
    <3>3. CASE k # x
      BY <1>5, <3>1, <3>3
    <3> QED  BY <3>2, <3>3
  <2>6. Laid(w, a2, c, d, lo, hi)
    BY <2>3, <2>4, <2>5 DEF Laid, l, r, m
  <2>7. g.b = d
    BY <1>10 DEF d, b
  <2> QED  BY <1>1, <1>3, <2>1, <2>6, <2>7 DEF AtWrites
<1> QED  BY <1>5, <1>7, <1>9, <1>10 DEF n, b

-----------------------------------------------------------------------------
(* The multithreaded sort: a step of a thread. *)

LEMMA Remains ==
  ASSUME NEW t, frame[t] \in Frames, NEW lo \in Int, NEW hi \in Int,
         todo[t] # <<>> => Ranged(todo[t][1], lo, hi)
  PROVE  /\ \A s \in Threaded!Sides : Threaded!Remaining(t, s) > 0 =>
              /\ todo[t] # <<>>
              /\ s = "left" => frame[t].left <= MidOf(todo[t][1])
              /\ s = "right" => frame[t].right <= todo[t][1][2]
         /\ ~Threaded!BothRemain(t) /\ todo[t] # <<>> =>
              ~(frame[t].left <= MidOf(todo[t][1]) /\ frame[t].right <= todo[t][1][2])
         /\ Threaded!CopiedAll(t) => todo[t] # <<>> /\ Finished(todo[t][1], frame[t])
<1> DEFINE f == frame[t]
           c == todo[t][1]
           m == MidOf(c)
           r == c[2]
           x == f.left
           y == f.right
<1>1. x \in Int /\ y \in Int
  BY FrameIs
<1>2. todo[t] # <<>> =>
        /\ m \in Int /\ r \in Int
        /\ Threaded!Remaining(t, "left") = (m - x) + 1
        /\ Threaded!Remaining(t, "right") = (r - y) + 1
  BY RangedIs DEF Threaded!Remaining, Threaded!Low, Threaded!High, MidOf
<1>3. todo[t] = <<>> => \A s \in Threaded!Sides : Threaded!Remaining(t, s) = 0
  BY DEF Threaded!Remaining
<1>4. \A s \in Threaded!Sides : s = "left" \/ s = "right"
  BY DEF Threaded!Sides
<1>5. "left" \in Threaded!Sides /\ "right" \in Threaded!Sides
  BY DEF Threaded!Sides
<1>6. Finished(c, f) <=> x = m + 1 /\ y = r + 1
  BY DEF Finished
<1> HIDE DEF f, c, m, r, x, y
<1>7. ASSUME todo[t] # <<>>
      PROVE  /\ Threaded!Remaining(t, "left") > 0 <=> x <= m
             /\ Threaded!Remaining(t, "right") > 0 <=> y <= r
             /\ Threaded!Remaining(t, "left") = 0 <=> x = m + 1
             /\ Threaded!Remaining(t, "right") = 0 <=> y = r + 1
  BY <1>1, <1>2, <1>7
<1>8. ASSUME NEW s \in Threaded!Sides, Threaded!Remaining(t, s) > 0
      PROVE  todo[t] # <<>> /\ (s = "left" => x <= m) /\ (s = "right" => y <= r)
  <2>1. todo[t] # <<>>
    BY <1>3, <1>8
  <2> QED  BY <1>7, <1>8, <2>1
<1>9. ASSUME ~Threaded!BothRemain(t), todo[t] # <<>>  PROVE ~(x <= m /\ y <= r)
  <2>1. PICK s \in Threaded!Sides : ~(Threaded!Remaining(t, s) > 0)
    BY <1>9 DEF Threaded!BothRemain
  <2> QED  BY <1>4, <1>7, <1>9, <2>1
<1>10. ASSUME Threaded!CopiedAll(t)  PROVE todo[t] # <<>> /\ Finished(c, f)
  <2>1. todo[t] # <<>> /\ Threaded!Remaining(t, "left") = 0 /\ Threaded!Remaining(t, "right") = 0
    BY <1>5, <1>10 DEF Threaded!CopiedAll
  <2> QED  BY <1>6, <1>7, <2>1
<1> QED  BY <1>8, <1>9, <1>10 DEF f, c, m, r, x, y

LEMMA StepIs ==
  ASSUME NEW t \in Threaded!Threads, DOMAIN frame = Threaded!Threads, NEW g, Threaded!Step(t, g)
  PROVE  /\ DOMAIN frame' = Threaded!Threads /\ frame'[t] = g
         /\ \A u \in Threaded!Threads : u # t => frame'[u] = frame[u]
         /\ UNCHANGED printed
<1>1. frame' = [frame EXCEPT ![t] = g] /\ UNCHANGED printed
  BY DEF Threaded!Step
<1> QED  BY <1>1

\* A thread has nothing to do once its calls are made.
LEMMA NothingLeft ==
  ASSUME NEW t, todo[t] = <<>>
  PROVE  ~Threaded!Thread(t)
<1>1. \A s \in Threaded!Sides : Threaded!Remaining(t, s) = 0
  BY DEF Threaded!Remaining
<1>2. "left" \in Threaded!Sides
  BY DEF Threaded!Sides
<1>3. ~Threaded!BothRemain(t) /\ ~Threaded!OneRemains(t) /\ ~Threaded!CopiedAll(t)
  BY <1>1, <1>2 DEF Threaded!BothRemain, Threaded!OneRemains, Threaded!CopiedAll
<1> QED  BY <1>3 DEF Threaded!Thread, Threaded!Read, Threaded!CopySmaller, Threaded!CopyRest, Threaded!WriteBack

\* After one more element has been copied.
LEMMA CopyWorks ==
  ASSUME NEW inp, NEW a, NEW q, NEW f \in Frames, NEW lo \in Int, NEW hi \in Int, \A k \in lo..hi : a[k] \in Int,
         q \in Seq(Int \X Int), q # <<>>, AtCopies(inp, a, q, f, lo, hi),
         NEW s \in Threaded!Sides, NEW g, IsCopied(f, s, a[At(f, s)], g),
         MayCopy(a, q[1], f, s)
  PROVE  Working(inp, a, q, g, lo, hi)
<1>1. Plan(a, q, lo, hi) /\ SameNumbers(a, inp, lo..hi) /\ Copying(a, q[1], f)
  BY DEF AtCopies
<1>2. Ranged(q[1], lo, hi) /\ \A h \in Halves(q[1]) : Climbs(a, h)
  BY <1>1, PlanHalves
<1>3. g \in Frames /\ Copying(a, q[1], g)
  BY <1>1, <1>2, CopyKeeps
<1>4. CASE Finished(q[1], g)
  <2>1. AtWrites(inp, a, q, g, lo, hi)
    BY <1>1, <1>3, <1>4, ReadyToWrite
  <2> QED  BY <1>3, <2>1 DEF Working
<1>5. CASE ~Finished(q[1], g)
  BY <1>1, <1>3, <1>5 DEF Working, AtCopies
<1> QED  BY <1>4, <1>5

\* After an operand of the comparison has been loaded.
LEMMA ReadWorks ==
  ASSUME NEW inp, NEW a, NEW q, NEW f \in Frames, NEW lo \in Int, NEW hi \in Int, \A k \in lo..hi : a[k] \in Int,
         q \in Seq(Int \X Int), q # <<>>, AtCopies(inp, a, q, f, lo, hi),
         NEW s \in Threaded!Sides, NEW v, v = a[At(f, s)], NEW g, IsRead(f, s, v, g),
         f.left <= MidOf(q[1]), f.right <= q[1][2]
  PROVE  Working(inp, a, q, g, lo, hi)
<1> DEFINE c == q[1]
<1>1. Plan(a, q, lo, hi) /\ SameNumbers(a, inp, lo..hi) /\ Copying(a, c, f) /\ ~Finished(c, f)
  BY DEF AtCopies
<1>2. Ranged(c, lo, hi)
  BY <1>1, PlanHalves
<1>3. f.left \in Int /\ f.right \in Int
  BY FrameIs
<1>4. v \in Int
  <2>1. c[1] <= f.left /\ MidOf(c) + 1 <= f.right
    BY <1>1 DEF Copying
  <2>2. /\ c[1] \in Int /\ c[2] \in Int /\ MidOf(c) \in Int
        /\ lo <= c[1] /\ c[1] <= MidOf(c) /\ MidOf(c) < c[2] /\ c[2] <= hi
    BY <1>2, RangedIs
  <2> HIDE DEF c
  <2>3. f.left \in lo..hi /\ f.right \in lo..hi
    <3> DEFINE x == f.left
               y == f.right
               l == c[1]
               r == c[2]
               m == MidOf(c)
    <3>1. x \in Int /\ y \in Int /\ x <= m /\ y <= r /\ l <= x /\ m + 1 <= y
      BY <1>3, <2>1 DEF c
    <3>2. l \in Int /\ r \in Int /\ m \in Int /\ lo <= l /\ l <= m /\ m < r /\ r <= hi
      BY <2>2
    <3> HIDE DEF x, y, l, r, m
    <3>3. x \in lo..hi /\ y \in lo..hi
      BY <3>1, <3>2
    <3> QED  BY <3>3 DEF x, y
  <2> QED  BY <2>3 DEF At
<1>5. /\ g \in Frames /\ g.left = f.left /\ g.right = f.right /\ g.b = f.b
      /\ \A side \in Threaded!Sides : g.seen[side] = (IF side = s THEN v ELSE f.seen[side])
  BY <1>4, FrameRead
<1>6. Done(c, g) = Done(c, f) /\ Rest(c, g) = Rest(c, f) /\ (Finished(c, g) <=> Finished(c, f))
  BY <1>5 DEF Done, Rest, Finished
<1>7. SeenRight(a, c, g)
  <2>1. ASSUME NEW side \in Threaded!Sides, g.seen[side] # NotRead
        PROVE  g.left <= MidOf(c) /\ g.right <= c[2] /\ g.seen[side] = a[IF side = "left" THEN g.left ELSE g.right]
    <3>1. CASE side = s
      BY <1>5, <3>1 DEF At
    <3>2. CASE side # s
      BY <1>1, <1>5, <2>1, <3>2 DEF Copying, SeenRight
    <3> QED  BY <3>1, <3>2
  <2> QED  BY <2>1 DEF SeenRight
<1>8. Copying(a, c, g)
  <2>1. Gathered(a, Done(c, g), Rest(c, g), g.b)
    BY <1>1, <1>5, <1>6 DEF Copying
  <2>2. /\ c[1] <= g.left /\ g.left <= MidOf(c) + 1 /\ MidOf(c) + 1 <= g.right /\ g.right <= c[2] + 1
        /\ Len(g.b) = (g.left - c[1]) + (g.right - (MidOf(c) + 1))
    BY <1>1, <1>5 DEF Copying
  <2> QED  BY <1>7, <2>1, <2>2 DEF Copying
<1> QED  BY <1>1, <1>5, <1>6, <1>8 DEF Working, AtCopies

WellTyped ==
  array \in [Index -> Int] /\ DOMAIN todo = Threaded!Threads /\ DOMAIN frame = Threaded!Threads

\* What a step of thread t leaves alone, if it sorts lo..hi.
OthersStay(t, lo, hi) ==
  /\ \A k \in Index : k < lo \/ hi < k => array'[k] = array[k]
  /\ \A u \in Threaded!Threads : u # t => todo'[u] = todo[u] /\ frame'[u] = frame[u]

LEMMA InRange ==
  ASSUME NEW lo \in Index, NEW hi \in Index, NEW k \in lo..hi
  PROVE  lo \in Int /\ hi \in Int /\ k \in Index
  BY LengthIs DEF Index, Threaded!Index

LEMMA ThreadReads ==
  ASSUME WellTyped, NEW t \in Threaded!Threads, NEW inp, NEW lo \in Index, NEW hi \in Index,
         Working(inp, array, todo[t], frame[t], lo, hi),
         NEW s \in Threaded!Sides, Threaded!Read(t, s)
  PROVE  WellTyped' /\ OthersStay(t, lo, hi) /\ Working(inp, array, todo[t], frame'[t], lo, hi)
         /\ UNCHANGED <<array, todo>>
<1> DEFINE q == todo[t]
           f == frame[t]
           g == [f EXCEPT !.seen[s] = array[f[s]]]
<1>1. lo \in Int /\ hi \in Int /\ \A k \in lo..hi : array[k] \in Int
  <2>1. lo \in Int /\ hi \in Int
    BY LengthIs DEF Index, Threaded!Index
  <2> QED  BY <2>1, InRange DEF WellTyped
<1>2. q \in Seq(Int \X Int) /\ f \in Frames /\ (AtCopies(inp, array, q, f, lo, hi) \/ AtWrites(inp, array, q, f, lo, hi))
  BY DEF Working
<1>3. Threaded!BothRemain(t) /\ Threaded!Step(t, g) /\ UNCHANGED <<array, todo>>
  BY DEF Threaded!Read
<1>4. DOMAIN frame' = Threaded!Threads /\ frame'[t] = g /\ \A u \in Threaded!Threads : u # t => frame'[u] = frame[u]
  <2> HIDE DEF g
  <2> QED  BY <1>3, StepIs DEF WellTyped
<1>5. q # <<>> => Ranged(q[1], lo, hi)
  BY <1>1, <1>2, PlanHalves DEF AtCopies, AtWrites
<1>6. q # <<>> /\ f.left <= MidOf(q[1]) /\ f.right <= q[1][2]
  <2>1. \A side \in Threaded!Sides : Threaded!Remaining(t, side) > 0
    BY <1>3 DEF Threaded!BothRemain
  <2>2. "left" \in Threaded!Sides /\ "right" \in Threaded!Sides
    BY DEF Threaded!Sides
  <2> QED  BY <1>1, <1>2, <1>5, <2>1, <2>2, Remains
<1>7. AtCopies(inp, array, q, f, lo, hi)
  <2>1. ~Finished(q[1], f)
    <3>1. MidOf(q[1]) \in Int
      BY <1>1, <1>5, <1>6, RangedIs
    <3> QED  BY <1>6, <3>1 DEF Finished
  <2> QED  BY <1>2, <2>1 DEF AtWrites
<1>8. f[s] = At(f, s)
  <2>1. s = "left" \/ s = "right"
    BY DEF Threaded!Sides
  <2> QED  BY <2>1 DEF At
<1>9. IsRead(f, s, array[At(f, s)], g)
  BY <1>8 DEF IsRead
<1> HIDE DEF q, f, g
<1>10. Working(inp, array, q, g, lo, hi)
  BY <1>1, <1>2, <1>6, <1>7, <1>9, ReadWorks
<1> QED  BY <1>3, <1>4, <1>10 DEF WellTyped, OthersStay, q

LEMMA ThreadCopies ==
  ASSUME WellTyped, NEW t \in Threaded!Threads, NEW inp, NEW lo \in Index, NEW hi \in Index,
         Working(inp, array, todo[t], frame[t], lo, hi),
         Threaded!CopySmaller(t) \/ Threaded!CopyRest(t)
  PROVE  WellTyped' /\ OthersStay(t, lo, hi) /\ Working(inp, array, todo[t], frame'[t], lo, hi)
         /\ UNCHANGED <<array, todo>>
<1> DEFINE q == todo[t]
           f == frame[t]
           m == MidOf(q[1])
           r == q[1][2]
<1>1. lo \in Int /\ hi \in Int /\ \A k \in lo..hi : array[k] \in Int
  <2>1. lo \in Int /\ hi \in Int
    BY LengthIs DEF Index, Threaded!Index
  <2> QED  BY <2>1, InRange DEF WellTyped
<1>2. q \in Seq(Int \X Int) /\ f \in Frames /\ (AtCopies(inp, array, q, f, lo, hi) \/ AtWrites(inp, array, q, f, lo, hi))
  BY DEF Working
<1>3. q # <<>> => Ranged(q[1], lo, hi)
  BY <1>1, <1>2, PlanHalves DEF AtCopies, AtWrites
<1>4. /\ \A s \in Threaded!Sides : Threaded!Remaining(t, s) > 0 =>
           q # <<>> /\ (s = "left" => f.left <= m) /\ (s = "right" => f.right <= r)
      /\ ~Threaded!BothRemain(t) /\ q # <<>> => ~(f.left <= m /\ f.right <= r)
  BY <1>1, <1>2, <1>3, Remains
<1>5. ASSUME NEW s \in Threaded!Sides, Threaded!Remaining(t, s) > 0  PROVE AtCopies(inp, array, q, f, lo, hi)
  <2>1. q # <<>> /\ (s = "left" => f.left <= m) /\ (s = "right" => f.right <= r)
    BY <1>4, <1>5
  <2>2. m \in Int /\ r \in Int
    <3>1. Ranged(q[1], lo, hi)
      BY <1>3, <2>1
    <3> QED  BY <1>1, <3>1, RangedIs
  <2>3. ~Finished(q[1], f)
    <3>1. s = "left" \/ s = "right"
      BY DEF Threaded!Sides
    <3> QED  BY <2>1, <2>2, <3>1 DEF Finished
  <2> QED  BY <1>2, <2>3 DEF AtWrites
<1>6. ASSUME NEW s \in Threaded!Sides, NEW v, v = array[At(f, s)], Threaded!Copy(t, s, v),
             Threaded!Remaining(t, s) > 0,
             s = "left" /\ f.right <= r => array[f.left] <= array[f.right],
             s = "right" /\ f.left <= m => array[f.right] <= array[f.left]
      PROVE  WellTyped' /\ OthersStay(t, lo, hi) /\ Working(inp, array, todo[t], frame'[t], lo, hi)
             /\ UNCHANGED <<array, todo>>
  <2> DEFINE g == [f EXCEPT ![s] = @ + 1, !.b = Append(@, v), !.seen = [side \in Threaded!Sides |-> NotRead]]
  <2>1. Threaded!Step(t, g) /\ UNCHANGED <<array, todo>>
    BY <1>6 DEF Threaded!Copy
  <2>2. IsCopied(f, s, array[At(f, s)], g)
    BY <1>6 DEF IsCopied
  <2> HIDE DEF g
  <2>3. DOMAIN frame' = Threaded!Threads /\ frame'[t] = g /\ \A u \in Threaded!Threads : u # t => frame'[u] = frame[u]
    BY <2>1, StepIs DEF WellTyped
  <2>4. AtCopies(inp, array, q, f, lo, hi) /\ q # <<>> /\ (s = "left" => f.left <= m) /\ (s = "right" => f.right <= r)
    BY <1>4, <1>5, <1>6
  <2>5. MayCopy(array, q[1], f, s)
    BY <1>6, <2>4 DEF MayCopy
  <2> HIDE DEF q, f
  <2>6. Working(inp, array, q, g, lo, hi)
    BY <1>1, <1>2, <1>6, <2>2, <2>4, <2>5, CopyWorks
  <2> QED  BY <2>1, <2>3, <2>6 DEF WellTyped, OthersStay, q
<1>7. \A s \in Threaded!Sides : f[s] = At(f, s) /\ (s = "left" \/ s = "right")
  BY DEF At, Threaded!Sides
<1>8. CASE Threaded!CopySmaller(t)
  <2> DEFINE s == Threaded!SmallerSide(f.seen)
  <2>1. Threaded!BothRemain(t) /\ \A side \in Threaded!Sides : f.seen[side] # NotRead
    BY <1>8 DEF Threaded!CopySmaller
  <2>2. PICK v \in {f.seen[s], array[f[s]]} : Threaded!Copy(t, s, v)
    BY <1>8 DEF Threaded!CopySmaller
  <2>3. s \in Threaded!Sides /\ "left" \in Threaded!Sides /\ "right" \in Threaded!Sides
    BY DEF Threaded!SmallerSide, Threaded!Sides
  <2>4. \A side \in Threaded!Sides : Threaded!Remaining(t, side) > 0
    BY <2>1 DEF Threaded!BothRemain
  <2>5. q # <<>> /\ f.left <= m /\ f.right <= r /\ AtCopies(inp, array, q, f, lo, hi)
    BY <1>4, <1>5, <2>3, <2>4
  <2>6. SeenRight(array, q[1], f) /\ Copying(array, q[1], f) /\ Ranged(q[1], lo, hi)
    BY <1>3, <2>5 DEF AtCopies, Copying
  <2>7. f.seen["left"] = array[f.left] /\ f.seen["right"] = array[f.right]
    <3>1. \A side \in Threaded!Sides : f.seen[side] = array[IF side = "left" THEN f.left ELSE f.right]
      BY <2>1, <2>6 DEF SeenRight
    <3> QED  BY <2>3, <3>1
  <2>8. array[f.left] \in Int /\ array[f.right] \in Int
    <3> DEFINE x == f.left
               y == f.right
               l == q[1][1]
    <3>1. x \in Int /\ y \in Int /\ l <= x /\ m + 1 <= y /\ x <= m /\ y <= r
      BY <1>2, <2>5, <2>6, FrameIs DEF Copying
    <3>2. l \in Int /\ r \in Int /\ m \in Int /\ lo <= l /\ l <= m /\ m < r /\ r <= hi
      BY <1>1, <2>6, RangedIs
    <3> HIDE DEF x, y, l, m, r
    <3>3. x \in lo..hi /\ y \in lo..hi
      BY <1>1, <3>1, <3>2
    <3> QED  BY <1>1, <3>3 DEF x, y
  <2>9. v = array[At(f, s)]
    <3>1. f.seen[s] = array[At(f, s)]
      BY <1>7, <2>3, <2>7 DEF At
    <3> QED  BY <1>7, <2>2, <2>3, <3>1
  <2>10. s = "left" => array[f.left] <= array[f.right]
    BY <2>7, <2>8 DEF Threaded!SmallerSide
  <2>11. s = "right" => array[f.right] <= array[f.left]
    BY <2>7, <2>8 DEF Threaded!SmallerSide
  <2> HIDE DEF s
  <2> QED  BY <1>6, <2>2, <2>3, <2>4, <2>9, <2>10, <2>11
<1>9. CASE Threaded!CopyRest(t)
  <2>1. PICK s \in Threaded!Sides : Threaded!Remaining(t, s) > 0 /\ Threaded!Copy(t, s, array[f[s]])
    BY <1>9 DEF Threaded!CopyRest
  <2>2. ~Threaded!BothRemain(t)
    BY <1>9 DEF Threaded!CopyRest, Threaded!OneRemains
  <2>3. q # <<>> /\ (s = "left" => f.left <= m) /\ (s = "right" => f.right <= r) /\ ~(f.left <= m /\ f.right <= r)
    BY <1>4, <2>1, <2>2
  <2>4. array[f[s]] = array[At(f, s)]
    BY <1>7
  <2> HIDE DEF q, f, m, r
  <2> QED  BY <1>6, <2>1, <2>3, <2>4
<1> QED  BY <1>8, <1>9

LEMMA ThreadWrites ==
  ASSUME WellTyped, NEW t \in Threaded!Threads, NEW inp, NEW lo \in Index, NEW hi \in Index,
         Working(inp, array, todo[t], frame[t], lo, hi), Threaded!WriteBack(t)
  PROVE  WellTyped' /\ OthersStay(t, lo, hi) /\ Working(inp, array', todo'[t], frame'[t], lo, hi)
<1> DEFINE q == todo[t]
           f == frame[t]
           x == q[1][2] - Len(f.b) + 1
           last == Len(f.b) = 1
           g == IF last THEN Threaded!Entered(Tail(q)) ELSE [f EXCEPT !.b = Tail(f.b)]
<1>1. lo \in Int /\ hi \in Int /\ \A k \in lo..hi : k \in Index
  <2>1. lo \in Int /\ hi \in Int
    BY LengthIs DEF Index, Threaded!Index
  <2> QED  BY <2>1, InRange
<1>2. q \in Seq(Int \X Int) /\ f \in Frames /\ (AtCopies(inp, array, q, f, lo, hi) \/ AtWrites(inp, array, q, f, lo, hi))
  BY DEF Working
<1>3. q # <<>> => Ranged(q[1], lo, hi)
  BY <1>1, <1>2, PlanHalves DEF AtCopies, AtWrites
<1>4. AtWrites(inp, array, q, f, lo, hi)
  <2>1. Threaded!CopiedAll(t)
    BY DEF Threaded!WriteBack
  <2>2. q # <<>> /\ Finished(q[1], f)
    BY <1>1, <1>2, <1>3, <2>1, Remains
  <2> QED  BY <1>2, <2>2 DEF AtCopies
<1>5. /\ array' = [array EXCEPT ![x] = Head(f.b)]
      /\ todo' = IF last THEN [todo EXCEPT ![t] = Tail(@)] ELSE todo
      /\ Threaded!Step(t, g)
  BY DEF Threaded!WriteBack, Threaded!High
<1>6. ~last => IsWritten(f, Tail(f.b), g)
  BY DEF IsWritten
<1>7. last => g = Threaded!Entered(Tail(q))
  OBVIOUS
<1>8. WritesAt(q[1], f, x)
  BY DEF WritesAt
<1>9. array \in [Index -> Int] /\ DOMAIN todo = Threaded!Threads /\ DOMAIN frame = Threaded!Threads
  BY DEF WellTyped
<1> HIDE DEF g, x
<1>10. DOMAIN frame' = Threaded!Threads /\ frame'[t] = g /\ \A u \in Threaded!Threads : u # t => frame'[u] = frame[u]
  BY <1>5, <1>9, StepIs
<1>11. /\ DOMAIN todo' = Threaded!Threads /\ todo'[t] = (IF last THEN Tail(q) ELSE q)
       /\ \A u \in Threaded!Threads : u # t => todo'[u] = todo[u]
  BY <1>5, <1>9
<1>12. f.b \in Seq(Int) /\ (Len(f.b) >= 1 => Head(f.b) \in Int /\ Tail(f.b) \in Seq(Int))
  <2>1. f.b \in Seq(Int)
    BY <1>2, FrameIs
  <2> DEFINE b == f.b
  <2>2. Len(b) >= 1 => b # <<>>
    OBVIOUS
  <2> QED  BY <2>1, <2>2
<1>13. \A k \in lo..hi : k # x => array'[k] = array[k]
  BY <1>1, <1>5, <1>9
<1> HIDE DEF q, f
<1>14. x \in Index => array'[x] = Head(f.b)
  BY <1>5, <1>9
<1>15. Len(f.b) >= 1 /\ x \in lo..hi
  BY <1>1, <1>2, <1>4, <1>8, WritePlace
<1>16. array'[x] = Head(f.b)
  BY <1>1, <1>14, <1>15
<1>17. array' \in [Index -> Int] /\ \A k \in Index : k < lo \/ hi < k => array'[k] = array[k]
  <2>1. \A k \in Index : k < lo \/ hi < k => k # x
    BY <1>1, <1>15
  <2> QED  BY <1>5, <1>9, <1>12, <1>15, <2>1
<1>18. Working(inp, array', todo'[t], frame'[t], lo, hi)
  <2>1. CASE last
    <3>1. Working(inp, array', Tail(q), Threaded!Entered(Tail(q)), lo, hi)
      BY <1>1, <1>2, <1>4, <1>8, <1>13, <1>16, <2>1, WriteKeeps
    <3> QED  BY <1>7, <1>10, <1>11, <2>1, <3>1
  <2>2. CASE ~last
    <3>1. g \in Frames /\ g.left = f.left /\ g.right = f.right /\ g.b = Tail(f.b)
      BY <1>2, <1>6, <1>12, <1>15, <2>2, FrameWritten
    <3>2. AtWrites(inp, array', q, g, lo, hi)
      BY <1>1, <1>2, <1>4, <1>8, <1>13, <1>16, <2>2, <3>1, WriteKeeps
    <3> QED  BY <1>2, <1>10, <1>11, <2>2, <3>1, <3>2 DEF Working
  <2> QED  BY <2>1, <2>2
<1> QED  BY <1>10, <1>11, <1>17, <1>18 DEF WellTyped, OthersStay

-----------------------------------------------------------------------------
(* The multithreaded sort: the three threads. *)

Final  == array_length - 1
Middle == Threaded!Mid(0, Final)

\* A thread is at work on its range of the array.
OnRange(t, lo, hi) == Working(input, array, todo[t], frame[t], lo, hi)

\* The first two sort a half each, and the third has not begun ...
HalvesSorted ==
  /\ OnRange("first", 0, Middle) /\ OnRange("second", Middle + 1, Final)
  /\ todo["third"] = Threaded!Runner("third")
  /\ frame["third"] = Threaded!Entered(Threaded!Runner("third"))

\* ... and then the third merges the halves.
HalvesMerged ==
  todo["first"] = <<>> /\ todo["second"] = <<>> /\ OnRange("third", 0, Final)

MergerLast ==
  /\ WellTyped /\ input \in [Index -> Values]
  /\ printed => \A t \in Threaded!Threads : todo[t] = <<>>
  /\ HalvesSorted \/ HalvesMerged

ThreadedInv ==
  /\ program # "multithread_sorting" => ~printed
  /\ program = "multithread_sorting" /\ ~early => MergerLast

LEMMA BoundsAre ==
  /\ 0 \in Index /\ Final \in Index /\ Middle \in Index /\ Middle + 1 \in Index
  /\ Final \in Int /\ Middle \in Int /\ 0 <= Middle /\ Middle < Final
  /\ Index = 0..Final
<1>1. Final \in Int /\ Final >= 1 /\ Index = 0..Final
  BY LengthIs DEF Final, Index, Threaded!Index
<1>2. Middle \in Int /\ 0 <= Middle /\ Middle < Final
  BY <1>1, MidIs DEF Middle
<1> QED  BY <1>1, <1>2

LEMMA ThirdIs ==
  /\ Threaded!Runner("third") = << <<0, Final>> >>
  /\ Threaded!Runner("first") = Threaded!Calls(0, Middle)
  /\ Threaded!Runner("second") = Threaded!Calls(Middle + 1, Final)
<1>1. "first" # "second" /\ "first" # "third" /\ "second" # "third"
  OBVIOUS
<1> QED  BY <1>1 DEF Threaded!Runner, Final, Middle

\* A thread that has nothing left to do has sorted its range.
LEMMA WorkDone ==
  ASSUME NEW inp, NEW a, NEW f, NEW lo, NEW hi, Working(inp, a, <<>>, f, lo, hi)
  PROVE  Climbs(a, <<lo, hi>>) /\ SameNumbers(a, inp, lo..hi)
<1>1. AtCopies(inp, a, <<>>, f, lo, hi)
  BY DEF Working, AtWrites
<1> QED  BY <1>1 DEF AtCopies, Plan

\* When both halves are sorted, the third has the range as it needs it.
LEMMA Handover ==
  ASSUME MergerLast, todo["first"] = <<>>, todo["second"] = <<>>
  PROVE  HalvesMerged
<1>1. CASE HalvesMerged
  BY <1>1
<1>2. CASE HalvesSorted
  <2> DEFINE c == <<0, Final>>
             s == <<c>>
  <2>1. /\ Climbs(array, <<0, Middle>>) /\ SameNumbers(array, input, 0..Middle)
        /\ Climbs(array, <<Middle + 1, Final>>) /\ SameNumbers(array, input, (Middle + 1)..Final)
    <3>1. Working(input, array, <<>>, frame["first"], 0, Middle) /\ Working(input, array, <<>>, frame["second"], Middle + 1, Final)
      BY <1>2 DEF HalvesSorted, OnRange
    <3> QED  BY <3>1, WorkDone
  <2>2. todo["third"] = s /\ frame["third"] = Threaded!Entered(s)
    BY <1>2, ThirdIs DEF HalvesSorted
  <2>3. Ranged(c, 0, Final) /\ Halves(c) = {<<0, Middle>>, <<Middle + 1, Final>>}
    <3>1. c \in Int \X Int /\ c[1] = 0 /\ c[2] = Final
      BY BoundsAre
    <3> QED  BY <3>1, BoundsAre DEF Ranged, Halves, Middle
  <2>4. s \in Seq(Int \X Int) /\ Len(s) = 1 /\ s[1] = c /\ s # <<>>
    BY BoundsAre
  <2>5. Plan(array, s, 0, Final)
    <3>1. ASSUME NEW k \in 1..1, NEW h \in Halves(s[k])  PROVE Awaits(array, s, k, h)
      <4>1. k = 1 /\ 1..(k-1) = {}
        OBVIOUS
      <4>2. Climbs(array, h)
        BY <2>1, <2>3, <2>4, <4>1
      <4> QED  BY <4>1, <4>2 DEF Awaits
    <3>2. \A k \in 1..1 : Ranged(s[k], 0, Final)
      BY <2>3, <2>4
    <3>3. s[Len(s)] = <<0, Final>>
      BY <2>4
    <3> HIDE DEF s, c
    <3> QED  BY <2>4, <3>1, <3>2, <3>3 DEF Plan
  <2>6. SameNumbers(array, input, 0..Final)
    <3> DEFINE S == 0..Middle
               T == (Middle + 1)..Final
    <3>1. S \cup T = 0..Final /\ S \cap T = {}
      BY BoundsAre
    <3>2. IsFiniteSet(S) /\ IsFiniteSet(T)
      BY BoundsAre, FS_Interval
    <3>3. SameNumbers(array, input, S) /\ SameNumbers(array, input, T)
      BY <2>1
    <3> HIDE DEF S, T
    <3>4. ASSUME NEW v  PROVE Amount(array, S \cup T, v) = Amount(input, S \cup T, v)
      <4>1. Amount(array, S \cup T, v) = Amount(array, S, v) + Amount(array, T, v)
        BY <3>1, <3>2, AmountJoin
      <4>2. Amount(input, S \cup T, v) = Amount(input, S, v) + Amount(input, T, v)
        BY <3>1, <3>2, AmountJoin
      <4> QED  BY <3>3, <4>1, <4>2 DEF SameNumbers
    <3> QED  BY <3>1, <3>4 DEF SameNumbers
  <2>7. Working(input, array, s, Threaded!Entered(s), 0, Final)
    <3> HIDE DEF s
    <3> QED  BY <2>5, <2>6, BoundsAre, EnteredWorks
  <2> QED  BY <2>2, <2>7 DEF HalvesMerged, OnRange
<1> QED  BY <1>1, <1>2 DEF MergerLast

LEMMA ThreadedInit == Init => ThreadedInv
<1> SUFFICES ASSUME Init  PROVE ThreadedInv
  OBVIOUS
<1>1. Threaded!Fresh(input)
  BY DEF Init
<1>2. ~printed
  BY <1>1 DEF Threaded!Fresh
<1>3. ASSUME program = "multithread_sorting"  PROVE MergerLast
  <2>1. input \in [Index -> Values]
    BY <1>3 DEF Init, Inputs, Index, Threaded!Index
  <2>2. array = input /\ array \in [Index -> Int]
    BY <1>1, <2>1, Project3Assumption DEF Threaded!Fresh
  <2>3. /\ DOMAIN todo = Threaded!Threads /\ DOMAIN frame = Threaded!Threads
        /\ \A t \in Threaded!Threads : todo[t] = Threaded!Runner(t) /\ frame[t] = Threaded!Entered(Threaded!Runner(t))
    BY <1>1 DEF Threaded!Fresh
  <2>4. "first" \in Threaded!Threads /\ "second" \in Threaded!Threads /\ "third" \in Threaded!Threads
    BY DEF Threaded!Threads
  <2>5. ASSUME NEW lo \in Index, NEW hi \in Index, lo <= hi
        PROVE  Working(input, array, Threaded!Calls(lo, hi), Threaded!Entered(Threaded!Calls(lo, hi)), lo, hi)
    <3>1. lo \in Int /\ hi \in Int
      BY LengthIs DEF Index, Threaded!Index
    <3>2. Plan(array, Threaded!Calls(lo, hi), lo, hi)
      BY <2>5, <3>1, CallsPrepared, PlanStart
    <3>3. SameNumbers(array, input, lo..hi)
      BY <2>2 DEF SameNumbers
    <3> QED  BY <3>1, <3>2, <3>3, EnteredWorks
  <2>6. OnRange("first", 0, Middle) /\ OnRange("second", Middle + 1, Final)
    <3>1. Middle + 1 <= Final
      BY BoundsAre
    <3>2. Working(input, array, Threaded!Calls(0, Middle), Threaded!Entered(Threaded!Calls(0, Middle)), 0, Middle)
      BY <2>5, BoundsAre
    <3>3. Working(input, array, Threaded!Calls(Middle + 1, Final), Threaded!Entered(Threaded!Calls(Middle + 1, Final)), Middle + 1, Final)
      BY <2>5, <3>1, BoundsAre
    <3> QED  BY <2>3, <2>4, <3>2, <3>3, ThirdIs DEF OnRange
  <2>7. HalvesSorted
    BY <2>3, <2>4, <2>6 DEF HalvesSorted
  <2> QED  BY <1>2, <2>1, <2>2, <2>3, <2>7 DEF MergerLast, WellTyped
<1> QED  BY <1>2, <1>3 DEF ThreadedInv

\* What a step of a thread that sorts lo..hi does to it and to the others.
LEMMA ThreadKeeps ==
  ASSUME WellTyped, NEW t \in Threaded!Threads, NEW lo \in Index, NEW hi \in Index,
         OnRange(t, lo, hi), Threaded!Thread(t), UNCHANGED input
  PROVE  WellTyped' /\ OthersStay(t, lo, hi) /\ OnRange(t, lo, hi)' /\ UNCHANGED printed
<1>1. UNCHANGED printed
  BY DEF Threaded!Thread, Threaded!Read, Threaded!CopySmaller, Threaded!CopyRest, Threaded!Copy, Threaded!WriteBack, Threaded!Step
<1>2. CASE \E s \in Threaded!Sides : Threaded!Read(t, s)
  <2>1. WellTyped' /\ OthersStay(t, lo, hi) /\ Working(input, array, todo[t], frame'[t], lo, hi) /\ UNCHANGED <<array, todo>>
    BY <1>2, ThreadReads DEF OnRange
  <2> QED  BY <1>1, <2>1 DEF OnRange
<1>3. CASE Threaded!CopySmaller(t) \/ Threaded!CopyRest(t)
  <2>1. WellTyped' /\ OthersStay(t, lo, hi) /\ Working(input, array, todo[t], frame'[t], lo, hi) /\ UNCHANGED <<array, todo>>
    BY <1>3, ThreadCopies DEF OnRange
  <2> QED  BY <1>1, <2>1 DEF OnRange
<1>4. CASE Threaded!WriteBack(t)
  <2>1. WellTyped' /\ OthersStay(t, lo, hi) /\ Working(input, array', todo'[t], frame'[t], lo, hi)
    BY <1>4, ThreadWrites DEF OnRange
  <2> QED  BY <1>1, <2>1 DEF OnRange
<1> QED  BY <1>2, <1>3, <1>4 DEF Threaded!Thread

\* The other threads go on as they were.
LEMMA OtherKeeps ==
  ASSUME NEW t \in Threaded!Threads, NEW lo \in Index, NEW hi \in Index, OthersStay(t, lo, hi), UNCHANGED input,
         NEW u \in Threaded!Threads, u # t, NEW l \in Index, NEW r \in Index, hi < l \/ r < lo, OnRange(u, l, r)
  PROVE  OnRange(u, l, r)'
<1>1. todo'[u] = todo[u] /\ frame'[u] = frame[u]
  BY DEF OthersStay
<1>2. lo \in Int /\ hi \in Int /\ l \in Int /\ r \in Int
  BY LengthIs DEF Index, Threaded!Index
<1>3. AgreeOn(array, array', l, r)
  <2>1. ASSUME NEW k \in l..r  PROVE array'[k] = array[k]
    <3>1. k \in Index
      BY InRange
    <3>2. k < lo \/ hi < k
      BY <1>2
    <3> QED  BY <3>1, <3>2 DEF OthersStay
  <2> QED  BY <2>1 DEF AgreeOn
<1>4. Working(input, array', todo[u], frame[u], l, r)
  BY <1>2, <1>3, WorkingFrame DEF OnRange
<1> QED  BY <1>1, <1>4 DEF OnRange

\* The third has not begun when the first two still sort, unless it is early.
LEMMA ThirdWaits ==
  ASSUME HalvesSorted, ~(todo["first"] = <<>> /\ todo["second"] = <<>>), Threaded!Thread("third")
  PROVE  early'
<1> DEFINE s == << <<0, Final>> >>
<1>1. todo["third"] = s /\ frame["third"] = Threaded!Entered(s)
  BY ThirdIs DEF HalvesSorted
<1>2. Threaded!Remaining("third", "left") # 0
  <2>1. s # <<>> /\ s[1][1] = 0 /\ s[1][2] = Final
    OBVIOUS
  <2>2. frame["third"].left = 0
    BY <1>1, <2>1 DEF Threaded!Entered
  <2>3. Threaded!Remaining("third", "left") = Middle - 0 + 1
    BY <1>1, <2>1, <2>2 DEF Threaded!Remaining, Threaded!Low, Threaded!High, Middle
  <2> QED  BY <2>3, BoundsAre
<1>3. ~Threaded!CopiedAll("third")
  <2>1. "left" \in Threaded!Sides
    BY DEF Threaded!Sides
  <2> QED  BY <1>2, <2>1 DEF Threaded!CopiedAll
<1>4. \E g : Threaded!Step("third", g)
  BY DEF Threaded!Thread, Threaded!Read, Threaded!CopySmaller, Threaded!CopyRest, Threaded!Copy, Threaded!WriteBack
<1> QED  BY <1>3, <1>4 DEF Threaded!Step

LEMMA EarlyStays ==
  ASSUME NEW t, Threaded!Thread(t), early  PROVE early'
<1>1. \E g : Threaded!Step(t, g)
  BY DEF Threaded!Thread, Threaded!Read, Threaded!CopySmaller, Threaded!CopyRest, Threaded!Copy, Threaded!WriteBack
<1> QED  BY <1>1 DEF Threaded!Step

\* A step of one of the threads.
LEMMA ThreadStep ==
  ASSUME MergerLast, NEW t \in Threaded!Threads, Threaded!Thread(t), ~early', UNCHANGED input
  PROVE  MergerLast'
<1>1. WellTyped /\ input \in [Index -> Values]
  BY DEF MergerLast
<1>2. "first" \in Threaded!Threads /\ "second" \in Threaded!Threads /\ "third" \in Threaded!Threads
  BY DEF Threaded!Threads
<1>3. "first" # "second" /\ "first" # "third" /\ "second" # "third"
  OBVIOUS
<1>4. todo[t] # <<>>
  BY NothingLeft
<1>5. ~printed
  BY <1>4 DEF MergerLast
<1>6. CASE todo["first"] = <<>> /\ todo["second"] = <<>>
  <2>1. HalvesMerged
    BY <1>6, Handover
  <2>2. t = "third"
    BY <1>4, <1>6 DEF Threaded!Threads
  <2>3. WellTyped' /\ OthersStay(t, 0, Final) /\ OnRange(t, 0, Final)' /\ UNCHANGED printed
    BY <1>1, <2>1, <2>2, BoundsAre, ThreadKeeps DEF HalvesMerged
  <2>4. HalvesMerged'
    <3>1. todo'["first"] = <<>> /\ todo'["second"] = <<>>
      BY <1>2, <1>3, <1>6, <2>2, <2>3 DEF OthersStay
    <3>2. OnRange("third", 0, Final)'
      BY <2>2, <2>3
    <3> QED  BY <3>1, <3>2 DEF HalvesMerged, Final
  <2> QED  BY <1>1, <1>5, <2>3, <2>4 DEF MergerLast
<1>7. CASE ~(todo["first"] = <<>> /\ todo["second"] = <<>>)
  <2>1. HalvesSorted
    BY <1>7 DEF MergerLast, HalvesMerged
  <2>2. t # "third"
    BY <1>7, <2>1, ThirdWaits
  <2>3. OnRange("first", 0, Middle) /\ OnRange("second", Middle + 1, Final)
    BY <2>1 DEF HalvesSorted
  <2>4. CASE t = "first"
    <3>1. WellTyped' /\ OthersStay(t, 0, Middle) /\ OnRange(t, 0, Middle)' /\ UNCHANGED printed
      BY <1>1, <2>3, <2>4, BoundsAre, ThreadKeeps
    <3>2. OnRange("second", Middle + 1, Final)'
      <4>1. Middle < Middle + 1
        BY BoundsAre
      <4> QED  BY <1>2, <1>3, <2>3, <2>4, <3>1, <4>1, BoundsAre, OtherKeeps
    <3>3. todo'["third"] = todo["third"] /\ frame'["third"] = frame["third"]
      BY <1>2, <2>2, <3>1 DEF OthersStay
    <3>4. HalvesSorted'
      BY <2>1, <2>4, <3>1, <3>2, <3>3 DEF HalvesSorted, Middle, Final
    <3> QED  BY <1>1, <1>5, <3>1, <3>4 DEF MergerLast
  <2>5. CASE t = "second"
    <3>1. WellTyped' /\ OthersStay(t, Middle + 1, Final) /\ OnRange(t, Middle + 1, Final)' /\ UNCHANGED printed
      BY <1>1, <2>3, <2>5, BoundsAre, ThreadKeeps
    <3>2. OnRange("first", 0, Middle)'
      <4>1. Middle < Middle + 1
        BY BoundsAre
      <4> QED  BY <1>2, <1>3, <2>3, <2>5, <3>1, <4>1, BoundsAre, OtherKeeps
    <3>3. todo'["third"] = todo["third"] /\ frame'["third"] = frame["third"]
      BY <1>2, <2>2, <3>1 DEF OthersStay
    <3>4. HalvesSorted'
      BY <2>1, <2>5, <3>1, <3>2, <3>3 DEF HalvesSorted, Middle, Final
    <3> QED  BY <1>1, <1>5, <3>1, <3>4 DEF MergerLast
  <2> QED  BY <2>2, <2>4, <2>5 DEF Threaded!Threads
<1> QED  BY <1>6, <1>7

LEMMA ThreadedStep == ThreadedInv /\ [Next]_vars => ThreadedInv'
<1> SUFFICES ASSUME ThreadedInv, [Next]_vars  PROVE ThreadedInv'
  OBVIOUS
<1>1. CASE MultithreadSorting
  <2>1. program = "multithread_sorting" /\ program' = program /\ UNCHANGED input
    BY <1>1 DEF MultithreadSorting
  <2>2. ASSUME ~early'  PROVE MergerLast'
    <3>1. CASE Threaded!PrintArray
      <4>1. /\ UNCHANGED <<array, todo, frame, early>> /\ \A t \in Threaded!Threads : todo[t] = <<>>
        BY <3>1 DEF Threaded!PrintArray
      <4>2. MergerLast
        BY <2>1, <2>2, <4>1 DEF ThreadedInv
      <4> QED  BY <2>1, <4>1, <4>2
            DEF MergerLast, WellTyped, HalvesSorted, HalvesMerged, OnRange
    <3>2. CASE \E t \in Threaded!Threads : Threaded!Thread(t)
      <4>1. PICK t \in Threaded!Threads : Threaded!Thread(t)
        BY <3>2
      <4>2. ~early
        BY <2>2, <4>1, EarlyStays
      <4>3. MergerLast
        BY <2>1, <4>2 DEF ThreadedInv
      <4> QED  BY <2>1, <2>2, <4>1, <4>3, ThreadStep
    <3> QED  BY <1>1, <3>1, <3>2 DEF MultithreadSorting, Threaded!Next
  <2> QED  BY <2>1, <2>2 DEF ThreadedInv
<1>2. CASE Quicksort \/ Mergesort \/ SudokuChecker
  <2>1. program # "multithread_sorting" /\ UNCHANGED <<program, threadedVars>>
    BY <1>2 DEF Quicksort, Mergesort, SudokuChecker
  <2>2. ~printed /\ printed' = printed
    BY <2>1 DEF ThreadedInv, threadedVars
  <2> QED  BY <2>1, <2>2 DEF ThreadedInv
<1>3. CASE UNCHANGED vars
  BY <1>3 DEF vars, threadedVars, ThreadedInv, MergerLast, WellTyped, HalvesSorted, HalvesMerged, OnRange
<1> QED  BY <1>1, <1>2, <1>3 DEF Next, Run, AfterEnd

LEMMA ThreadedEnd == ThreadedInv => MergerLastSorts
<1> SUFFICES ASSUME ThreadedInv, printed, ~early  PROVE Sorted(array)
  BY DEF MergerLastSorts
<1>1. MergerLast
  BY DEF ThreadedInv
<1>2. todo["first"] = <<>> /\ todo["second"] = <<>> /\ todo["third"] = <<>>
  BY <1>1 DEF MergerLast, Threaded!Threads
<1>3. HalvesMerged
  BY <1>1, <1>2, Handover
<1>4. Climbs(array, <<0, Final>>) /\ SameNumbers(array, input, 0..Final)
  <2>1. Working(input, array, <<>>, frame["third"], 0, Final)
    BY <1>2, <1>3 DEF HalvesMerged, OnRange
  <2> QED  BY <2>1, WorkDone
<1>5. DOMAIN input = 0..Final
  BY <1>1, BoundsAre DEF MergerLast
<1>6. \A k, l \in DOMAIN input : k < l => array[k] <= array[l]
  BY <1>4, <1>5 DEF Climbs
<1>7. ASSUME NEW v \in Values
      PROVE  Cardinality({k \in DOMAIN input : array[k] = v}) = Cardinality({k \in DOMAIN input : input[k] = v})
  <2>1. Amount(array, 0..Final, v) = Amount(input, 0..Final, v)
    BY <1>4 DEF SameNumbers
  <2> QED  BY <1>5, <2>1 DEF Amount
<1> QED  BY <1>6, <1>7 DEF Sorted

\* The multithreaded sort: if the merger has read nothing before both sorters were
\* done, main prints the input sorted, whatever the interleaving and the compiler's
\* choice of loads, for arrays of every length.
THEOREM MergerLastIsRight == Spec => []MergerLastSorts
<1>1. Init => ThreadedInv
  BY ThreadedInit
<1>2. ThreadedInv /\ [Next]_vars => ThreadedInv'
  BY ThreadedStep
<1>3. ThreadedInv => MergerLastSorts
  BY ThreadedEnd
<1> QED  BY <1>1, <1>2, <1>3, PTL DEF Spec

-----------------------------------------------------------------------------
\* Every program of Project3 prints a right answer, for data of every size.
THEOREM AnswersAreRight == Spec => []AnswersRight
<1>1. MergerLastSorts /\ QuicksortSorts /\ MergesortSorts /\ VerdictRight => AnswersRight
  BY DEF AnswersRight
<1> QED  BY <1>1, MergerLastIsRight, QuicksortIsRight, MergesortIsRight, VerdictIsRight, PTL
=============================================================================
