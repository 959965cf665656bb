-------------------------- MODULE LinkedListProofs ---------------------------
(***************************************************************************)
(* The two systems that keep their order in a linked list: VirtualMemory,  *)
(* whose page stack is one, and Scheduling, whose list schedulers insert   *)
(* into one and whose round-robin schedulers rotate one in place.          *)
(*                                                                         *)
(* VirtualMemory, for every size of the page table, the TLB, the memory    *)
(* and the pages, and every input file: the page stack stays a list, the   *)
(* TLB holds its top, and the manager implements LRUPaging.                *)
(*                                                                         *)
(* The pointers are reasoned about through the sequence of the pages they  *)
(* link (Stacked): push, pop and move to the front are shown to do on it   *)
(* what their names say.  None of the properties is inductive alone: the   *)
(* right frame for a TLB entry needs that its page is not evicted, which   *)
(* needs that the entry replaced is that of the page leaving the top of    *)
(* the stack, which needs that the time stamps are ordered as the stack    *)
(* is (Stamped).                                                           *)
(*                                                                         *)
(* Scheduling, for every input, quantum and range of priorities: the list  *)
(* programs run the tasks in the order of their keys (ListInv), the        *)
(* shortest first makes them wait least (StartsFirst), and the round-robin *)
(* programs are ready queues.  Their pointers, too, are reasoned about     *)
(* through the sequence they link (Chained), here one for each level, and  *)
(* the levels share no task (Shape).                                       *)
(***************************************************************************)
EXTENDS VirtualMemory, Scheduling, ProofLemmas

\* The sequence of pages s is on the stack l: the k-th node below the top is
\* s[k], and prev leads back.
At(s, k) == IF k = 0 THEN pgs_top ELSE IF k = Len(s) + 1 THEN pgs_bottom ELSE s[k]
Once(s)  == \A j, k \in 1..Len(s) : s[j] = s[k] => j = k
Links == [next : [Nodes -> Nodes \cup {NULL}], prev : [Nodes -> Nodes \cup {NULL}]]
Linked(l, s) ==
  \A k \in 0..Len(s) : l.next[At(s, k)] = At(s, k + 1) /\ l.prev[At(s, k + 1)] = At(s, k)
Stacked(l, s) == l \in Links /\ s \in Seq(Pages) /\ Once(s) /\ Linked(l, s)

Pushed(s, p)  == <<p>> \o s
ToFront(s, i) == <<s[i]>> \o (SubSeq(s, 1, i - 1) \o SubSeq(s, i + 1, Len(s)))
Popped(s)     == SubSeq(s, 1, Len(s) - 1)

\* The ends are no pages.
LEMMA Ends ==
  /\ \A p \in Pages : p \in Nat /\ p # pgs_top /\ p # pgs_bottom /\ p # NULL
  /\ pgs_top # pgs_bottom /\ pgs_top # NULL /\ pgs_bottom # NULL
  /\ pgs_top \in Nodes /\ pgs_bottom \in Nodes /\ Pages \subseteq Nodes
  BY SizeAssumption DEF Pages, Nodes, pgs_top, pgs_bottom, NULL

\* The nodes of the stack.
LEMMA AtIs ==
  ASSUME NEW s \in Seq(Pages), Once(s)
  PROVE  /\ Len(s) \in Nat
         /\ \A k \in 1..Len(s) : At(s, k) = s[k] /\ s[k] \in Pages
         /\ At(s, 0) = pgs_top /\ At(s, Len(s) + 1) = pgs_bottom
         /\ \A k \in 0..(Len(s) + 1) : At(s, k) \in Nodes
         /\ \A j, k \in 0..(Len(s) + 1) : At(s, j) = At(s, k) => j = k
<1>1. Len(s) \in Nat /\ \A k \in 1..Len(s) : s[k] \in Pages
  BY LenProperties
<1>2. \A k \in 1..Len(s) : At(s, k) = s[k]
  BY <1>1 DEF At
<1>3. At(s, 0) = pgs_top /\ At(s, Len(s) + 1) = pgs_bottom
  BY <1>1 DEF At
<1>4. \A k \in 0..(Len(s) + 1) : k = 0 \/ k = Len(s) + 1 \/ k \in 1..Len(s)
  BY <1>1
<1>5. \A k \in 0..(Len(s) + 1) : At(s, k) \in Nodes
  BY <1>1, <1>2, <1>3, <1>4, Ends
<1>6. \A j, k \in 0..(Len(s) + 1) : At(s, j) = At(s, k) => j = k
  BY <1>1, <1>2, <1>3, <1>4, Ends DEF Once
<1> QED  BY <1>1, <1>2, <1>3, <1>5, <1>6

\* A page on top of s.
LEMMA PushedIs ==
  ASSUME NEW s \in Seq(Pages), NEW p \in Pages
  PROVE  /\ Pushed(s, p) \in Seq(Pages) /\ Len(Pushed(s, p)) = Len(s) + 1
         /\ Pushed(s, p)[1] = p
         /\ \A k \in 2..(Len(s) + 1) : Pushed(s, p)[k] = s[k-1]
  BY DEF Pushed

\* s without its last page.
LEMMA PoppedIs ==
  ASSUME NEW s \in Seq(Pages), s # <<>>
  PROVE  /\ Popped(s) \in Seq(Pages) /\ Len(Popped(s)) = Len(s) - 1
         /\ \A k \in 1..(Len(s) - 1) : Popped(s)[k] = s[k]
<1>1. Len(s) \in Nat /\ Len(s) # 0
  BY LenProperties, EmptySeq
<1>3. \A k \in 1..(Len(s)-1) : s[k] \in Pages
  BY <1>1, LenProperties
<1>4. /\ Popped(s) \in Seq(Pages)
      /\ Len(Popped(s)) = IF 1 <= Len(s) - 1 THEN Len(s) - 1 - 1 + 1 ELSE 0
      /\ \A k \in 1..(Len(s) - 1 - 1 + 1) : Popped(s)[k] = s[1 + k - 1]
  BY <1>1, <1>3, SubSeqProperties DEF Popped
<1>5. Len(Popped(s)) = Len(s) - 1
  <2>1. (IF 1 <= Len(s) - 1 THEN Len(s) - 1 - 1 + 1 ELSE 0) = Len(s) - 1
    BY <1>1
  <2> QED  BY <1>4, <2>1
<1>6. \A k \in 1..(Len(s)-1) : k \in 1..(Len(s) - 1 - 1 + 1) /\ 1 + k - 1 = k
  BY <1>1
<1> QED  BY <1>4, <1>5, <1>6

\* The i-th page of s in front of the others.
LEMMA ToFrontIs ==
  ASSUME NEW s \in Seq(Pages), NEW i \in 1..Len(s)
  PROVE  /\ ToFront(s, i) \in Seq(Pages) /\ Len(ToFront(s, i)) = Len(s)
         /\ ToFront(s, i)[1] = s[i]
         /\ \A k \in 2..Len(s) : ToFront(s, i)[k] = IF k <= i THEN s[k-1] ELSE s[k]
<1> DEFINE a == SubSeq(s, 1, i - 1)
           b == SubSeq(s, i + 1, Len(s))
<1>1. Len(s) \in Nat /\ s[i] \in Pages
  BY LenProperties
<1>2. a \in Seq(Pages) /\ Len(a) = i - 1 /\ \A k \in 1..(i-1) : a[k] = s[k]
  BY <1>1, SubSeqProperties
<1>3. b \in Seq(Pages) /\ Len(b) = Len(s) - i /\ \A k \in 1..(Len(s)-i) : b[k] = s[i+k]
  BY <1>1, SubSeqProperties
<1> HIDE DEF a, b
<1> DEFINE c == a \o b
<1>4. /\ c \in Seq(Pages) /\ Len(c) = Len(s) - 1
      /\ \A k \in 1..(Len(s)-1) : c[k] = IF k <= i - 1 THEN a[k] ELSE b[k - (i-1)]
  <2>1. /\ c \in Seq(Pages) /\ Len(c) = Len(a) + Len(b)
        /\ \A k \in 1..(Len(a) + Len(b)) : c[k] = IF k <= Len(a) THEN a[k] ELSE b[k - Len(a)]
    BY <1>2, <1>3, ConcatProperties
  <2>2. Len(a) + Len(b) = Len(s) - 1
    BY <1>1, <1>2, <1>3
  <2> HIDE DEF c
  <2> QED  BY <1>2, <2>1, <2>2
<1>5. \A k \in 1..(Len(s)-1) : c[k] = IF k < i THEN s[k] ELSE s[k + 1]
  <2> TAKE k \in 1..(Len(s)-1)
  <2>1. CASE k < i
    BY <1>1, <1>2, <1>4, <2>1
  <2>2. CASE ~(k < i)
    <3>1. k - (i-1) \in 1..(Len(s)-i) /\ i + (k - (i-1)) = k + 1 /\ ~(k <= i - 1)
      BY <1>1, <2>2
    <3> QED  BY <1>3, <1>4, <2>2, <3>1
  <2> QED  BY <2>1, <2>2
<1>6. ToFront(s, i) = <<s[i]>> \o c
  BY DEF ToFront, a, b
<1> HIDE DEF c
<1>7. /\ ToFront(s, i) \in Seq(Pages) /\ Len(ToFront(s, i)) = Len(s)
      /\ ToFront(s, i)[1] = s[i]
      /\ \A k \in 2..Len(s) : ToFront(s, i)[k] = c[k-1]
  BY <1>1, <1>4, <1>6
<1>8. \A k \in 2..Len(s) : k - 1 \in 1..(Len(s)-1) /\ (k - 1) + 1 = k /\ (k - 1 < i <=> k <= i)
  BY <1>1
<1> QED  BY <1>5, <1>7, <1>8
-----------------------------------------------------------------------------
(* The pointer assignments. *)

\* PushFront pushes.
LEMMA PushFrontStacks ==
  ASSUME NEW l, NEW s, NEW p \in Pages, Stacked(l, s), \A k \in 1..Len(s) : s[k] # p
  PROVE  Stacked(PushFront(l, p), Pushed(s, p))
<1> DEFINE t == Pushed(s, p)
           m == PushFront(l, p)
<1>1. s \in Seq(Pages) /\ Once(s) /\ l \in Links
  BY DEF Stacked
<1>2. /\ t \in Seq(Pages) /\ Len(t) = Len(s) + 1 /\ t[1] = p
      /\ \A k \in 2..(Len(s) + 1) : t[k] = s[k-1]
  BY <1>1, PushedIs
<1>3. Len(s) \in Nat
  BY <1>1, AtIs
<1>4. Once(t)
  <2> SUFFICES ASSUME NEW j \in 1..(Len(s)+1), NEW k \in 1..(Len(s)+1), t[j] = t[k]  PROVE j = k
    BY <1>2 DEF Once
  <2>1. \A n \in 1..(Len(s)+1) : n = 1 \/ (n \in 2..(Len(s)+1) /\ n - 1 \in 1..Len(s))
    BY <1>3
  <2> HIDE DEF t
  <2>2. (j = 1 /\ k # 1) \/ (k = 1 /\ j # 1) => t[j] # t[k]
    BY <1>2, <2>1
  <2>3. CASE j # 1 /\ k # 1
    <3>1. s[j-1] = s[k-1] /\ j - 1 \in 1..Len(s) /\ k - 1 \in 1..Len(s)
      BY <1>2, <2>1, <2>3
    <3>2. j - 1 = k - 1
      BY <1>1, <3>1 DEF Once
    <3> QED  BY <3>2
  <2> QED  BY <2>2, <2>3
<1> DEFINE first == l.next[pgs_top]
<1>5. first = At(s, 1) /\ l.prev[first] = pgs_top /\ first \in Nodes /\ first # p /\ first # pgs_top
  <2>1. 0 \in 0..Len(s) /\ At(s, 0) = pgs_top /\ 0 + 1 = 1 /\ 1 \in 0..(Len(s)+1)
    BY <1>1, <1>3, AtIs
  <2>2. first = At(s, 1) /\ l.prev[first] = pgs_top
    BY <2>1 DEF Stacked, Linked
  <2>3. At(s, 1) \in Nodes /\ At(s, 1) # pgs_top
    BY <1>1, <2>1, AtIs
  <2>4. At(s, 1) = pgs_bottom \/ (1 \in 1..Len(s) /\ At(s, 1) = s[1])
    BY <1>1, <1>3, AtIs DEF At
  <2> QED  BY <2>2, <2>3, <2>4, Ends
<1>6. /\ m \in Links
      /\ \A n \in Nodes : m.next[n] = IF n = pgs_top THEN p ELSE IF n = p THEN first ELSE l.next[n]
      /\ \A n \in Nodes : m.prev[n] = IF n = p THEN pgs_top ELSE IF n = first THEN p ELSE l.prev[n]
  BY <1>1, <1>5, Ends DEF Links, PushFront
<1>7. /\ At(t, 0) = pgs_top /\ At(t, 1) = p
      /\ \A k \in 2..(Len(s)+2) : At(t, k) = At(s, k-1)
  BY <1>1, <1>2, <1>3, <1>4, AtIs DEF At
<1> HIDE DEF m, t, first
<1>8. ASSUME NEW k \in 0..(Len(s)+1)
      PROVE m.next[At(t, k)] = At(t, k+1) /\ m.prev[At(t, k+1)] = At(t, k)
  <2>1. CASE k = 0
    BY <1>3, <1>6, <1>7, <2>1, Ends
  <2>2. CASE k = 1
    <3>1. At(t, 1) = p /\ At(t, 2) = first
      BY <1>3, <1>5, <1>7
    <3> QED  BY <1>5, <1>6, <2>2, <3>1, Ends
  <2>3. CASE k \notin {0, 1}
    <3>1. k \in 2..(Len(s)+2) /\ k + 1 \in 2..(Len(s)+2) /\ k - 1 \in 1..Len(s) /\ (k + 1) - 1 = k
          /\ k \in 0..(Len(s)+1) /\ k - 1 \in 0..(Len(s)+1) /\ k - 1 \in 0..Len(s)
          /\ (k - 1) + 1 = k /\ k # 1 /\ k - 1 # 0 /\ 1 \in 0..(Len(s)+1) /\ 0 \in 0..(Len(s)+1)
      BY <1>3, <2>3
    <3>2. At(t, k) = At(s, k-1) /\ At(t, k+1) = At(s, k) /\ At(s, k-1) = s[k-1]
      BY <1>1, <1>7, <3>1, AtIs
    <3>3. At(s, k) \in Nodes /\ At(s, k-1) \in Nodes /\ At(s, k) # first /\ At(s, k-1) # pgs_top
      BY <1>1, <1>5, <3>1, AtIs
    <3>4. At(s, k-1) # p
      BY <3>1, <3>2
    <3>5. At(s, k) # p
      <4>1. k = Len(s) + 1 \/ k \in 1..Len(s)
        BY <1>3, <3>1
      <4> QED  BY <1>1, <4>1, AtIs, Ends
    <3>6. l.next[At(s, k-1)] = At(s, k) /\ l.prev[At(s, k)] = At(s, k-1)
      BY <3>1 DEF Stacked, Linked
    <3> QED  BY <1>6, <3>2, <3>3, <3>4, <3>5, <3>6
  <2> QED  BY <2>1, <2>2, <2>3
<1>9. Linked(m, t)
  BY <1>2, <1>8 DEF Linked
<1> QED  BY <1>2, <1>4, <1>6, <1>9 DEF Stacked, m, t

\* PopBack pops.
LEMMA PopBackStacks ==
  ASSUME NEW l, NEW s, Stacked(l, s), s # <<>>
  PROVE  /\ l.prev[pgs_bottom] = s[Len(s)]
         /\ Stacked(PopBack(l, s[Len(s)]), Popped(s))
<1> DEFINE t == Popped(s)
           n == Len(s)
           p == s[n]
           m == PopBack(l, p)
           last == l.prev[p]
<1>1. s \in Seq(Pages) /\ Once(s) /\ l \in Links /\ n \in Nat /\ n # 0
  BY EmptySeq DEF Stacked
<1>2. t \in Seq(Pages) /\ Len(t) = n - 1 /\ \A k \in 1..(n-1) : t[k] = s[k]
  BY <1>1, PoppedIs
<1>3. Once(t)
  BY <1>1, <1>2 DEF Once
<1>4. l.prev[pgs_bottom] = p /\ last = At(s, n - 1) /\ At(s, n) = p /\ At(s, n + 1) = pgs_bottom
  <2>1. n \in 0..n /\ n - 1 \in 0..n /\ (n - 1) + 1 = n /\ n \in 1..n
    BY <1>1
  <2> QED  BY <1>1, <2>1, AtIs DEF Stacked, Linked
<1>5. last \in Nodes /\ last # p /\ last # pgs_bottom
  <2>1. n \in 0..(n+1) /\ n - 1 \in 0..(n+1) /\ n + 1 \in 0..(n+1) /\ n - 1 # n /\ n - 1 # n + 1
    BY <1>1
  <2> QED  BY <1>1, <1>4, <2>1, AtIs
<1>6. /\ m \in Links
      /\ \A x \in Nodes : m.next[x] = IF x = last THEN pgs_bottom ELSE l.next[x]
      /\ \A x \in Nodes : m.prev[x] = IF x = pgs_bottom THEN last ELSE l.prev[x]
  <2>1. p \in Nodes /\ p # pgs_bottom
    BY <1>1, Ends, LenProperties
  <2> QED  BY <1>1, <1>5, <2>1, Ends DEF Links, PopBack
<1>7. At(t, n) = pgs_bottom /\ \A k \in 0..(n-1) : At(t, k) = At(s, k)
  BY <1>1, <1>2 DEF At
<1>8. \A k \in 0..(n-1) : /\ k \in 0..n /\ k \in 0..(n+1) /\ n - 1 \in 0..(n+1) /\ n + 1 \in 0..(n+1)
                          /\ k + 1 \in 0..(n+1) /\ k # n + 1 /\ k + 1 # n + 1 /\ n - 1 \in 0..(n-1)
                          /\ (k # n - 1 => k + 1 \in 0..(n-1)) /\ (n - 1) + 1 = n
  BY <1>1
<1> HIDE DEF m, t, last, p, n
<1>9. ASSUME NEW k \in 0..(n-1)
      PROVE m.next[At(t, k)] = At(t, k+1) /\ m.prev[At(t, k+1)] = At(t, k)
  <2>1. CASE k = n - 1
    BY <1>4, <1>5, <1>6, <1>7, <1>8, <2>1, Ends
  <2>2. CASE k # n - 1
    <3>1. At(t, k) = At(s, k) /\ At(t, k+1) = At(s, k+1)
      BY <1>7, <1>8, <2>2
    <3>2. At(s, k) \in Nodes /\ At(s, k+1) \in Nodes /\ At(s, k) # last /\ At(s, k+1) # pgs_bottom
      BY <1>1, <1>4, <1>8, <2>2, AtIs DEF n
    <3>3. l.next[At(s, k)] = At(s, k+1) /\ l.prev[At(s, k+1)] = At(s, k)
      BY <1>8 DEF Stacked, Linked, n
    <3> QED  BY <1>6, <3>1, <3>2, <3>3
  <2> QED  BY <2>1, <2>2
<1>10. Linked(m, t)
  BY <1>2, <1>9 DEF Linked
<1> QED  BY <1>2, <1>3, <1>4, <1>6, <1>10 DEF Stacked, m, t, p, n
\* MoveToFront moves the i-th page to the front; also when it is there already.
LEMMA MoveToFrontStacks ==
  ASSUME NEW l, NEW s, Stacked(l, s), NEW i \in 1..Len(s)
  PROVE  Stacked(MoveToFront(l, s[i]), ToFront(s, i))
<1> DEFINE t == ToFront(s, i)
           n == Len(s)
           p == s[i]
           m == MoveToFront(l, p)
           after == l.next[p]
           first == l.next[pgs_top]
           above == At(s, i - 1)
<1>1. s \in Seq(Pages) /\ Once(s) /\ l \in Links /\ n \in Nat /\ i \in Nat /\ i >= 1 /\ i <= n /\ p \in Pages
  BY AtIs DEF Stacked
<1>2. /\ t \in Seq(Pages) /\ Len(t) = n /\ t[1] = p
      /\ \A k \in 2..n : t[k] = IF k <= i THEN s[k-1] ELSE s[k]
  BY <1>1, ToFrontIs
<1>3. Once(t)
  <2> HIDE DEF t, p
  <2> SUFFICES ASSUME NEW j \in 1..n, NEW k \in 1..n, t[j] = t[k]  PROVE j = k
    BY <1>2 DEF Once
  <2> DEFINE old(x) == IF x = 1 THEN i ELSE IF x <= i THEN x - 1 ELSE x
  <2>1. \A x \in 1..n : old(x) \in 1..n /\ t[x] = s[old(x)]
    BY <1>1, <1>2 DEF p
  <2>2. \A x, y \in 1..n : old(x) = old(y) => x = y
    BY <1>1
  <2> HIDE DEF old
  <2>3. old(j) = old(k)
    BY <1>1, <2>1 DEF Once, n
  <2> QED  BY <2>2, <2>3
<1>4. /\ after = At(s, i + 1) /\ l.prev[after] = p /\ first = At(s, 1) /\ l.prev[first] = pgs_top
      /\ l.prev[p] = above /\ l.next[above] = p /\ At(s, i) = p
  <2>1. i \in 0..n /\ i - 1 \in 0..n /\ (i - 1) + 1 = i /\ i \in 1..n /\ 0 \in 0..n /\ 0 + 1 = 1
    BY <1>1
  <2>2. At(s, i) = p /\ At(s, 0) = pgs_top
    BY <1>1, AtIs
  <2> QED  BY <2>1, <2>2 DEF Stacked, Linked
<1>5. /\ after \in Nodes /\ first \in Nodes /\ above \in Nodes /\ p \in Nodes
      /\ after # p /\ after # pgs_top /\ after # above /\ above # p /\ first # pgs_top
      /\ p # pgs_top /\ after # first /\ (above = pgs_top <=> i = 1) /\ (first = p <=> i = 1)
  <2>1. i \in 0..(n+1) /\ i - 1 \in 0..(n+1) /\ i + 1 \in 0..(n+1) /\ 0 \in 0..(n+1) /\ 1 \in 0..(n+1)
        /\ i + 1 # i /\ i + 1 # 0 /\ i + 1 # i - 1 /\ i - 1 # i /\ 1 # 0 /\ i # 0 /\ i + 1 # 1
        /\ (i - 1 = 0 <=> i = 1)
    BY <1>1
  <2>2. At(s, 0) = pgs_top
    BY <1>1, AtIs
  <2> HIDE DEF p, after, first
  <2> QED  BY <1>1, <1>4, <2>1, <2>2, AtIs DEF n
<1>6. /\ m \in Links
      /\ \A x \in Nodes : m.next[x] =
           IF i = 1 THEN l.next[x]
           ELSE IF x = above THEN after ELSE IF x = pgs_top THEN p ELSE IF x = p THEN first ELSE l.next[x]
      /\ \A x \in Nodes : m.prev[x] =
           IF i = 1 THEN l.prev[x]
           ELSE IF x = p THEN pgs_top ELSE IF x = after THEN above ELSE IF x = first THEN p ELSE l.prev[x]
  <2> DEFINE next1 == [l.next EXCEPT ![p] = first]
             prev1 == [l.prev EXCEPT ![next1[pgs_top]] = p]
             next2 == [next1 EXCEPT ![pgs_top] = p]
             prev2 == [prev1 EXCEPT ![after] = prev1[p]]
             next3 == [next2 EXCEPT ![prev2[p]] = after]
             prev3 == [prev2 EXCEPT ![p] = pgs_top]
  <2>1. m = [next |-> next3, prev |-> prev3]
    BY DEF MoveToFront
  <2>2. /\ l.next \in [Nodes -> Nodes \cup {NULL}] /\ l.prev \in [Nodes -> Nodes \cup {NULL}]
        /\ pgs_top \in Nodes
    BY <1>1, Ends DEF Links
  <2> HIDE DEF p, after, first, above, m
  <2>3. /\ next1 \in [Nodes -> Nodes \cup {NULL}] /\ next1[pgs_top] = first
        /\ \A x \in Nodes : next1[x] = IF x = p THEN first ELSE l.next[x]
    BY <1>5, <2>2 DEF first
  <2> HIDE DEF next1
  <2>4. /\ prev1 \in [Nodes -> Nodes \cup {NULL}]
        /\ \A x \in Nodes : prev1[x] = IF x = first THEN p ELSE l.prev[x]
    BY <1>5, <2>2, <2>3
  <2> HIDE DEF prev1
  <2>5. /\ next2 \in [Nodes -> Nodes \cup {NULL}]
        /\ \A x \in Nodes : next2[x] = IF x = pgs_top THEN p ELSE next1[x]
    BY <1>5, <2>2, <2>3
  <2> HIDE DEF next2
  <2>6. prev1[p] = IF i = 1 THEN p ELSE above
    BY <1>4, <1>5, <2>4
  <2>7. /\ prev2 \in [Nodes -> Nodes \cup {NULL}] /\ prev2[p] = prev1[p]
        /\ \A x \in Nodes : prev2[x] = IF x = after THEN prev1[p] ELSE prev1[x]
    BY <1>5, <2>4, <2>6
  <2> HIDE DEF prev2
  <2>8. /\ next3 \in [Nodes -> Nodes \cup {NULL}]
        /\ \A x \in Nodes : next3[x] = IF x = prev1[p] THEN after ELSE next2[x]
    BY <1>5, <2>5, <2>6, <2>7
  <2>9. /\ prev3 \in [Nodes -> Nodes \cup {NULL}]
        /\ \A x \in Nodes : prev3[x] = IF x = p THEN pgs_top ELSE prev2[x]
    BY <1>5, <2>2, <2>7
  <2> HIDE DEF next3, prev3
  <2>10. \A x \in Nodes : next3[x] =
           IF i = 1 THEN l.next[x]
           ELSE IF x = above THEN after ELSE IF x = pgs_top THEN p ELSE IF x = p THEN first ELSE l.next[x]
    BY <1>4, <1>5, <2>3, <2>5, <2>6, <2>8 DEF after, first
  <2>11. \A x \in Nodes : prev3[x] =
           IF i = 1 THEN l.prev[x]
           ELSE IF x = p THEN pgs_top ELSE IF x = after THEN above ELSE IF x = first THEN p ELSE l.prev[x]
    BY <1>4, <1>5, <2>4, <2>6, <2>7, <2>9
  <2> QED  BY <2>1, <2>8, <2>9, <2>10, <2>11 DEF Links
<1>7. /\ At(t, 0) = pgs_top /\ At(t, 1) = p
      /\ \A k \in 2..(n+1) : At(t, k) = IF k <= i THEN At(s, k-1) ELSE At(s, k)
  <2> HIDE DEF t, p
  <2>1. At(t, 0) = pgs_top /\ At(t, 1) = p
    BY <1>1, <1>2, <1>3, AtIs
  <2>2. ASSUME NEW k \in 2..(n+1)  PROVE At(t, k) = IF k <= i THEN At(s, k-1) ELSE At(s, k)
    <3>1. CASE k = n + 1
      BY <1>1, <1>2, <3>1 DEF At, n
    <3>2. CASE k # n + 1
      <4>1. k \in 2..n /\ k \in 1..n /\ k - 1 \in 1..n
        BY <1>1, <3>2
      <4>2. At(t, k) = t[k] /\ At(s, k) = s[k] /\ At(s, k-1) = s[k-1]
        BY <1>1, <1>2, <1>3, <4>1, AtIs
      <4> QED  BY <1>2, <4>1, <4>2
    <3> QED  BY <3>1, <3>2
  <2> QED  BY <2>1, <2>2
<1>8. \A k \in 0..n : l.next[At(s, k)] = At(s, k+1) /\ l.prev[At(s, k+1)] = At(s, k)
  BY DEF Stacked, Linked
<1>9. /\ \A k \in 0..(n+1) : At(s, k) \in Nodes
      /\ \A j, k \in 0..(n+1) : At(s, j) = At(s, k) => j = k
      /\ At(s, 0) = pgs_top
  BY <1>1, AtIs
<1> HIDE DEF m, t, p, n, after, first, above
<1>10. ASSUME NEW k \in 0..n
       PROVE  m.next[At(t, k)] = At(t, k+1) /\ m.prev[At(t, k+1)] = At(t, k)
  <2>1. CASE i = 1
    <3>1. \A j \in 0..(n+1) : At(t, j) = At(s, j)
      <4>1. \A j \in 0..(n+1) : j = 0 \/ j = 1 \/ (j \in 2..(n+1) /\ ~(j <= 1))
        BY <1>1
      <4> QED  BY <1>4, <1>7, <1>9, <2>1, <4>1
    <3>2. k \in 0..(n+1) /\ k + 1 \in 0..(n+1)
      BY <1>1
    <3> QED  BY <1>6, <1>8, <1>9, <2>1, <3>1, <3>2
  <2>2. CASE i # 1 /\ k = 0
    BY <1>5, <1>6, <1>7, <2>2, Ends
  <2>3. CASE i # 1 /\ k = 1
    <3>1. 2 \in 2..(n+1) /\ 2 <= i /\ 2 - 1 = 1 /\ 1 + 1 = 2
      BY <1>1, <2>3
    <3>2. At(t, 1) = p /\ At(t, 2) = first
      BY <1>4, <1>7, <3>1
    <3> QED  BY <1>5, <1>6, <2>3, <3>1, <3>2
  <2>4. CASE i # 1 /\ k >= 2 /\ k < i
    <3>1. k \in 2..(n+1) /\ k + 1 \in 2..(n+1) /\ (k + 1) - 1 = k /\ k <= i /\ k + 1 <= i
          /\ k - 1 \in 0..n /\ (k - 1) + 1 = k /\ k \in 0..(n+1) /\ k - 1 \in 0..(n+1)
          /\ k - 1 # i - 1 /\ k - 1 # 0 /\ k - 1 # i /\ k # i /\ k # i + 1 /\ k # 1
          /\ i \in 0..(n+1) /\ i - 1 \in 0..(n+1) /\ i + 1 \in 0..(n+1) /\ 0 \in 0..(n+1) /\ 1 \in 0..(n+1)
      BY <1>1, <2>4
    <3>2. At(t, k) = At(s, k-1) /\ At(t, k+1) = At(s, k)
      BY <1>7, <3>1
    <3>3. At(s, k-1) # above /\ At(s, k-1) # pgs_top /\ At(s, k-1) # p
      BY <1>4, <1>9, <3>1 DEF above
    <3>4. At(s, k) # p /\ At(s, k) # after /\ At(s, k) # first
      BY <1>4, <1>9, <3>1
    <3> QED  BY <1>6, <1>8, <1>9, <2>4, <3>1, <3>2, <3>3, <3>4
  <2>5. CASE i # 1 /\ k = i
    <3>1. i \in 2..(n+1) /\ i + 1 \in 2..(n+1) /\ i <= i /\ ~(i + 1 <= i)
      BY <1>1, <2>5
    <3>2. At(t, k) = above /\ At(t, k+1) = after
      BY <1>4, <1>7, <2>5, <3>1 DEF above
    <3> QED  BY <1>5, <1>6, <2>5, <3>2
  <2>6. CASE i # 1 /\ k > i
    <3>1. k \in 2..(n+1) /\ k + 1 \in 2..(n+1) /\ ~(k <= i) /\ ~(k + 1 <= i)
          /\ k \in 0..(n+1) /\ k + 1 \in 0..(n+1)
          /\ k # i - 1 /\ k # 0 /\ k # i /\ k + 1 # i /\ k + 1 # i + 1 /\ k + 1 # 1
          /\ i \in 0..(n+1) /\ i - 1 \in 0..(n+1) /\ i + 1 \in 0..(n+1) /\ 0 \in 0..(n+1) /\ 1 \in 0..(n+1)
      BY <1>1, <2>6
    <3>2. At(t, k) = At(s, k) /\ At(t, k+1) = At(s, k+1)
      BY <1>7, <3>1
    <3>3. At(s, k) # above /\ At(s, k) # pgs_top /\ At(s, k) # p
      BY <1>4, <1>9, <3>1 DEF above
    <3>4. At(s, k+1) # p /\ At(s, k+1) # after /\ At(s, k+1) # first
      BY <1>4, <1>9, <3>1
    <3> QED  BY <1>6, <1>8, <1>9, <2>6, <3>1, <3>2, <3>3, <3>4
  <2>7. k = 0 \/ k = 1 \/ (k >= 2 /\ k < i) \/ k = i \/ k > i
    BY <1>1
  <2> QED  BY <2>1, <2>2, <2>3, <2>4, <2>5, <2>6, <2>7
<1>11. Linked(m, t)
  BY <1>2, <1>10 DEF Linked
<1> QED  BY <1>2, <1>3, <1>6, <1>11 DEF Stacked, m, t, p

-----------------------------------------------------------------------------
(* Addresses. *)

\* Multiples.
LEMMA Times == ASSUME NEW n \in Nat \ {0}, NEW d \in Int, d >= 1 PROVE n * d >= n
  OBVIOUS

\* Quotient and remainder.
LEMMA DivDef == ASSUME NEW n \in Nat \ {0}, NEW a \in Nat  PROVE a = n * (a \div n) + (a % n)
  OBVIOUS

\* The byte at offset o of frame f lies there: read_from_memory.
LEMMA DivIs ==
  ASSUME NEW n \in Nat \ {0}, NEW f \in Nat, NEW o \in 0..(n-1)
  PROVE  (f * n + o) \div n = f /\ (f * n + o) % n = o
<1> DEFINE x == f * n + o
  q == x \div n
  r == x % n
<1>1. x \in Nat /\ q \in Nat /\ r \in 0..(n-1) 
  OBVIOUS
<1>2. x = n * q + r
  BY DivDef
<1> HIDE DEF q, r
<1>3. n * (q - f) = o - r
  BY <1>1, <1>2
<1>4. ~(q - f >= 1)
  BY <1>1, <1>3, Times
<1>5. ~(f - q >= 1)
  <2>1. n * (f - q) = r - o
    BY <1>1, <1>2
  <2> QED BY <1>1, <2>1, Times
<1>6. q = f
  BY <1>1, <1>4, <1>5
<1>7. r = o
  BY <1>1, <1>3, <1>6
<1> QED BY <1>6, <1>7 DEF q, r

\* A page number and an offset.
LEMMA AddressIs ==
  ASSUME NEW a \in Addresses
  PROVE  PageOf(a) \in Pages /\ OffsetOf(a) \in 0..(PAGE_SIZE - 1)
<1>1. /\ a \in Nat /\ PAGE_SIZE \in Nat \ {0} /\ PAGE_TABLE_ENTRIES_NUM \in Nat \ {0}
  BY SizeAssumption
<1>2. a \div PAGE_SIZE \in Nat /\ a % PAGE_SIZE \in 0..(PAGE_SIZE - 1)
  BY <1>1
<1>3. (a \div PAGE_SIZE) % PAGE_TABLE_ENTRIES_NUM \in 0..(PAGE_TABLE_ENTRIES_NUM - 1)
  BY <1>1, <1>2
<1> QED  BY <1>2, <1>3 DEF PageOf, OffsetOf, Pages

-----------------------------------------------------------------------------
(* The stack and the sequence of the pages on it. *)

\* The numbers up to n are n.
LEMMA UptoCardinality == ASSUME NEW n \in Nat  PROVE Cardinality(1..n) = n
  BY FS_Interval

\* Following next from the top gives the pages on the stack, in order.
LEMMA FollowedIs ==
  ASSUME NEW l, NEW s, Stacked(l, s), Len(s) <= NUM_FRAMES
  PROVE  Followed(l) = s
<1> DEFINE N == NUM_FRAMES + 1
           g == CHOOSE g : g = [k \in 0..N |->
                  IF k = 0 THEN pgs_top
                  ELSE IF g[k-1] \in Pages \cup {pgs_top} THEN l.next[g[k-1]] ELSE pgs_bottom]
           h == [k \in 0..N |-> IF k <= Len(s) THEN At(s, k) ELSE pgs_bottom]
<1>1. /\ s \in Seq(Pages) /\ Once(s) /\ Len(s) \in Nat /\ NUM_FRAMES \in Nat /\ N \in Nat /\ N >= Len(s) + 1
  BY SizeAssumption, AtIs DEF Stacked
<1>2. /\ h[0] = pgs_top
      /\ \A k \in 1..N : h[k] = IF h[k-1] \in Pages \cup {pgs_top} THEN l.next[h[k-1]] ELSE pgs_bottom
      /\ \A k \in 1..Len(s) : h[k] = s[k]
      /\ \A k \in 1..N : k > Len(s) => h[k] = pgs_bottom
  <2>1. /\ \A k \in 0..Len(s) : h[k] = At(s, k)
        /\ \A k \in 1..N : k > Len(s) => h[k] = pgs_bottom
    BY <1>1
  <2> HIDE DEF h
  <2>2. \A k \in 0..Len(s) : At(s, k) \in Pages \cup {pgs_top} /\ l.next[At(s, k)] = At(s, k + 1)
    <3> TAKE k \in 0..Len(s)
    <3>1. k = 0 \/ k \in 1..Len(s)
      BY <1>1
    <3> QED  BY <1>1, <3>1, AtIs DEF Stacked, Linked
  <2>3. ASSUME NEW k \in 1..N
        PROVE h[k] = IF h[k-1] \in Pages \cup {pgs_top} THEN l.next[h[k-1]] ELSE pgs_bottom
    <3>1. CASE k <= Len(s) + 1
      <4>1. k - 1 \in 0..Len(s) /\ (k - 1) + 1 = k
        BY <1>1, <3>1
      <4>2. h[k] = At(s, k)
        <5>1. k \in 0..Len(s) \/ (k = Len(s) + 1 /\ k > Len(s))
          BY <1>1, <3>1
        <5> QED  BY <1>1, <2>1, <5>1, AtIs
      <4> QED  BY <2>1, <2>2, <4>1, <4>2
    <3>2. CASE ~(k <= Len(s) + 1)
      <4>1. k - 1 \in 1..N /\ k - 1 > Len(s) /\ k > Len(s)
        BY <1>1, <3>2
      <4>2. pgs_bottom \notin Pages \cup {pgs_top}
        BY Ends
      <4> QED  BY <2>1, <4>1, <4>2
    <3> QED  BY <3>1, <3>2
  <2>4. h[0] = pgs_top /\ \A k \in 1..Len(s) : h[k] = s[k]
    BY <1>1, <2>1, AtIs
  <2> QED  BY <2>1, <2>3, <2>4
<1>3. h = [k \in 0..N |-> IF k = 0 THEN pgs_top
             ELSE IF h[k-1] \in Pages \cup {pgs_top} THEN l.next[h[k-1]] ELSE pgs_bottom]
  <2>1. \A k \in 0..N : k = 0 \/ (k # 0 /\ k \in 1..N)
    BY <1>1
  <2>2. \A k \in 0..N : h[k] = (IF k = 0 THEN pgs_top
             ELSE IF h[k-1] \in Pages \cup {pgs_top} THEN l.next[h[k-1]] ELSE pgs_bottom)
    BY ZenonT(30), <1>2, <2>1
  <2>3. h = [k \in 0..N |-> h[k]]
    OBVIOUS
  <2> HIDE DEF h
  <2> QED  BY <2>2, <2>3
<1>4. Followed(l) = [k \in 1..Cardinality({k \in 1..N : g[k] # pgs_bottom}) |-> g[k]]
  BY DEF Followed
<1>5. g = [k \in 0..N |-> IF k = 0 THEN pgs_top
             ELSE IF g[k-1] \in Pages \cup {pgs_top} THEN l.next[g[k-1]] ELSE pgs_bottom]
  <2> HIDE DEF h, N
  <2> QED  BY <1>3
<1> HIDE DEF g, h
<1>6. SameSteps(N, g, h)
  <2>1. 0 \in 0..N /\ \A k \in 1..N : k \in 0..N /\ k # 0
    BY <1>1
  <2>2. g[0] = h[0]
    BY <1>2, <1>5, <2>1
  <2>3. ASSUME NEW k \in 1..N, g[k-1] = h[k-1]  PROVE g[k] = h[k]
    <3>1. g[k] = IF g[k-1] \in Pages \cup {pgs_top} THEN l.next[g[k-1]] ELSE pgs_bottom
      BY <1>5, <2>1
    <3>2. h[k] = IF h[k-1] \in Pages \cup {pgs_top} THEN l.next[h[k-1]] ELSE pgs_bottom
      BY <1>2
    <3> QED  BY <2>3, <3>1, <3>2
  <2> QED  BY <2>2, <2>3 DEF SameSteps
<1>7. \A k \in 0..N : g[k] = h[k]
  BY <1>1, <1>6, RecursionUnique
<1>8. {k \in 1..N : g[k] # pgs_bottom} = 1..Len(s)
  <2>1. \A k \in 1..N : g[k] = h[k]
    BY <1>1, <1>7
  <2>2. \A k \in 1..Len(s) : k \in 1..N /\ s[k] # pgs_bottom
    BY <1>1, Ends, AtIs
  <2>3. \A k \in 1..N : k \in 1..Len(s) \/ k > Len(s)
    BY <1>1
  <2> QED  BY <1>2, <2>1, <2>2, <2>3
<1>9. Cardinality(1..Len(s)) = Len(s)
  BY <1>1, UptoCardinality
<1>10. \A k \in 1..Len(s) : g[k] = s[k]
  BY <1>1, <1>2, <1>7
<1>11. s = [k \in 1..Len(s) |-> s[k]]
  BY <1>1, LenProperties
<1> QED  BY <1>4, <1>8, <1>9, <1>10, <1>11

-----------------------------------------------------------------------------
(* The invariant. *)

\* The stack is a list of the valid pages, which fit into the frames.
StackInv ==
  /\ Stacked(links, Recency) /\ Len(Recency) <= NUM_FRAMES
  /\ \A p \in Pages : valid[p] <=> \E k \in 1..Len(Recency) : Recency[k] = p

\* Each frame is free, once, or holds a valid page.
FrameInv ==
  /\ free_frame_list \in Seq(Frames)
  /\ Len(free_frame_list) + Len(Recency) = NUM_FRAMES
  /\ \A j, k \in 1..Len(free_frame_list) : free_frame_list[j] = free_frame_list[k] => j = k
  /\ \A p \in Pages : valid[p] =>
       /\ memory[frame_number[p]] = p
       /\ \A k \in 1..Len(free_frame_list) : free_frame_list[k] # frame_number[p]

\* The entries T in use are those of the first n pages of s, each once, and the
\* time stamps c decrease along s.
Holds(T, n, s) ==
  /\ \A k \in 0..(n-1) : \E j \in 1..n : T[k].page = s[j]
  /\ \A j \in 1..n : \E k \in 0..(n-1) : T[k].page = s[j]
  /\ \A j, k \in 0..(n-1) : T[j].page = T[k].page => j = k
Stamped(T, c, n, s) ==
  \A j, k \in 0..(n-1), x, y \in 1..n :
    T[j].page = s[x] /\ T[k].page = s[y] /\ x < y => c[k] < c[j]

TLBInv ==
  /\ free_TLB_index = IF Len(Recency) < TLB_ENTRIES_NUM THEN Len(Recency) ELSE TLB_ENTRIES_NUM
  /\ Holds(TLB, free_TLB_index, Recency)
  /\ Stamped(TLB, TLB_cnts, free_TLB_index, Recency)
  /\ \A k \in 0..(free_TLB_index - 1) :
       frame_number[TLB[k].page] = TLB[k].frame /\ TLB_cnts[k] < num_references

CountInv == num_page_faults <= num_references /\ num_TLB_hits <= num_references

IInv == TypeOK /\ StackInv /\ FrameInv /\ TLBInv /\ CountInv

-----------------------------------------------------------------------------
(* The TLB and the top of the stack. *)

\* Slot k of T, the one of the x-th page of s or the first that is not in use, is
\* given to the page that has come to the front of t; U is the new TLB.
Replaces(T, U, n, m, s, t, k, x) ==
  /\ n \in Nat /\ m \in {n, n + 1} /\ x \in 1..m /\ k \in 0..(m-1)
  /\ IF m = n THEN T[k].page = s[x] ELSE x = m /\ k = n
  /\ \A i, j \in 1..n : s[i] = s[j] => i = j
  /\ \A j \in 1..n : j # x => s[j] # t[1]
  /\ \A j \in 2..m : t[j] = IF j <= x THEN s[j-1] ELSE s[j]
  /\ U[k].page = t[1] /\ \A j \in 0..(m-1) : j # k => U[j].page = T[j].page

\* The other pages and entries, before and after.
LEMMA Others ==
  ASSUME NEW T, NEW U, NEW n, NEW m, NEW s, NEW t, NEW k, NEW x,
         Holds(T, n, s), Replaces(T, U, n, m, s, t, k, x)
  PROVE  /\ \A i \in 0..(m-1) : i # k =>
              /\ i \in 0..(n-1) /\ U[i].page = T[i].page
              /\ \E j \in 1..n : j # x /\ T[i].page = s[j]
         /\ \A j \in 1..n : j # x =>
              /\ s[j] # t[1]
              /\ \E y \in 2..m : t[y] = s[j]
         /\ \A y \in 2..m : (IF y <= x THEN y - 1 ELSE y) \in 1..n
                            /\ (IF y <= x THEN y - 1 ELSE y) # x
                            /\ t[y] = s[IF y <= x THEN y - 1 ELSE y]
<1>1. /\ n \in Nat /\ m \in Nat /\ (m = n \/ m = n + 1) /\ x \in 1..m /\ k \in 0..(m-1)
      /\ m # n => x = m /\ k = n
      /\ m = n => T[k].page = s[x]
  BY DEF Replaces
<1>2. ASSUME NEW i \in 0..(m-1), i # k
      PROVE  /\ i \in 0..(n-1) /\ U[i].page = T[i].page
             /\ \E j \in 1..n : j # x /\ T[i].page = s[j]
  <2>1. i \in 0..(n-1)
    BY <1>1, <1>2
  <2>2. U[i].page = T[i].page
    BY <1>2 DEF Replaces
  <2>3. PICK j \in 1..n : T[i].page = s[j]
    BY <2>1 DEF Holds
  <2>4. j # x
    <3>1. CASE m = n
      <4>1. k \in 0..(n-1) /\ T[k].page = s[x]
        BY <1>1, <3>1
      <4>2. T[i].page # T[k].page
        BY <1>2, <2>1, <4>1 DEF Holds
      <4> QED  BY <2>3, <4>1, <4>2
    <3>2. CASE m # n
      BY <1>1, <3>2
    <3> QED  BY <3>1, <3>2
  <2> QED  BY <2>1, <2>2, <2>3, <2>4
<1>3. ASSUME NEW j \in 1..n, j # x
      PROVE  s[j] # t[1] /\ \E y \in 2..m : t[y] = s[j]
  <2>1. s[j] # t[1]
    BY <1>3 DEF Replaces
  <2>2. CASE j < x
    <3>1. j + 1 \in 2..m /\ j + 1 <= x /\ (j + 1) - 1 = j
      BY <1>1, <2>2
    <3>2. t[j + 1] = s[j]
      BY <3>1 DEF Replaces
    <3> QED  BY <2>1, <3>1, <3>2
  <2>3. CASE ~(j < x)
    <3>1. j \in 2..m /\ ~(j <= x)
      BY <1>1, <1>3, <2>3
    <3>2. t[j] = s[j]
      BY <3>1 DEF Replaces
    <3> QED  BY <2>1, <3>1, <3>2
  <2> QED  BY <2>2, <2>3
<1>4. ASSUME NEW y \in 2..m
      PROVE  /\ (IF y <= x THEN y - 1 ELSE y) \in 1..n
             /\ (IF y <= x THEN y - 1 ELSE y) # x
             /\ t[y] = s[IF y <= x THEN y - 1 ELSE y]
  <2>1. t[y] = IF y <= x THEN s[y-1] ELSE s[y]
    BY DEF Replaces
  <2>2. CASE y <= x
    <3>1. y - 1 \in 1..n /\ y - 1 # x
      BY <1>1, <2>2
    <3> QED  BY <2>1, <2>2, <3>1
  <2>3. CASE ~(y <= x)
    <3>1. y \in 1..n /\ y # x
      BY <1>1, <2>3
    <3> QED  BY <2>1, <2>3, <3>1
  <2> QED  BY <2>2, <2>3
<1> QED  BY <1>2, <1>3, <1>4

\* The TLB goes on holding the top of the stack.
LEMMA HoldsMoves ==
  ASSUME NEW T, NEW U, NEW n, NEW m, NEW s, NEW t, NEW k, NEW x,
         Holds(T, n, s), Replaces(T, U, n, m, s, t, k, x)
  PROVE  Holds(U, m, t)
<1>1. /\ n \in Nat /\ m \in Nat /\ (m = n \/ m = n + 1) /\ x \in 1..m /\ k \in 0..(m-1)
      /\ m # n => k = n
      /\ m = n => T[k].page = s[x]
      /\ U[k].page = t[1] /\ 1 \in 1..m
      /\ \A y \in 1..m : y = 1 \/ y \in 2..m
      /\ \A y \in 2..m : y \in 1..m
      /\ \A j \in 0..(n-1) : j \in 0..(m-1)
  BY DEF Replaces
<1>2. ASSUME NEW i \in 0..(m-1)  PROVE \E j \in 1..m : U[i].page = t[j]
  <2>1. CASE i = k
    BY <1>1, <2>1
  <2>2. CASE i # k
    <3>1. PICK j \in 1..n : j # x /\ U[i].page = s[j]
      BY <2>2, Others
    <3>2. PICK y \in 2..m : t[y] = s[j]
      BY <3>1, Others
    <3> QED  BY <1>1, <3>1, <3>2
  <2> QED  BY <2>1, <2>2
<1>3. ASSUME NEW y \in 1..m  PROVE \E i \in 0..(m-1) : U[i].page = t[y]
  <2>1. CASE y = 1
    BY <1>1, <2>1
  <2>2. CASE y \in 2..m
    <3>1. PICK j \in 1..n : j # x /\ t[y] = s[j]
      BY <2>2, Others
    <3>2. PICK i \in 0..(n-1) : T[i].page = s[j]
      BY DEF Holds
    <3>3. i # k
      <4>1. CASE m = n
        <5>1. x \in 1..n /\ s[j] # s[x]
          BY <1>1, <3>1, <4>1 DEF Replaces
        <5> QED  BY <1>1, <3>2, <4>1, <5>1
      <4>2. CASE m # n
        BY <1>1, <4>2
      <4> QED  BY <4>1, <4>2
    <3>4. i \in 0..(m-1)
      BY <1>1
    <3>5. U[i].page = T[i].page
      BY <3>3, <3>4, Others
    <3> QED  BY <3>1, <3>2, <3>4, <3>5
  <2> QED  BY <1>1, <2>1, <2>2
<1>4. ASSUME NEW i \in 0..(m-1), i # k  PROVE U[i].page # U[k].page
  <2>1. PICK j \in 1..n : j # x /\ U[i].page = s[j]
    BY <1>4, Others
  <2>2. s[j] # t[1]
    BY <2>1, Others
  <2> QED  BY <1>1, <2>1, <2>2
<1>5. ASSUME NEW i \in 0..(m-1), NEW j \in 0..(m-1), U[i].page = U[j].page  PROVE i = j
  <2>1. CASE i # k /\ j # k
    <3>1. i \in 0..(n-1) /\ j \in 0..(n-1) /\ T[i].page = T[j].page
      BY <1>5, <2>1, Others
    <3> QED  BY <3>1 DEF Holds
  <2>2. CASE i = k \/ j = k
    BY <1>4, <1>5, <2>2
  <2> QED  BY <2>1, <2>2
<1> QED  BY <1>2, <1>3, <1>5 DEF Holds

\* And the time stamps go on decreasing, if slot k is given the current time.
LEMMA StampedMoves ==
  ASSUME NEW T, NEW U, NEW n, NEW m, NEW s, NEW t, NEW k, NEW x, NEW c, NEW d,
         Holds(T, n, s), Replaces(T, U, n, m, s, t, k, x), Stamped(T, c, n, s),
         \A i \in 0..(n-1) : c[i] < d[k],
         \A i \in 0..(m-1) : i # k => d[i] = c[i]
  PROVE  Stamped(U, d, m, t)
<1> SUFFICES ASSUME NEW i \in 0..(m-1), NEW j \in 0..(m-1), NEW a \in 1..m, NEW b \in 1..m,
                    U[i].page = t[a], U[j].page = t[b], a < b
             PROVE  d[j] < d[i]
  BY DEF Stamped
<1>1. m \in Nat /\ n \in Nat /\ U[k].page = t[1] /\ x \in 1..m
  BY DEF Replaces
<1>2. b \in 2..m
  BY <1>1
<1> DEFINE old(y) == IF y <= x THEN y - 1 ELSE y
<1>3. old(b) \in 1..n /\ old(b) # x /\ t[b] = s[old(b)]
  BY <1>2, Others
<1>4. t[b] # t[1]
  <2> HIDE DEF old
  <2> QED  BY <1>3, Others
<1>5. j # k
  BY <1>1, <1>4
<1>6. j \in 0..(n-1) /\ T[j].page = s[old(b)] /\ d[j] = c[j]
  <2> HIDE DEF old
  <2> QED  BY <1>3, <1>5, Others
<1>7. CASE i = k
  BY <1>6, <1>7
<1>8. CASE i # k
  <2>1. PICK y \in 1..n : y # x /\ U[i].page = s[y]
    BY <1>8, Others
  <2>2. t[a] # t[1]
    BY <2>1, Others
  <2>3. a \in 2..m
    BY <1>1, <2>2
  <2>4. old(a) \in 1..n /\ t[a] = s[old(a)]
    BY <2>3, Others
  <2>5. old(a) < old(b)
    BY <1>1, <1>2, <2>3
  <2> HIDE DEF old
  <2>6. i \in 0..(n-1) /\ T[i].page = s[old(a)] /\ d[i] = c[i]
    BY <1>8, <2>4, Others
  <2>7. c[j] < c[i]
    BY <1>3, <1>6, <2>4, <2>5, <2>6 DEF Stamped
  <2> QED  BY <1>6, <2>6, <2>7
<1> QED  BY <1>7, <1>8

-----------------------------------------------------------------------------
(* The steps. *)

\* What is on the stack before the new page is pushed.
Kept == IF MustEvict THEN Popped(Recency) ELSE Recency

\* The stack, in numbers.
LEMMA RecencyType ==
  ASSUME StackInv
  PROVE  /\ Recency \in Seq(Pages) /\ Once(Recency) /\ Len(Recency) \in Nat
         /\ \A k \in 1..Len(Recency) : Recency[k] \in Pages /\ valid[Recency[k]]
         /\ \A i, j \in 1..Len(Recency) : Recency[i] = Recency[j] => i = j
<1>1. Recency \in Seq(Pages) /\ Once(Recency)
  BY DEF StackInv, Stacked
<1>2. Len(Recency) \in Nat /\ \A k \in 1..Len(Recency) : Recency[k] \in Pages
  BY <1>1, AtIs
<1> HIDE DEF Recency
<1>3. \A k \in 1..Len(Recency) : valid[Recency[k]]
  BY <1>2 DEF StackInv
<1> QED  BY <1>1, <1>2, <1>3 DEF Once

\* The page at the bottom is evicted when and only when the pages fill the frames.
LEMMA EvictIs ==
  ASSUME IInv
  PROVE  /\ MustEvict <=> Len(Recency) = NUM_FRAMES
         /\ MustEvict => /\ Recency # <<>> /\ Len(Recency) # 0
                         /\ Victim = Recency[Len(Recency)]
<1>1. /\ NUM_FRAMES \in Nat /\ TLB_ENTRIES_NUM \in Nat \ {0} /\ NUM_FRAMES >= TLB_ENTRIES_NUM
  BY SizeAssumption
<1>2. /\ Recency \in Seq(Pages) /\ Len(Recency) \in Nat /\ free_frame_list \in Seq(Frames)
      /\ Len(free_frame_list) \in Nat /\ Len(free_frame_list) + Len(Recency) = NUM_FRAMES
      /\ Stacked(links, Recency)
  BY RecencyType, LenProperties DEF IInv, FrameInv, StackInv
<1>3. MustEvict <=> Len(free_frame_list) = 0
  BY <1>2, EmptySeq DEF MustEvict
<1>4. MustEvict <=> Len(Recency) = NUM_FRAMES
  BY <1>1, <1>2, <1>3
<1>5. MustEvict => Recency # <<>> /\ Len(Recency) # 0
  BY <1>1, <1>2, <1>4, EmptySeq
<1>6. Recency # <<>> => Victim = Recency[Len(Recency)]
  BY <1>2, PopBackStacks DEF Victim
<1> QED  BY <1>4, <1>5, <1>6

\* What is kept leaves room for one more page.
LEMMA KeptIs ==
  ASSUME IInv
  PROVE  /\ Kept \in Seq(Pages) /\ Once(Kept) /\ Len(Kept) \in Nat
         /\ Len(Kept) = (IF MustEvict THEN Len(Recency) - 1 ELSE Len(Recency))
         /\ Len(Kept) + 1 <= NUM_FRAMES
         /\ \A k \in 1..Len(Kept) : k \in 1..Len(Recency) /\ Kept[k] = Recency[k]
         /\ Stacked(IF MustEvict THEN PopBack(links, Victim) ELSE links, Kept)
<1>1. /\ Recency \in Seq(Pages) /\ Len(Recency) \in Nat /\ Len(Recency) <= NUM_FRAMES
      /\ Stacked(links, Recency) /\ NUM_FRAMES \in Nat /\ Once(Recency)
  BY RecencyType, SizeAssumption DEF IInv, StackInv
<1>2. CASE MustEvict
  <2>1. Recency # <<>> /\ Len(Recency) # 0 /\ Victim = Recency[Len(Recency)] /\ Kept = Popped(Recency)
    BY <1>2, EvictIs DEF Kept
  <2>2. /\ Kept \in Seq(Pages) /\ Len(Kept) = Len(Recency) - 1
        /\ \A k \in 1..(Len(Recency) - 1) : Kept[k] = Recency[k]
    BY <1>1, <2>1, PoppedIs
  <2>3. Stacked(PopBack(links, Victim), Kept)
    BY <1>1, <2>1, PopBackStacks
  <2> HIDE DEF Kept
  <2>4. \A k \in 1..(Len(Recency) - 1) : k \in 1..Len(Recency)
    BY <1>1, <2>1
  <2>5. Len(Kept) \in Nat /\ Len(Kept) + 1 <= NUM_FRAMES
    BY <1>1, <2>1, <2>2
  <2>6. Once(Kept)
    BY <2>3 DEF Stacked
  <2> QED  BY <1>2, <2>2, <2>3, <2>4, <2>5, <2>6
<1>3. CASE ~MustEvict
  <2>1. Kept = Recency /\ Len(Recency) # NUM_FRAMES
    BY <1>3, EvictIs DEF Kept
  <2>2. Len(Recency) + 1 <= NUM_FRAMES
    BY <1>1, <2>1
  <2> QED  BY <1>1, <1>3, <2>1, <2>2
<1> QED  BY <1>2, <1>3

\* On the way the pages kept are the valid ones without the victim.
LEMMA KeptPages ==
  ASSUME IInv, NEW q \in Pages
  PROVE  (valid[q] /\ ~(MustEvict /\ q = Victim)) <=> \E k \in 1..Len(Kept) : Kept[k] = q
<1>1. /\ Len(Recency) \in Nat
      /\ valid[q] <=> \E k \in 1..Len(Recency) : Recency[k] = q
      /\ \A i, j \in 1..Len(Recency) : Recency[i] = Recency[j] => i = j
  BY RecencyType DEF IInv, StackInv
<1>2. /\ Len(Kept) = (IF MustEvict THEN Len(Recency) - 1 ELSE Len(Recency))
      /\ \A k \in 1..Len(Kept) : k \in 1..Len(Recency) /\ Kept[k] = Recency[k]
  BY KeptIs
<1>3. MustEvict => Len(Recency) # 0 /\ Victim = Recency[Len(Recency)]
  BY EvictIs
<1>4. CASE ~MustEvict
  BY <1>1, <1>2, <1>4
<1>5. CASE MustEvict
  <2>1. Len(Recency) \in 1..Len(Recency)
    BY <1>1, <1>3, <1>5
  <2>2. \A k \in 1..Len(Recency) : k \in 1..Len(Kept) <=> k # Len(Recency)
    BY <1>1, <1>2, <1>3, <1>5
  <2>3. \A k \in 1..Len(Recency) : Recency[k] = Victim <=> k = Len(Recency)
    BY <1>1, <1>3, <1>5, <2>1
  <2> QED  BY <1>1, <1>2, <1>5, <2>2, <2>3
<1> QED  BY <1>4, <1>5

\* The page in front is moved to the front: nothing changes.
LEMMA ToFrontFirst ==
  ASSUME NEW s \in Seq(Pages), s # <<>>
  PROVE  1 \in 1..Len(s) /\ ToFront(s, 1) = s
<1>1. Len(s) \in Nat /\ Len(s) # 0
  BY LenProperties, EmptySeq
<1>2. 1 \in 1..Len(s) /\ \A k \in 1..Len(s) : k = 1 \/ (k \in 2..Len(s) /\ ~(k <= 1))
  BY <1>1
<1>3. /\ ToFront(s, 1) \in Seq(Pages) /\ Len(ToFront(s, 1)) = Len(s) /\ ToFront(s, 1)[1] = s[1]
      /\ \A k \in 2..Len(s) : ToFront(s, 1)[k] = IF k <= 1 THEN s[k-1] ELSE s[k]
  BY <1>2, ToFrontIs
<1>4. \A k \in 1..Len(s) : ToFront(s, 1)[k] = s[k]
  BY <1>2, <1>3
<1> QED  BY <1>2, <1>3, <1>4, SeqEqual

\* A page fault pushes the page on what is kept.
LEMMA FaultStack ==
  ASSUME IInv, NEW p \in Pages, PageFault(p)
  PROVE  Recency' = Pushed(Kept, p) /\ StackInv'
<1> DEFINE l1 == IF MustEvict THEN PopBack(links, Victim) ELSE links
           l2 == PushFront(l1, p)
           t  == Pushed(Kept, p)
<1>1. ~valid[p] /\ links' = MoveToFront(l2, p)
      /\ valid' = [q \in Pages |-> q = p \/ (valid[q] /\ ~(MustEvict /\ q = Victim))]
  BY DEF PageFault
<1>2. /\ Kept \in Seq(Pages) /\ Len(Kept) \in Nat /\ Len(Kept) + 1 <= NUM_FRAMES /\ Stacked(l1, Kept)
  BY KeptIs
<1> HIDE DEF l1
<1>3. \A k \in 1..Len(Kept) : Kept[k] # p
  BY <1>1, KeptPages
<1>4. Stacked(l2, t)
  BY <1>2, <1>3, PushFrontStacks
<1>5. /\ t \in Seq(Pages) /\ Len(t) = Len(Kept) + 1 /\ t[1] = p
      /\ \A k \in 2..(Len(Kept) + 1) : t[k] = Kept[k-1]
  BY <1>2, PushedIs
<1> HIDE DEF l2, t
<1>6. t # <<>>
  BY <1>2, <1>5, EmptySeq
<1>7. 1 \in 1..Len(t) /\ ToFront(t, 1) = t
  BY <1>5, <1>6, ToFrontFirst
<1>8. Stacked(links', t)
  BY <1>1, <1>4, <1>5, <1>7, MoveToFrontStacks
<1>9. Recency' = t
  BY <1>2, <1>5, <1>8, FollowedIs DEF Recency
<1>10. ASSUME NEW q \in Pages
       PROVE  valid'[q] <=> \E k \in 1..Len(t) : t[k] = q
  <2>1. valid'[q] <=> q = p \/ \E k \in 1..Len(Kept) : Kept[k] = q
    BY <1>1, KeptPages
  <2>2. /\ \A k \in 1..Len(t) : k = 1 \/ (k \in 2..(Len(Kept) + 1) /\ k - 1 \in 1..Len(Kept))
        /\ \A k \in 1..Len(Kept) : k + 1 \in 2..(Len(Kept) + 1) /\ k + 1 \in 1..Len(t) /\ (k + 1) - 1 = k
    BY <1>2, <1>5
  <2>3. ASSUME NEW k \in 1..Len(Kept), Kept[k] = q  PROVE \E j \in 1..Len(t) : t[j] = q
    BY <1>5, <2>2, <2>3
  <2>4. ASSUME NEW k \in 1..Len(t), t[k] = q  PROVE q = p \/ \E j \in 1..Len(Kept) : Kept[j] = q
    BY <1>5, <2>2, <2>4
  <2> QED  BY <1>5, <1>7, <2>1, <2>3, <2>4
<1>11. StackInv'
  BY <1>2, <1>5, <1>8, <1>9, <1>10 DEF StackInv
<1> QED  BY <1>9, <1>11 DEF t

\* A page that is used again moves to the front.
LEMMA HitStack ==
  ASSUME IInv, NEW i \in 1..Len(Recency), links' = MoveToFront(links, Recency[i]),
         UNCHANGED valid
  PROVE  Recency' = ToFront(Recency, i) /\ StackInv'
<1> DEFINE t == ToFront(Recency, i)
           s == Recency
<1>1. s \in Seq(Pages) /\ Len(s) \in Nat /\ Len(s) <= NUM_FRAMES /\ Stacked(links, s)
  BY RecencyType DEF IInv, StackInv
<1>2. Stacked(links', t)
  BY <1>1, MoveToFrontStacks
<1>3. /\ t \in Seq(Pages) /\ Len(t) = Len(s) /\ t[1] = s[i]
      /\ \A k \in 2..Len(s) : t[k] = IF k <= i THEN s[k-1] ELSE s[k]
  BY <1>1, ToFrontIs
<1> HIDE DEF t
<1>4. Recency' = t
  BY <1>1, <1>2, <1>3, FollowedIs DEF Recency
<1> HIDE DEF s
<1>5. /\ \A k \in 1..Len(s) : k = 1 \/ k \in 2..Len(s)
      /\ \A k \in 2..Len(s) : k - 1 \in 1..Len(s) /\ k \in 1..Len(s)
      /\ \A k \in 1..Len(s) : k < i => (k + 1 \in 2..Len(s) /\ k + 1 <= i /\ (k + 1) - 1 = k /\ k + 1 \in 1..Len(s))
      /\ \A k \in 1..Len(s) : k > i => (k \in 2..Len(s) /\ ~(k <= i))
      /\ \A k \in 1..Len(s) : k < i \/ k = i \/ k > i
      /\ i \in 1..Len(s) /\ 1 \in 1..Len(s)
  BY <1>1 DEF s
<1>6. \A k \in 1..Len(s) : \E j \in 1..Len(s) : t[k] = s[j]
  BY <1>3, <1>5
<1>7. \A k \in 1..Len(s) : \E j \in 1..Len(s) : t[j] = s[k]
  <2> TAKE k \in 1..Len(s)
  <2>1. CASE k < i
    BY <1>3, <1>5, <2>1
  <2>2. CASE k = i
    BY <1>3, <1>5, <2>2
  <2>3. CASE k > i
    BY <1>3, <1>5, <2>3
  <2> QED  BY <1>5, <2>1, <2>2, <2>3
<1>8. \A p \in Pages : valid[p] <=> \E k \in 1..Len(s) : s[k] = p
  BY DEF IInv, StackInv, s
<1>9. \A p \in Pages : valid'[p] <=> \E k \in 1..Len(t) : t[k] = p
  <2> TAKE p \in Pages
  <2>1. valid'[p] <=> \E k \in 1..Len(s) : s[k] = p
    BY <1>8
  <2>2. (\E k \in 1..Len(s) : s[k] = p) <=> \E k \in 1..Len(s) : t[k] = p
    BY <1>6, <1>7
  <2> QED  BY <1>3, <2>1, <2>2
<1>10. StackInv'
  BY <1>1, <1>2, <1>3, <1>4, <1>9 DEF StackInv
<1> QED  BY <1>4, <1>10 DEF t


\* A frame is free until a page is put into it, and then holds that page alone.
LEMMA FaultFrames ==
  ASSUME IInv, NEW p \in Pages, PageFault(p)
  PROVE  FrameInv' /\ FreeFrame \in Frames
<1> DEFINE free == free_frame_list
           f == FreeFrame
<1>1. /\ ~valid[p]
      /\ valid' = [q \in Pages |-> q = p \/ (valid[q] /\ ~(MustEvict /\ q = Victim))]
      /\ frame_number' = [frame_number EXCEPT ![p] = f]
      /\ memory' = [memory EXCEPT ![f] = p]
      /\ free' = IF MustEvict THEN <<>> ELSE Tail(free)
  BY DEF PageFault
<1>2. /\ frame_number \in [Pages -> Frames] /\ memory \in [Frames -> Pages \cup {NULL}]
      /\ free \in Seq(Frames) /\ Len(free) \in Nat
      /\ Len(free) + Len(Recency) = NUM_FRAMES /\ Len(Recency) \in Nat /\ NUM_FRAMES \in Nat
      /\ \A j, k \in 1..Len(free) : free[j] = free[k] => j = k
      /\ \A q \in Pages : valid[q] =>
           /\ memory[frame_number[q]] = q
           /\ \A k \in 1..Len(free) : free[k] # frame_number[q]
  BY RecencyType, LenProperties, SizeAssumption DEF IInv, TypeOK, FrameInv
<1>3. Recency' = Pushed(Kept, p)
  BY FaultStack
<1>4. /\ Kept \in Seq(Pages) /\ Len(Kept) \in Nat
      /\ Len(Kept) = IF MustEvict THEN Len(Recency) - 1 ELSE Len(Recency)
  BY KeptIs
<1>5. Len(Recency') = Len(Kept) + 1
  BY <1>3, <1>4, PushedIs
<1>6. CASE MustEvict
  <2>1. free = <<>> /\ Len(free) = 0 /\ Len(Recency) # 0 /\ Victim = Recency[Len(Recency)]
    BY <1>6, EvictIs DEF MustEvict
  <2>2. Victim \in Pages /\ valid[Victim]
    <3>1. Len(Recency) \in 1..Len(Recency)
      BY <1>2, <2>1
    <3> QED  BY <2>1, <3>1, RecencyType DEF IInv
  <2>3. f = frame_number[Victim] /\ f \in Frames /\ memory[f] = Victim
    BY <1>2, <1>6, <2>2 DEF FreeFrame
  <2> HIDE DEF f
  <2>4. free' = <<>> /\ free' \in Seq(Frames) /\ Len(free') = 0
    BY <1>1, <1>6
  <2>5. Len(free') + Len(Recency') = NUM_FRAMES
    BY <1>2, <1>4, <1>5, <1>6, <2>1, <2>4
  <2>6. ASSUME NEW q \in Pages, valid'[q]  PROVE memory'[frame_number'[q]] = q
    <3>1. CASE q = p
      BY <1>1, <1>2, <2>3, <3>1
    <3>2. CASE q # p
      <4>1. valid[q] /\ q # Victim
        BY <1>1, <1>6, <2>6, <3>2
      <4>2. frame_number'[q] = frame_number[q] /\ memory[frame_number[q]] = q
        BY <1>1, <1>2, <3>2, <4>1
      <4>3. frame_number[q] # f
        BY <2>3, <4>1, <4>2
      <4> QED  BY <1>1, <1>2, <4>2, <4>3
    <3> QED  BY <3>1, <3>2
  <2> QED  BY <2>3, <2>4, <2>5, <2>6 DEF FrameInv, f
<1>7. CASE ~MustEvict
  <2>1. free # <<>>
    BY <1>7 DEF MustEvict
  <2>2. 1 \in 1..Len(free) /\ f = free[1] /\ f \in Frames
    <3>1. Len(free) # 0
      BY <1>2, <2>1, EmptySeq
    <3>2. 1 \in 1..Len(free)
      BY <1>2, <3>1
    <3>3. f = free[1]
      BY <1>2, <1>7, <2>1, HeadTailProperties DEF FreeFrame
    <3> QED  BY <1>2, <3>2, <3>3, LenProperties
  <2>3. /\ free' \in Seq(Frames) /\ Len(free') = Len(free) - 1
        /\ \A k \in 1..(Len(free) - 1) : free'[k] = free[k+1]
    BY <1>1, <1>2, <1>7, <2>1, HeadTailProperties
  <2> HIDE DEF f
  <2>4. Len(free') + Len(Recency') = NUM_FRAMES
    <3>1. Len(Recency') = Len(Recency) + 1
      BY <1>4, <1>5, <1>7
    <3>2. (Len(free) - 1) + (Len(Recency) + 1) = NUM_FRAMES
      BY <1>2
    <3> QED  BY <2>3, <3>1, <3>2
  <2>5. \A k \in 1..Len(free') : k + 1 \in 1..Len(free) /\ k + 1 # 1 /\ free'[k] = free[k+1]
    <3>1. \A k \in 1..(Len(free) - 1) : k + 1 \in 1..Len(free) /\ k + 1 # 1
      BY <1>2
    <3> QED  BY <2>3, <3>1
  <2>6. \A j, k \in 1..Len(free') : free'[j] = free'[k] => j = k
    <3> SUFFICES ASSUME NEW j \in 1..Len(free'), NEW k \in 1..Len(free'), free'[j] = free'[k]
                 PROVE  j = k
      OBVIOUS
    <3>1. j + 1 = k + 1
      BY <1>2, <2>5
    <3> QED  BY <3>1
  <2>7. ASSUME NEW q \in Pages, valid'[q]
        PROVE /\ memory'[frame_number'[q]] = q
              /\ \A k \in 1..Len(free') : free'[k] # frame_number'[q]
    <3>1. CASE q = p
      <4>1. frame_number'[q] = f /\ memory'[f] = p
        BY <1>1, <1>2, <2>2, <3>1
      <4>2. \A k \in 1..Len(free') : free'[k] # f
        BY <1>2, <2>2, <2>5
      <4> QED  BY <3>1, <4>1, <4>2
    <3>2. CASE q # p
      <4>1. valid[q]
        BY <1>1, <2>7, <3>2
      <4>2. /\ frame_number'[q] = frame_number[q] /\ memory[frame_number[q]] = q
            /\ \A k \in 1..Len(free) : free[k] # frame_number[q]
        BY <1>1, <1>2, <3>2, <4>1
      <4>3. frame_number[q] # f
        BY <2>2, <4>2
      <4>4. memory'[frame_number'[q]] = q
        BY <1>1, <1>2, <4>2, <4>3
      <4> QED  BY <2>5, <4>2, <4>4
    <3> QED  BY <3>1, <3>2
  <2> QED  BY <2>2, <2>3, <2>4, <2>6, <2>7 DEF FrameInv, f
<1> QED  BY <1>6, <1>7

\* A hit leaves the frames as they are.
LEMMA HitFrames ==
  ASSUME IInv, UNCHANGED pageVars, Len(Recency') = Len(Recency)
  PROVE  FrameInv'
  BY DEF IInv, FrameInv, pageVars

\* What the TLB holds, in the terms of the stack.
LEMMA TLBType ==
  ASSUME IInv
  PROVE  /\ free_TLB_index \in Nat /\ TLB_ENTRIES_NUM \in Nat \ {0}
         /\ free_TLB_index <= Len(Recency) /\ free_TLB_index <= TLB_ENTRIES_NUM
         /\ NUM_FRAMES >= TLB_ENTRIES_NUM /\ NUM_FRAMES \in Nat /\ num_references \in Nat
         /\ Len(Recency) \in Nat
         /\ free_TLB_index # TLB_ENTRIES_NUM => free_TLB_index = Len(Recency)
         /\ \A k \in 0..(free_TLB_index - 1) :
              /\ k \in Slots /\ TLB[k].page \in Pages /\ valid[TLB[k].page]
              /\ frame_number[TLB[k].page] = TLB[k].frame
              /\ TLB_cnts[k] \in Nat /\ TLB_cnts[k] < num_references
         /\ \A i, j \in 1..free_TLB_index : Recency[i] = Recency[j] => i = j
<1>1. /\ Len(Recency) \in Nat /\ TLB_ENTRIES_NUM \in Nat \ {0}
      /\ NUM_FRAMES \in Nat /\ NUM_FRAMES >= TLB_ENTRIES_NUM
      /\ \A i, j \in 1..Len(Recency) : Recency[i] = Recency[j] => i = j
      /\ \A k \in 1..Len(Recency) : Recency[k] \in Pages /\ valid[Recency[k]]
  BY RecencyType, SizeAssumption DEF IInv
<1>2. free_TLB_index = IF Len(Recency) < TLB_ENTRIES_NUM THEN Len(Recency) ELSE TLB_ENTRIES_NUM
  BY DEF IInv, TLBInv
<1>3. /\ free_TLB_index \in Nat
      /\ free_TLB_index <= Len(Recency) /\ free_TLB_index <= TLB_ENTRIES_NUM
      /\ free_TLB_index # TLB_ENTRIES_NUM => free_TLB_index = Len(Recency)
      /\ \A j \in 1..free_TLB_index : j \in 1..Len(Recency)
  BY <1>1, <1>2
<1>4. num_references \in Nat /\ \A k \in Slots : TLB_cnts[k] \in Nat
  BY SizeAssumption DEF IInv, TypeOK
<1>5. ASSUME NEW k \in 0..(free_TLB_index - 1)
      PROVE  /\ k \in Slots /\ TLB[k].page \in Pages /\ valid[TLB[k].page]
             /\ frame_number[TLB[k].page] = TLB[k].frame
             /\ TLB_cnts[k] < num_references
  <2>1. k \in Slots
    BY <1>1, <1>3 DEF Slots
  <2>2. PICK j \in 1..free_TLB_index : TLB[k].page = Recency[j]
    BY DEF IInv, TLBInv, Holds
  <2> QED  BY <1>1, <1>3, <2>1, <2>2 DEF IInv, TLBInv
<1> QED  BY <1>1, <1>3, <1>4, <1>5


\* The entry replaced when the TLB is full is that of the last page it holds.
LEMMA OldestIs ==
  ASSUME IInv, TLBFull
  PROVE  /\ ReplaceOldest(TLB_cnts) \in 0..(free_TLB_index - 1)
         /\ free_TLB_index \in 1..free_TLB_index
         /\ TLB[ReplaceOldest(TLB_cnts)].page = Recency[free_TLB_index]
<1> DEFINE n == free_TLB_index
           Oldest(k) == \A m \in Slots : TLB_cnts[k] < TLB_cnts[m]
                                         \/ (TLB_cnts[k] = TLB_cnts[m] /\ k <= m)
<1>1. n \in Nat /\ n # 0 /\ Slots = 0..(n-1) /\ n \in 1..n
  BY TLBType DEF TLBFull, Slots
<1>2. \A k \in Slots : TLB_cnts[k] \in Nat
  BY <1>1, TLBType
<1>3. PICK k \in 0..(n-1) : TLB[k].page = Recency[n]
  BY <1>1 DEF IInv, TLBInv, Holds
<1>4. ASSUME NEW m \in Slots, m # k  PROVE TLB_cnts[k] < TLB_cnts[m]
  <2>1. PICK j \in 1..n : TLB[m].page = Recency[j]
    BY <1>1 DEF IInv, TLBInv, Holds
  <2>2. TLB[m].page # TLB[k].page
    BY <1>1, <1>4 DEF IInv, TLBInv, Holds
  <2>3. j < n
    BY <1>1, <1>3, <2>1, <2>2
  <2> QED  BY <1>1, <1>3, <2>1, <2>3 DEF IInv, TLBInv, Stamped
<1>5. Oldest(k)
  BY <1>1, <1>2, <1>4
<1>6. \A q \in Slots : Oldest(q) => q = k
  BY <1>1, <1>2, <1>4
<1>7. ReplaceOldest(TLB_cnts) = CHOOSE q \in Slots : Oldest(q)
  BY DEF ReplaceOldest
<1> HIDE DEF Oldest
<1>8. ReplaceOldest(TLB_cnts) = k
  BY <1>1, <1>5, <1>6, <1>7
<1> QED  BY <1>1, <1>3, <1>8

\* A page without an entry is not among those at the top of the stack, and one
\* with an entry is.
LEMMA MatchesIs ==
  ASSUME IInv, NEW p \in Pages
  PROVE  /\ Matches(p) = {} => \A j \in 1..free_TLB_index : Recency[j] # p
         /\ Matches(p) = {} => \A k \in 0..(free_TLB_index - 1) : TLB[k].page # p
         /\ Matches(p) # {} =>
              /\ Min(Matches(p)) \in 0..(free_TLB_index - 1)
              /\ TLB[Min(Matches(p))].page = p
              /\ \E x \in 1..free_TLB_index : Recency[x] = p
<1>1. Matches(p) = {} => \A k \in 0..(free_TLB_index - 1) : TLB[k].page # p
  BY DEF Matches
<1>2. \A j \in 1..free_TLB_index : \E k \in 0..(free_TLB_index - 1) : TLB[k].page = Recency[j]
  BY DEF IInv, TLBInv, Holds
<1>3. ASSUME Matches(p) # {}
      PROVE  /\ Min(Matches(p)) \in 0..(free_TLB_index - 1)
             /\ TLB[Min(Matches(p))].page = p
  <2>1. PICK k \in 0..(free_TLB_index - 1) : TLB[k].page = p
    BY <1>3 DEF Matches
  <2>2. \A q \in Matches(p) : q = k
    BY <2>1 DEF IInv, TLBInv, Holds, Matches
  <2>3. Matches(p) = {k}
    BY <1>3, <2>2
  <2>4. k \in Nat
    BY TLBType
  <2>5. Min({k}) = k
    BY <2>4 DEF Min
  <2> QED  BY <2>1, <2>3, <2>5
<1>4. \A k \in 0..(free_TLB_index - 1) : \E x \in 1..free_TLB_index : TLB[k].page = Recency[x]
  BY DEF IInv, TLBInv, Holds
<1> QED  BY <1>1, <1>2, <1>3, <1>4


\* The parts of TypeOK about the page table.
PageType ==
  /\ valid \in [Pages -> BOOLEAN]
  /\ frame_number \in [Pages -> Frames]
  /\ memory \in [Frames -> Pages \cup {NULL}]

\* On a TLB miss the page comes to the front and the pages that have an entry move
\* down by one, whether the page was on the stack or not.
LEMMA MissStack ==
  ASSUME IInv, NEW p \in Pages, Matches(p) = {}, PageFault(p) \/ InPageTable(p)
  PROVE  /\ StackInv' /\ FrameInv' /\ PageType'
         /\ 1 \in 1..Len(Recency') /\ Recency'[1] = p
         /\ \A q \in Pages : q # p => frame_number'[q] = frame_number[q]
         /\ TLBFull => /\ Len(Recency') >= TLB_ENTRIES_NUM
                       /\ \A j \in 2..free_TLB_index : Recency'[j] = Recency[j-1]
         /\ ~TLBFull => /\ Len(Recency') = free_TLB_index + 1
                        /\ \A j \in 2..(free_TLB_index + 1) : Recency'[j] = Recency[j-1]
<1> DEFINE n == free_TLB_index
           s == Recency
<1>1. /\ s \in Seq(Pages) /\ Len(s) \in Nat /\ n \in Nat /\ n <= Len(s) /\ n <= TLB_ENTRIES_NUM
      /\ TLB_ENTRIES_NUM \in Nat \ {0} /\ NUM_FRAMES \in Nat /\ NUM_FRAMES >= TLB_ENTRIES_NUM
      /\ TLBFull <=> n = TLB_ENTRIES_NUM
      /\ ~TLBFull => n = Len(s)
  BY RecencyType, TLBType DEF IInv, TLBFull
<1>2. \A j \in 1..n : s[j] # p
  BY MatchesIs
<1>3. PageType
  BY DEF IInv, TypeOK, PageType
<1> HIDE DEF n, s
<1>4. CASE PageFault(p)
  <2>1. StackInv' /\ FrameInv' /\ Recency' = Pushed(Kept, p) /\ FreeFrame \in Frames
    BY <1>4, FaultStack, FaultFrames
  <2>2. /\ Kept \in Seq(Pages) /\ Len(Kept) \in Nat
        /\ Len(Kept) = (IF MustEvict THEN Len(s) - 1 ELSE Len(s))
        /\ \A k \in 1..Len(Kept) : Kept[k] = s[k]
        /\ MustEvict <=> Len(s) = NUM_FRAMES
    BY KeptIs, EvictIs DEF s
  <2>3. /\ Len(Recency') = Len(Kept) + 1 /\ Recency'[1] = p
        /\ \A k \in 2..(Len(Kept) + 1) : Recency'[k] = Kept[k-1]
    BY <2>1, <2>2, PushedIs
  <2>4. \A k \in 2..(Len(Kept) + 1) : Recency'[k] = s[k-1]
    <3>1. \A k \in 2..(Len(Kept) + 1) : k - 1 \in 1..Len(Kept)
      BY <2>2
    <3> QED  BY <2>2, <2>3, <3>1
  <2>5. PageType' /\ \A q \in Pages : q # p => frame_number'[q] = frame_number[q]
    BY <1>3, <1>4, <2>1 DEF PageType, PageFault
  <2>6. Len(Kept) + 1 >= 1 /\ 1 \in 1..(Len(Kept) + 1)
    BY <2>2
  <2>7. CASE TLBFull
    <3>1. Len(Kept) + 1 >= TLB_ENTRIES_NUM /\ \A j \in 2..n : j \in 2..(Len(Kept) + 1)
      BY <1>1, <2>2, <2>7
    <3> QED  BY <2>1, <2>3, <2>4, <2>5, <2>6, <2>7, <3>1 DEF n, s
  <2>8. CASE ~TLBFull
    <3>1. Len(Kept) + 1 = n + 1
      BY <1>1, <2>2, <2>8
    <3>2. Len(Recency') = n + 1 /\ \A j \in 2..(n+1) : Recency'[j] = s[j-1]
      BY <2>3, <2>4, <3>1
    <3> QED  BY <2>1, <2>3, <2>5, <2>6, <2>8, <3>2 DEF n, s
  <2> QED  BY <2>7, <2>8
<1>5. CASE InPageTable(p)
  <2>1. valid[p] /\ links' = MoveToFront(links, p) /\ UNCHANGED pageVars /\ UNCHANGED valid
    BY <1>5 DEF InPageTable, pageVars
  <2>2. PICK i \in 1..Len(s) : s[i] = p
    BY <2>1 DEF IInv, StackInv, s
  <2>3. i > n
    BY <1>1, <1>2, <2>2
  <2>4. StackInv' /\ Recency' = ToFront(s, i)
    BY <2>1, <2>2, HitStack DEF s
  <2>5. /\ Len(Recency') = Len(s) /\ Recency'[1] = p
        /\ \A k \in 2..Len(s) : Recency'[k] = IF k <= i THEN s[k-1] ELSE s[k]
    BY <1>1, <2>2, <2>4, ToFrontIs
  <2>6. FrameInv'
    BY <2>1, <2>5, HitFrames DEF s
  <2>7. PageType' /\ \A q \in Pages : q # p => frame_number'[q] = frame_number[q]
    BY <1>3, <2>1 DEF PageType, pageVars
  <2>8. TLBFull /\ 1 \in 1..Len(s) /\ Len(s) >= TLB_ENTRIES_NUM
        /\ \A j \in 2..n : j \in 2..Len(s) /\ j <= i
    BY <1>1, <2>2, <2>3
  <2> QED  BY <2>4, <2>5, <2>6, <2>7, <2>8 DEF n, s
<1> QED  BY <1>4, <1>5

\* The byte read is the one at that offset of the page in that frame.
LEMMA ReplyIs ==
  ASSUME NEW a \in Addresses, NEW f \in Frames, Reply(a, f), memory'[f] = PageOf(a)
  PROVE  reply' = <<a, PageOf(a), OffsetOf(a)>>
<1>1. f \in Nat /\ PAGE_SIZE \in Nat \ {0} /\ OffsetOf(a) \in 0..(PAGE_SIZE - 1)
  BY SizeAssumption, AddressIs DEF Frames
<1>2. /\ (f * PAGE_SIZE + OffsetOf(a)) \div PAGE_SIZE = f
      /\ (f * PAGE_SIZE + OffsetOf(a)) % PAGE_SIZE = OffsetOf(a)
  BY <1>1, DivIs
<1> QED  BY <1>2 DEF Reply

\* The counters go up by one at most.
LEMMA Counting ==
  ASSUME IInv, num_references < MaxRefs, num_references' = num_references + 1
  PROVE  /\ num_references' \in 0..MaxRefs /\ num_references \in 0..MaxRefs
         /\ num_page_faults \in 0..MaxRefs /\ num_page_faults <= num_references'
         /\ num_page_faults + 1 \in 0..MaxRefs /\ num_page_faults + 1 <= num_references'
         /\ num_TLB_hits \in 0..MaxRefs /\ num_TLB_hits <= num_references'
         /\ num_TLB_hits + 1 \in 0..MaxRefs /\ num_TLB_hits + 1 <= num_references'
<1>1. /\ num_references \in 0..MaxRefs /\ num_page_faults \in 0..MaxRefs /\ num_TLB_hits \in 0..MaxRefs
      /\ num_page_faults <= num_references /\ num_TLB_hits <= num_references /\ MaxRefs \in Nat
  BY SizeAssumption DEF IInv, TypeOK, CountInv
<1> QED  BY <1>1

\* A hit in the TLB: the page is on the stack, and its entry is right.
LEMMA HitKeeps ==
  ASSUME IInv, NEW a \in Addresses, num_references < MaxRefs,
         num_references' = num_references + 1, TLBHit(a)
  PROVE  /\ IInv'
         /\ \E i \in 1..Len(Recency) :
              Recency[i] = PageOf(a) /\ Recency' = ToFront(Recency, i)
         /\ UNCHANGED num_page_faults
         /\ reply' = <<a, PageOf(a), OffsetOf(a)>>
<1> DEFINE p == PageOf(a)
           k == Min(Matches(p))
           n == free_TLB_index
           s == Recency
<1>1. /\ Matches(p) # {} /\ UNCHANGED <<TLB, free_TLB_index, pageVars, num_page_faults>>
      /\ TLB_cnts' = [TLB_cnts EXCEPT ![k] = num_references]
      /\ Reply(a, TLB[k].frame)
      /\ links' = MoveToFront(links, p) /\ num_TLB_hits' = num_TLB_hits + 1
  BY DEF TLBHit
<1>2. p \in Pages
  BY AddressIs
<1>3. k \in 0..(n-1) /\ TLB[k].page = p /\ \E x \in 1..n : s[x] = p
  BY <1>1, <1>2, MatchesIs
<1> HIDE DEF k, p
<1>4. PICK x \in 1..n : s[x] = p
  BY <1>3
<1>5. /\ n \in Nat /\ n <= Len(s) /\ Len(s) \in Nat /\ num_references \in Nat /\ s \in Seq(Pages)
      /\ k \in Slots /\ valid[p] /\ frame_number[p] = TLB[k].frame
      /\ \A j \in 0..(n-1) : j \in Slots /\ TLB_cnts[j] < num_references
                             /\ frame_number[TLB[j].page] = TLB[j].frame
      /\ \A i, j \in 1..n : s[i] = s[j] => i = j
  BY <1>3, TLBType, RecencyType DEF IInv
<1>6. x \in 1..Len(s)
  BY <1>5
<1>7. StackInv' /\ Recency' = ToFront(s, x)
  BY <1>1, <1>4, <1>6, HitStack DEF pageVars
<1>8. /\ Len(Recency') = Len(s) /\ Recency'[1] = p
      /\ \A j \in 2..Len(s) : Recency'[j] = IF j <= x THEN s[j-1] ELSE s[j]
  BY SMTT(30), <1>4, <1>5, <1>6, <1>7, ToFrontIs
<1>9. FrameInv'
  BY <1>1, <1>8, HitFrames
<1>10. /\ TLB' = TLB /\ free_TLB_index' = n /\ frame_number' = frame_number
  BY <1>1 DEF pageVars
<1>11. TLB_cnts \in [Slots -> 0..MaxRefs]
  BY DEF IInv, TypeOK
<1>12. TLB_cnts'[k] = num_references /\ \A j \in 0..(n-1) : j # k => TLB_cnts'[j] = TLB_cnts[j]
  BY <1>1, <1>5, <1>11
<1> HIDE DEF n, s
<1>13. Replaces(TLB, TLB', n, n, s, Recency', k, x)
  <2>1. \A j \in 2..n : j \in 2..Len(s)
    BY <1>5
  <2>2. \A j \in 1..n : j # x => s[j] # p
    BY <1>4, <1>5
  <2> QED  BY <1>3, <1>4, <1>5, <1>8, <1>10, <2>1, <2>2 DEF Replaces
<1>14. Holds(TLB, n, s) /\ Stamped(TLB, TLB_cnts, n, s)
  BY DEF IInv, TLBInv, n, s
<1>15. Holds(TLB', n, Recency')
  BY <1>13, <1>14, HoldsMoves
<1>16. Stamped(TLB', TLB_cnts', n, Recency')
  BY <1>5, <1>12, <1>13, <1>14, StampedMoves
<1>17. \A j \in 0..(n-1) : TLB_cnts'[j] < num_references + 1
  <2> TAKE j \in 0..(n-1)
  <2>1. TLB_cnts[j] \in 0..MaxRefs /\ MaxRefs \in Nat
    BY <1>5, <1>11, SizeAssumption
  <2>2. CASE j = k
    BY <1>5, <1>12, <2>2
  <2>3. CASE j # k
    <3>1. TLB_cnts[j] < num_references + 1
      BY <1>5, <2>1
    <3> QED  BY <1>12, <2>3, <3>1
  <2> QED  BY <2>2, <2>3
<1>18. TLBInv'
  <2>1. n = IF Len(s) < TLB_ENTRIES_NUM THEN Len(s) ELSE TLB_ENTRIES_NUM
    BY DEF IInv, TLBInv, n, s
  <2> QED  BY <1>5, <1>8, <1>10, <1>15, <1>16, <1>17, <2>1 DEF TLBInv
<1>19. CountInv' /\ num_references' \in 0..MaxRefs /\ num_page_faults' \in 0..MaxRefs
       /\ num_TLB_hits' \in 0..MaxRefs /\ num_references \in 0..MaxRefs
  BY <1>1, Counting DEF CountInv
<1>20. TypeOK'
  <2>1. links' \in Links
    BY <1>7 DEF StackInv, Stacked
  <2>2. TLB_cnts' \in [Slots -> 0..MaxRefs]
    BY <1>1, <1>11, <1>19
  <2> QED  BY <1>1, <1>19, <2>1, <2>2 DEF IInv, TypeOK, Links, pageVars
<1>21. reply' = <<a, p, OffsetOf(a)>>
  <2>1. TLB[k].frame \in Frames /\ memory'[TLB[k].frame] = p
    BY <1>1, <1>2, <1>5 DEF IInv, TypeOK, FrameInv, pageVars
  <2> QED  BY <1>1, <2>1, ReplyIs DEF p
<1> QED  BY <1>1, <1>4, <1>6, <1>7, <1>9, <1>18, <1>19, <1>20, <1>21 DEF IInv, p, s


\* The slot given to the page that missed.
MissSlot == IF TLBFull THEN ReplaceOldest(TLB_cnts) ELSE free_TLB_index

\* A miss in the TLB: the entry that goes is that of the page that leaves the top
\* of the stack.
LEMMA MissKeeps ==
  ASSUME IInv, NEW a \in Addresses, num_references < MaxRefs,
         num_references' = num_references + 1, TLBMiss(a)
  PROVE  /\ IInv'
         /\ reply' = <<a, PageOf(a), OffsetOf(a)>>
<1> DEFINE p == PageOf(a)
           k == MissSlot
           n == free_TLB_index
           m == free_TLB_index'
           s == Recency
           t == Recency'
<1>1. /\ Matches(p) = {} /\ (PageFault(p) \/ InPageTable(p))
      /\ TLB' = [TLB EXCEPT ![k] = [page |-> p, frame |-> frame_number'[p]]]
      /\ TLB_cnts' = [TLB_cnts EXCEPT ![k] = num_references]
      /\ m = IF TLBFull THEN n ELSE n + 1
      /\ Reply(a, frame_number'[p])
      /\ UNCHANGED num_TLB_hits
  BY DEF TLBMiss, MissSlot
<1>2. p \in Pages
  BY AddressIs
<1> HIDE DEF p
<1>3. /\ StackInv' /\ FrameInv' /\ PageType' /\ 1 \in 1..Len(t) /\ t[1] = p
      /\ \A q \in Pages : q # p => frame_number'[q] = frame_number[q]
      /\ TLBFull => /\ Len(t) >= TLB_ENTRIES_NUM
                    /\ \A j \in 2..n : t[j] = s[j-1]
      /\ ~TLBFull => /\ Len(t) = n + 1
                     /\ \A j \in 2..(n+1) : t[j] = s[j-1]
  BY <1>1, <1>2, MissStack
<1>4. /\ n \in Nat /\ n <= TLB_ENTRIES_NUM /\ TLB_ENTRIES_NUM \in Nat \ {0}
      /\ n <= Len(s) /\ Len(s) \in Nat /\ num_references \in Nat
      /\ TLBFull <=> n = TLB_ENTRIES_NUM
      /\ \A j \in 0..(n-1) : j \in Slots /\ TLB_cnts[j] < num_references
                             /\ TLB[j].page \in Pages
                             /\ frame_number[TLB[j].page] = TLB[j].frame
      /\ \A i, j \in 1..n : s[i] = s[j] => i = j
  BY TLBType DEF TLBFull
<1>5. (\A j \in 1..n : s[j] # p) /\ \A j \in 0..(n-1) : TLB[j].page # p
  BY <1>1, <1>2, MatchesIs
<1>6. /\ k \in 0..(m-1) /\ k \in Slots /\ m \in Nat /\ m \in 1..m /\ (m = n \/ m = n + 1)
      /\ IF m = n THEN TLB[k].page = s[m] ELSE k = n
  <2>1. CASE TLBFull
    <3>1. k \in 0..(n-1) /\ n \in 1..n /\ TLB[k].page = s[n]
      BY <2>1, OldestIs DEF MissSlot
    <3> QED  BY <1>1, <1>4, <2>1, <3>1
  <2>2. CASE ~TLBFull
    <3>1. k = n /\ n \in Slots /\ n + 1 \in Nat /\ n \in 0..((n+1)-1) /\ n + 1 \in 1..(n+1) /\ n + 1 # n
      BY <1>4, <2>2 DEF MissSlot, Slots
    <3>2. m = n + 1
      BY <1>1, <2>2
    <3> QED  BY <3>1, <3>2
  <2> QED  BY <2>1, <2>2
<1>7. /\ \A j \in 2..m : t[j] = s[j-1]
      /\ m = IF Len(t) < TLB_ENTRIES_NUM THEN Len(t) ELSE TLB_ENTRIES_NUM
      /\ \A j \in 0..(m-1) : j # k => j \in 0..(n-1)
  <2>1. CASE TLBFull
    <3>1. m = n
      BY <1>1, <2>1
    <3>2. ~(Len(t) < TLB_ENTRIES_NUM)
      <4>1. Len(t) \in Nat
        BY <1>3, RecencyType, LenProperties DEF StackInv, Stacked
      <4> QED  BY <1>3, <1>4, <2>1, <4>1
    <3> QED  BY <1>3, <1>4, <2>1, <3>1, <3>2
  <2>2. CASE ~TLBFull
    <3>1. m = n + 1 /\ k = n
      BY <1>1, <2>2 DEF MissSlot
    <3>2. (n + 1 < TLB_ENTRIES_NUM \/ n + 1 = TLB_ENTRIES_NUM) /\ \A j \in 0..n : j # n => j \in 0..(n-1)
      BY <1>4, <2>2
    <3>3. (n + 1) - 1 = n
      BY <1>4
    <3> QED  BY <1>3, <2>2, <3>1, <3>2, <3>3
  <2> QED  BY <2>1, <2>2
<1>8. TLB \in [Slots -> [page : Pages, frame : Frames]] /\ TLB_cnts \in [Slots -> 0..MaxRefs]
  BY DEF IInv, TypeOK
<1>9. frame_number'[p] \in Frames
  BY <1>2, <1>3 DEF PageType
<1>10. /\ TLB'[k].page = p /\ TLB'[k].frame = frame_number'[p]
       /\ \A j \in 0..(n-1) : j # k => TLB'[j] = TLB[j]
       /\ TLB' \in [Slots -> [page : Pages, frame : Frames]]
  BY <1>1, <1>2, <1>4, <1>6, <1>8, <1>9
<1>11. TLB_cnts'[k] = num_references /\ \A j \in 0..(n-1) : j # k => TLB_cnts'[j] = TLB_cnts[j]
  BY <1>1, <1>4, <1>6, <1>8
<1> HIDE DEF k, m, n, s, t
<1>12. Replaces(TLB, TLB', n, m, s, t, k, m)
  <2>1. \A j \in 2..m : j <= m
    BY <1>6
  <2> QED  BY <1>3, <1>4, <1>5, <1>6, <1>7, <1>10, <2>1 DEF Replaces
<1>13. Holds(TLB, n, s) /\ Stamped(TLB, TLB_cnts, n, s)
  BY DEF IInv, TLBInv, n, s
<1>14. Holds(TLB', m, t)
  BY <1>12, <1>13, HoldsMoves
<1>15. Stamped(TLB', TLB_cnts', m, t)
  BY <1>4, <1>7, <1>11, <1>12, <1>13, StampedMoves
<1>16. ASSUME NEW j \in 0..(m-1)
       PROVE  /\ TLB_cnts'[j] < num_references + 1
              /\ frame_number'[TLB'[j].page] = TLB'[j].frame
  <2>1. CASE j = k
    BY <1>4, <1>10, <1>11, <2>1
  <2>2. CASE j # k
    <3>1. j \in 0..(n-1)
      BY <1>7, <2>2
    <3>2. TLB_cnts[j] \in 0..MaxRefs /\ MaxRefs \in Nat
      BY <1>4, <1>8, <3>1, SizeAssumption
    <3>3. TLB_cnts[j] < num_references + 1
      BY <1>4, <3>1, <3>2
    <3>4. frame_number'[TLB[j].page] = TLB[j].frame
      BY <1>3, <1>4, <1>5, <3>1
    <3> QED  BY <1>10, <1>11, <2>2, <3>1, <3>3, <3>4
  <2> QED  BY <2>1, <2>2
<1>17. TLBInv'
  BY <1>7, <1>14, <1>15, <1>16 DEF TLBInv, m, t
<1>18. num_page_faults' = num_page_faults + 1 \/ UNCHANGED num_page_faults
  BY <1>1 DEF PageFault, InPageTable
<1>19. CountInv' /\ num_references' \in 0..MaxRefs /\ num_page_faults' \in 0..MaxRefs
       /\ num_TLB_hits' \in 0..MaxRefs /\ num_references \in 0..MaxRefs
  BY <1>1, <1>18, Counting DEF CountInv
<1>20. TypeOK'
  <2>1. links' \in Links
    BY <1>3 DEF StackInv, Stacked
  <2>2. TLB_cnts' \in [Slots -> 0..MaxRefs]
    BY <1>1, <1>8, <1>19
  <2>3. free_TLB_index' \in 0..TLB_ENTRIES_NUM
    <3>1. m \in 0..TLB_ENTRIES_NUM
      <4>1. m <= TLB_ENTRIES_NUM
        BY <1>1, <1>4 DEF n, m
      <4> QED  BY <1>4, <1>6, <4>1
    <3> QED  BY <3>1 DEF m
  <2>4. free_frame_list' \in Seq(Frames)
    BY <1>3 DEF FrameInv
  <2> QED  BY <1>3, <1>10, <1>19, <2>1, <2>2, <2>3, <2>4 DEF TypeOK, Links, PageType
<1>21. reply' = <<a, p, OffsetOf(a)>>
  <2>1. valid'[p]
    <3>1. t[1] = p /\ 1 \in 1..Len(t)
      BY <1>3
    <3> QED  BY <1>2, <1>3, <3>1 DEF StackInv, t
  <2>2. memory'[frame_number'[p]] = p
    BY <1>2, <1>3, <2>1 DEF FrameInv
  <2> QED  BY <1>1, <1>9, <2>2, ReplyIs DEF p
<1> QED  BY <1>3, <1>17, <1>19, <1>20, <1>21 DEF IInv, p

-----------------------------------------------------------------------------
\* At the start the stack and the TLB are empty and every frame is free.
LEMMA InitInv == Init => IInv
<1> SUFFICES ASSUME Init  PROVE IInv
  OBVIOUS
<1>1. /\ NUM_FRAMES \in Nat /\ TLB_ENTRIES_NUM \in Nat \ {0} /\ NUM_FRAMES >= TLB_ENTRIES_NUM
      /\ PAGE_TABLE_ENTRIES_NUM \in Nat \ {0} /\ MaxRefs \in Nat
  BY SizeAssumption
<1>2. /\ 0 \in Pages /\ 0 \in Frames /\ 0 \in 0..MaxRefs /\ 0 \in 0..TLB_ENTRIES_NUM
  BY <1>1 DEF Pages, Frames
<1>3. links \in Links /\ links.next[pgs_top] = pgs_bottom /\ links.prev[pgs_bottom] = pgs_top
  BY Ends DEF Init, Links
<1>4. Stacked(links, <<>>)
  <2>1. /\ <<>> \in Seq(Pages) /\ Len(<<>>) = 0
    OBVIOUS
  <2>2. Once(<<>>)
    BY DEF Once
  <2>3. At(<<>>, 0) = pgs_top /\ At(<<>>, 0 + 1) = pgs_bottom
    BY DEF At
  <2>4. \A k \in 0..Len(<<>>) : k = 0
    OBVIOUS
  <2>5. Linked(links, <<>>)
    BY <1>3, <2>3, <2>4 DEF Linked
  <2> QED  BY <1>3, <2>1, <2>2, <2>5 DEF Stacked
<1>5. Recency = <<>> /\ Len(Recency) = 0
  <2>1. Len(<<>>) = 0 /\ Len(<<>>) <= NUM_FRAMES
    BY <1>1
  <2> QED  BY <1>4, <2>1, FollowedIs DEF Recency
<1>6. StackInv
  <2>1. \A p \in Pages : ~valid[p]
    BY DEF Init
  <2>2. ~\E k \in 1..Len(Recency) : TRUE
    BY <1>5
  <2> QED  BY <1>1, <1>4, <1>5, <2>1, <2>2 DEF StackInv
<1>7. /\ free_frame_list \in Seq(Frames) /\ Len(free_frame_list) = NUM_FRAMES
      /\ \A k \in 1..NUM_FRAMES : free_frame_list[k] = k - 1
  <2>1. \A k \in 1..NUM_FRAMES : k - 1 \in Frames
    BY <1>1 DEF Frames
  <2>2. free_frame_list \in [1..NUM_FRAMES -> Frames] /\ \A k \in 1..NUM_FRAMES : free_frame_list[k] = k - 1
    BY <2>1 DEF Init
  <2> QED  BY <1>1, <2>2
<1>8. FrameInv
  <2>1. \A p \in Pages : ~valid[p]
    BY DEF Init
  <2>2. Len(free_frame_list) + Len(Recency) = NUM_FRAMES
    BY <1>1, <1>5, <1>7
  <2>3. \A j, k \in 1..Len(free_frame_list) : free_frame_list[j] = free_frame_list[k] => j = k
    BY <1>1, <1>7
  <2> QED  BY <1>7, <2>1, <2>2, <2>3 DEF FrameInv
<1>9. TLBInv
  <2>1. free_TLB_index = 0
    BY DEF Init
  <2>2. 0..(free_TLB_index - 1) = {} /\ 1..free_TLB_index = {}
    BY <2>1
  <2>3. free_TLB_index = IF Len(Recency) < TLB_ENTRIES_NUM THEN Len(Recency) ELSE TLB_ENTRIES_NUM
    BY <1>1, <1>5, <2>1
  <2> QED  BY <2>2, <2>3 DEF TLBInv, Holds, Stamped
<1>10. CountInv
  BY DEF Init, CountInv
<1>11. TypeOK
  BY <1>2, <1>3, <1>7 DEF Init, TypeOK, Links
<1> QED  BY <1>6, <1>8, <1>9, <1>10, <1>11 DEF IInv

\* Nothing happens to the invariant when nothing happens.
LEMMA UnchangedInv == IInv /\ UNCHANGED vars => IInv'
  BY DEF IInv, TypeOK, StackInv, FrameInv, TLBInv, CountInv, Recency, vars, pageVars, tlbVars

\* Every step keeps the invariant.
LEMMA StepInv == IInv /\ [Next]_vars => IInv'
<1> SUFFICES ASSUME IInv, [Next]_vars  PROVE IInv'
  OBVIOUS
<1>1. ASSUME NEW a \in Addresses, Translate(a)  PROVE IInv'
  BY <1>1, HitKeeps, MissKeeps DEF Translate
<1>2. CASE EndOfFile
  BY <1>2, UnchangedInv DEF EndOfFile
<1>3. CASE UNCHANGED vars
  BY <1>3, UnchangedInv
<1> QED  BY <1>1, <1>2, <1>3 DEF Next

\* The invariant, with its types, holds in every reachable state, for every size of
\* the page table, the TLB, the memory and the pages, and every input file.
THEOREM TypeCorrect == Spec => []TypeOK
<1>1. Init => IInv
  BY InitInv
<1>2. IInv /\ [Next]_vars => IInv'
  BY StepInv
<1>3. IInv => TypeOK
  BY DEF IInv
<1> QED  BY <1>1, <1>2, <1>3, PTL DEF Spec

\* The stack has no page twice, so it has as many as are valid.
LEMMA StackFollows == IInv => StackWellFormed
<1> SUFFICES ASSUME IInv  PROVE StackWellFormed
  OBVIOUS
<1> DEFINE s == Recency
<1>1. /\ s \in Seq(Pages) /\ Len(s) \in Nat /\ DOMAIN s = 1..Len(s) /\ s \in [1..Len(s) -> Pages]
      /\ Once(s) /\ Stacked(links, s)
      /\ \A p \in Pages : valid[p] <=> \E k \in 1..Len(s) : s[k] = p
  BY RecencyType, LenProperties DEF IInv, StackInv
<1> HIDE DEF s
<1>2. {s[k] : k \in DOMAIN s} = Resident
  BY <1>1 DEF Resident
<1>3. Cardinality(Resident) = Len(s)
  <2>1. s \in Bijection(1..Len(s), Resident)
    <3>1. s \in [1..Len(s) -> Resident]
      BY <1>1, <1>2
    <3>2. \A q \in Resident : \E k \in 1..Len(s) : s[k] = q
      BY <1>1 DEF Resident
    <3> QED  BY <1>1, <3>1, <3>2 DEF Bijection, Injection, Surjection, IsInjective, Once
  <2> QED  BY <1>1, <2>1, FS_CountingElements DEF ExistsBijection
<1>4. ASSUME NEW q \in Resident \cup {pgs_top}  PROVE links.prev[links.next[q]] = q
  <2>1. \E k \in 0..Len(s) : At(s, k) = q
    <3>1. CASE q = pgs_top
      BY <1>1, <3>1, AtIs
    <3>2. CASE q \in Resident
      <4>1. PICK k \in 1..Len(s) : s[k] = q
        BY <1>1, <3>2 DEF Resident
      <4>2. k \in 0..Len(s) /\ At(s, k) = q
        BY <1>1, <4>1, AtIs
      <4> QED  BY <4>2
    <3> QED  BY <1>4, <3>1, <3>2
  <2> QED  BY <1>1, <2>1 DEF Stacked, Linked
<1> QED  BY <1>2, <1>3, <1>4 DEF StackWellFormed, s

\* The page stack stays a doubly linked list of exactly the valid pages, through
\* all the pointer assignments of get_free_frame, page_fault and the two hits.
THEOREM StackStaysWellFormed == Spec => []StackWellFormed
<1>1. Init => IInv
  BY InitInv
<1>2. IInv /\ [Next]_vars => IInv'
  BY StepInv
<1>3. IInv => StackWellFormed
  BY StackFollows
<1> QED  BY <1>1, <1>2, <1>3, PTL DEF Spec

\* What TLBInv says, without the time stamps.
LEMMA TopFollows == IInv => TLBIsTopOfStack
<1> SUFFICES ASSUME IInv  PROVE TLBIsTopOfStack
  OBVIOUS
<1>1. /\ \A k \in 0..(free_TLB_index - 1) : \E j \in 1..free_TLB_index : TLB[k].page = Recency[j]
      /\ \A j \in 1..free_TLB_index : \E k \in 0..(free_TLB_index - 1) : TLB[k].page = Recency[j]
  BY DEF IInv, TLBInv, Holds
<1>2. {TLB[k].page : k \in 0..(free_TLB_index - 1)} = {Recency[k] : k \in 1..free_TLB_index}
  <2> DEFINE s == Recency
  <2>1. /\ \A k \in 0..(free_TLB_index - 1) : \E j \in 1..free_TLB_index : TLB[k].page = s[j]
        /\ \A j \in 1..free_TLB_index : \E k \in 0..(free_TLB_index - 1) : TLB[k].page = s[j]
    BY <1>1
  <2> HIDE DEF s
  <2>2. {TLB[k].page : k \in 0..(free_TLB_index - 1)} = {s[k] : k \in 1..free_TLB_index}
    BY <2>1
  <2> QED  BY <2>2 DEF s
<1> QED  BY <1>2, TLBType DEF TLBIsTopOfStack

\* The TLB, with its time stamps, and the page stack, with its pointers, never
\* disagree about which pages were used last: no entry of an evicted page is left.
THEOREM TLBStaysOnTop == Spec => []TLBIsTopOfStack
<1>1. Init => IInv
  BY InitInv
<1>2. IInv /\ [Next]_vars => IInv'
  BY StepInv
<1>3. IInv => TLBIsTopOfStack
  BY TopFollows
<1> QED  BY <1>1, <1>2, <1>3, PTL DEF Spec

-----------------------------------------------------------------------------
(* The manager is a pager. *)

\* A hit, wherever the frame is found, is a hit of the pager.
LEMMA HitMaps ==
  ASSUME IInv, NEW p, NEW i \in 1..Len(Recency), Recency[i] = p,
         Recency' = ToFront(Recency, i), UNCHANGED num_page_faults
  PROVE  Paging!Hit(p)
<1>1. DOMAIN Recency = 1..Len(Recency)
  BY RecencyType, LenProperties DEF IInv
<1>2. Recency' = <<p>> \o Paging!RemoveAt(Recency, i)
  BY DEF ToFront, Paging!RemoveAt
<1> QED  BY <1>1, <1>2 DEF Paging!Hit

\* A page fault is a fault of the pager.
LEMMA FaultMaps ==
  ASSUME IInv, NEW p \in Pages, PageFault(p)
  PROVE  Paging!Fault(p)
<1>1. Recency' = Pushed(Kept, p) /\ ~valid[p] /\ num_page_faults' = num_page_faults + 1
  BY FaultStack DEF PageFault
<1>2. \A k \in 1..Len(Recency) : Recency[k] # p
  BY <1>1 DEF IInv, StackInv
<1>3. ~Paging!Contains(Recency, p)
  BY <1>2 DEF Paging!Contains
<1>4. Kept = IF Len(Recency) = NUM_FRAMES THEN Paging!Front(Recency) ELSE Recency
  BY EvictIs DEF Kept, Popped, Paging!Front
<1> QED  BY <1>1, <1>3, <1>4 DEF Paging!Fault, Pushed

\* Every translation is a read of the pager.
LEMMA TranslateMaps ==
  ASSUME IInv, NEW a \in Addresses, Translate(a)
  PROVE  Paging!Next
<1>1. num_references < MaxRefs /\ num_references' = num_references + 1 /\ (TLBHit(a) \/ TLBMiss(a))
  BY DEF Translate
<1>2. PageOf(a) \in Pages
  BY AddressIs
<1>3. reply' = <<a, PageOf(a), OffsetOf(a)>>
  BY <1>1, HitKeeps, MissKeeps
<1>4. Paging!Hit(PageOf(a)) \/ Paging!Fault(PageOf(a))
  <2>1. CASE TLBHit(a)
    BY <1>1, <2>1, HitKeeps, HitMaps
  <2>2. CASE TLBMiss(a)
    <3>1. CASE PageFault(PageOf(a))
      BY <1>2, <3>1, FaultMaps
    <3>2. CASE InPageTable(PageOf(a))
      <4>1. /\ valid[PageOf(a)] /\ links' = MoveToFront(links, PageOf(a))
            /\ UNCHANGED num_page_faults /\ UNCHANGED valid
        BY <3>2 DEF InPageTable, pageVars
      <4>2. PICK i \in 1..Len(Recency) : Recency[i] = PageOf(a)
        BY <1>2, <4>1 DEF IInv, StackInv
      <4>3. Recency' = ToFront(Recency, i)
        BY <4>1, <4>2, HitStack
      <4> QED  BY <4>1, <4>2, <4>3, HitMaps
    <3> QED  BY <2>2, <3>1, <3>2 DEF TLBMiss
  <2> QED  BY <1>1, <2>1, <2>2
<1> QED  BY <1>3, <1>4 DEF Paging!Next, Paging!Read

\* The stack of an idle pager.
LEMMA InitMaps == Init => Paging!Init
<1> SUFFICES ASSUME Init  PROVE Paging!Init
  OBVIOUS
<1>1. \A p \in Pages : ~valid[p]
  BY DEF Init
<1>2. Recency \in Seq(Pages) /\ Len(Recency) \in Nat /\ \A k \in 1..Len(Recency) : valid[Recency[k]] /\ Recency[k] \in Pages
  BY InitInv, RecencyType DEF IInv
<1>3. Recency = <<>>
  <2>1. Len(Recency) = 0
    <3>1. 1 \in 1..Len(Recency) \/ Len(Recency) = 0
      BY <1>2
    <3> QED  BY <1>1, <1>2, <3>1
  <2> QED  BY <1>2, <2>1, EmptySeq
<1> QED  BY <1>3 DEF Init, Paging!Init

\* The manager implements demand paging with exact least-recently-used
\* replacement, and every read returns the byte of the backing store.
THEOREM ImplementsPaging == Spec => IsLRUPaging
<1>1. Init => IInv /\ Paging!Init
  BY InitInv, InitMaps
<1>2. IInv /\ [Next]_vars => IInv'
  BY StepInv
<1>3. IInv /\ [Next]_vars => [Paging!Next]_<<Recency, num_page_faults, reply>>
  <2> SUFFICES ASSUME IInv, [Next]_vars
               PROVE  Paging!Next \/ UNCHANGED <<Recency, num_page_faults, reply>>
    OBVIOUS
  <2>1. CASE UNCHANGED vars
    BY <2>1 DEF vars, Recency
  <2>2. CASE EndOfFile
    BY <2>2 DEF EndOfFile, vars, Recency
  <2>3. ASSUME NEW a \in Addresses, Translate(a)  PROVE Paging!Next
    BY <2>3, TranslateMaps
  <2> QED  BY <2>1, <2>2, <2>3 DEF Next
<1> QED  BY <1>1, <1>2, <1>3, PTL DEF Spec, IsLRUPaging, Paging!Spec

-----------------------------------------------------------------------------
(* The list programs: FCFS, shortest job first, by priority. *)

\* A sequence of tasks in which each comes before those with a larger key, and
\* before those with the same key that were added later.
Sorted(s, key) ==
  \A i, j \in 1..Len(s) : i < j =>
    key[s[i]] < key[s[j]] \/ (key[s[i]] = key[s[j]] /\ s[i] < s[j])

\* t is s with e in place p.
Inserted(s, p, e, t) ==
  /\ Len(t) = Len(s) + 1
  /\ \A i \in 1..Len(t) : t[i] = IF i < p THEN s[i] ELSE IF i = p THEN e ELSE s[i-1]

\* Place p of s is behind the keys up to c; key2 has a key more.
Fits(s, p, key, c) ==
  /\ \A i \in 1..(p-1) : key[s[i]] <= c
  /\ p <= Len(s) => key[s[p]] > c
Keyed(n, key) == key \in [1..n -> Int]
Extended(n, key, key2) == \A i \in 1..n : key2[i] = key[i]

\* The key of each task.
KeyOf == [t \in DOMAIN tasks |-> Lists!Key(t)]

\* Every task added is in the order once, and the order is that of the keys.
ListInv ==
  /\ tasks \in Seq(Lists!Task)
  /\ list \in Seq(DOMAIN tasks) /\ ran \in Seq(DOMAIN tasks)
  /\ scheduling \in BOOLEAN /\ (~scheduling => ran = <<>>)
  /\ Len(Lists!Order) = Len(tasks)
  /\ Sorted(Lists!Order, KeyOf)

\* The scheduler that is not linked has no list.
ListsInv == policy \in Lists!Policies => ListInv

-----------------------------------------------------------------------------
\* What the assumption says of the constants.
LEMMA SchedulingConstants ==
  /\ MIN_PRIORITY \in Nat \ {0} /\ MAX_PRIORITY \in Nat /\ MIN_PRIORITY <= MAX_PRIORITY
  /\ TIME \in Nat \ {0} /\ MaxTasks \in Nat \ {0}
  /\ Priorities \subseteq Int /\ Bursts \subseteq Nat
  BY SchedulingAssumption DEF Lists!Parameters, Rounds!Parameters

\* The fields of a task are numbers.
LEMMA TaskFields ==
  ASSUME NEW task \in Lists!Task
  PROVE  task.burst \in Nat /\ task.priority \in Int
<1>1. task \in [priority : MIN_PRIORITY..MAX_PRIORITY, burst : Bursts]
  BY DEF Lists!Task
<1>2. task.priority \in MIN_PRIORITY..MAX_PRIORITY /\ task.burst \in Bursts
  BY <1>1
<1>3. Bursts \subseteq Nat /\ MIN_PRIORITY \in Int /\ MAX_PRIORITY \in Int
  BY SchedulingConstants
<1>4. task.burst \in Nat
  BY <1>2, <1>3
<1>5. \A x \in MIN_PRIORITY..MAX_PRIORITY : x \in Int
  BY <1>3
<1> QED  BY <1>2, <1>4, <1>5

\* InsertAt, place by place.
LEMMA InsertedAt ==
  ASSUME NEW S, NEW s \in Seq(S), NEW e \in S, NEW p \in 1..(Len(s) + 1)
  PROVE  Lists!InsertAt(s, p, e) \in Seq(S) /\ Inserted(s, p, e, Lists!InsertAt(s, p, e))
<1> DEFINE a == SubSeq(s, 1, p - 1)
           b == SubSeq(s, p, Len(s))
<1>1. Len(s) \in Nat
  BY LenProperties
<1>2. a \in Seq(S) /\ Len(a) = p - 1 /\ \A k \in 1..(p-1) : a[k] = s[k]
  BY <1>1, SubSeqProperties
<1>3. b \in Seq(S) /\ Len(b) = Len(s) - p + 1 /\ \A k \in 1..(Len(s)-p+1) : b[k] = s[p+k-1]
  BY <1>1, SubSeqProperties
<1>4. Lists!InsertAt(s, p, e) = (a \o <<e>>) \o b
  BY DEF Lists!InsertAt
<1> HIDE DEF a, b
<1> DEFINE c == a \o <<e>>
<1>5. c \in Seq(S) /\ Len(c) = p /\ \A k \in 1..p : c[k] = IF k < p THEN a[k] ELSE e
  BY <1>1, <1>2
<1> HIDE DEF c
<1> DEFINE t == c \o b
<1>6. /\ t \in Seq(S) /\ Len(t) = Len(s) + 1
      /\ \A k \in 1..(Len(s)+1) : t[k] = IF k <= p THEN c[k] ELSE b[k - p]
  <2>1. /\ t \in Seq(S) /\ Len(t) = Len(c) + Len(b)
        /\ \A k \in 1..(Len(c) + Len(b)) : t[k] = IF k <= Len(c) THEN c[k] ELSE b[k - Len(c)]
    BY <1>3, <1>5, ConcatProperties
  <2>2. Len(c) + Len(b) = Len(s) + 1 /\ Len(c) = p
    BY <1>1, <1>3, <1>5
  <2> HIDE DEF t
  <2> QED  BY <2>1, <2>2
<1>7. Lists!InsertAt(s, p, e) = t
  BY <1>4 DEF c
<1> HIDE DEF t
<1>8. ASSUME NEW k \in 1..(Len(s)+1)
      PROVE  t[k] = IF k < p THEN s[k] ELSE IF k = p THEN e ELSE s[k-1]
  <2>1. CASE k < p
    <3>1. k \in 1..(p-1) /\ k \in 1..p /\ k <= p
      BY <1>1, <2>1
    <3> QED  BY <1>2, <1>5, <1>6, <2>1, <3>1
  <2>2. CASE k = p
    <3>1. k \in 1..p /\ k <= p /\ ~(k < p)
      BY <1>1, <2>2
    <3> QED  BY <1>5, <1>6, <2>2, <3>1
  <2>3. CASE k > p
    <3>1. k - p \in 1..(Len(s)-p+1) /\ p + (k - p) - 1 = k - 1 /\ ~(k <= p) /\ ~(k < p) /\ k # p
      BY <1>1, <2>3
    <3> QED  BY <1>3, <1>6, <3>1
  <2> QED  BY <1>1, <2>1, <2>2, <2>3
<1> QED  BY <1>6, <1>7, <1>8 DEF Inserted

\* So is Append.
LEMMA InsertedLast ==
  ASSUME NEW S, NEW s \in Seq(S), NEW e \in S
  PROVE  Append(s, e) \in Seq(S) /\ Inserted(s, Len(s) + 1, e, Append(s, e))
<1>1. Len(s) \in Nat
  BY LenProperties
<1>2. Append(s, e) \in Seq(S) /\ Len(Append(s, e)) = Len(s) + 1
      /\ \A k \in 1..Len(s) : Append(s, e)[k] = s[k]
      /\ Append(s, e)[Len(s) + 1] = e
  BY AppendProperties
<1> QED  BY <1>1, <1>2 DEF Inserted

\* A new task behind those with at most its key, in front of the others, leaves
\* the sequence sorted.
LEMMA InsertSorted ==
  ASSUME NEW n \in Nat, NEW s \in Seq(1..n), NEW m \in Nat, m = Len(s),
         NEW p \in 1..(m+1), NEW t,
         Inserted(s, p, n + 1, t),
         NEW key, Keyed(n, key), NEW key2, Keyed(n + 1, key2),
         Extended(n, key, key2), Sorted(s, key), Fits(s, p, key, key2[n+1])
  PROVE  Sorted(t, key2)
<1>1. Len(s) \in Nat /\ \A i \in 1..Len(s) : s[i] \in 1..n /\ s[i] \in Int /\ s[i] < n + 1
                        /\ key2[s[i]] = key[s[i]] /\ key[s[i]] \in Int
  <2>1. Len(s) \in Nat
    BY LenProperties
  <2>2. \A i \in 1..Len(s) : s[i] \in 1..n
    BY LenProperties
  <2>3. \A i \in 1..n : i \in Int /\ i < n + 1 /\ key[i] \in Int /\ key2[i] = key[i]
    BY DEF Extended, Keyed
  <2> QED  BY <2>1, <2>2, <2>3
<1>0. p \in Int /\ p >= 1 /\ p <= Len(s) + 1 /\ n \in Int
  BY <1>1
<1>2. Len(t) = Len(s) + 1 /\
      \A i \in 1..Len(t) : t[i] = IF i < p THEN s[i] ELSE IF i = p THEN n + 1 ELSE s[i-1]
  BY DEF Inserted
<1>3. key2[n+1] \in Int
  BY <1>0 DEF Keyed
<1>4. \A i, j \in 1..Len(s) : i < j =>
        key2[s[i]] < key2[s[j]] \/ (key2[s[i]] = key2[s[j]] /\ s[i] < s[j])
  <2> TAKE i, j \in 1..Len(s)
  <2>1. key2[s[i]] = key[s[i]] /\ key2[s[j]] = key[s[j]]
    BY <1>0, <1>1
  <2> QED  BY <2>1 DEF Sorted
<1>5. \A i \in p..Len(s) : key2[s[i]] > key2[n+1]
  <2> TAKE i \in p..Len(s)
  <2>1. p \in 1..Len(s) /\ i \in 1..Len(s) /\ (i = p \/ p < i)
    BY <1>0, <1>1
  <2>2. key2[s[p]] > key2[n+1]
    BY <1>0, <1>1, <2>1 DEF Fits
  <2>3. p < i => (key2[s[p]] < key2[s[i]] \/ key2[s[p]] = key2[s[i]])
    BY <1>4, <2>1
  <2>4. key2[s[p]] \in Int /\ key2[s[i]] \in Int
    BY <1>0, <1>1, <2>1
  <2> DEFINE a == key2[s[p]]
             b == key2[s[i]]
             c == key2[n+1]
  <2>5. a \in Int /\ b \in Int /\ c \in Int /\ a > c /\ (i = p => a = b) /\ (p < i => a < b \/ a = b)
    BY <1>3, <2>2, <2>3, <2>4
  <2> HIDE DEF a, b, c
  <2>6. b > c
    BY <1>0, <2>1, <2>5
  <2> QED  BY <2>6 DEF b, c
<1>6. \A i \in 1..(p-1) : key2[s[i]] <= key2[n+1] /\ s[i] < n + 1 /\ key2[s[i]] \in Int
  <2> TAKE i \in 1..(p-1)
  <2>1. i \in 1..Len(s)
    BY <1>0, <1>1
  <2> QED  BY <1>0, <1>1, <2>1 DEF Fits
<1> SUFFICES ASSUME NEW i \in 1..Len(t), NEW j \in 1..Len(t), i < j
             PROVE  key2[t[i]] < key2[t[j]] \/ (key2[t[i]] = key2[t[j]] /\ t[i] < t[j])
  BY DEF Sorted
<1> DEFINE at(k) == IF k < p THEN k ELSE k - 1
<1>7. ASSUME NEW k \in 1..Len(t), k # p
      PROVE  at(k) \in 1..Len(s) /\ t[k] = s[at(k)] /\ (k < p <=> at(k) \in 1..(p-1)) /\ (k > p <=> at(k) \in p..Len(s))
  <2>1. k \in Int /\ (k < p \/ k > p)
    BY <1>0, <1>2, <1>7
  <2>2. t[k] = s[at(k)]
    BY <1>0, <1>2, <1>7, <2>1
  <2>3. at(k) \in 1..Len(s) /\ (k < p <=> at(k) \in 1..(p-1)) /\ (k > p <=> at(k) \in p..Len(s))
    BY <1>0, <1>1, <1>2, <2>1
  <2> QED  BY <2>2, <2>3
<1>8. CASE j = p
  <2>1. i # p /\ at(i) \in 1..(p-1) /\ t[i] = s[at(i)] /\ t[j] = n + 1
    BY <1>0, <1>1, <1>2, <1>7, <1>8
  <2> HIDE DEF at
  <2>2. key2[s[at(i)]] <= key2[n+1] /\ s[at(i)] < n + 1 /\ key2[s[at(i)]] \in Int
    BY <1>6, <2>1
  <2>3. key2[t[i]] <= key2[t[j]] /\ t[i] < t[j] /\ key2[t[i]] \in Int /\ key2[t[j]] \in Int
    BY <1>3, <2>1, <2>2
  <2> QED  BY <2>3
<1>9. CASE i = p
  <2>1. j # p /\ at(j) \in p..Len(s) /\ t[j] = s[at(j)] /\ t[i] = n + 1
    BY <1>0, <1>1, <1>2, <1>7, <1>9
  <2>2. at(j) \in 1..Len(s)
    BY <1>7, <2>1
  <2> HIDE DEF at
  <2>3. key2[s[at(j)]] \in Int /\ key2[s[at(j)]] > key2[n+1]
    BY <1>0, <1>1, <1>5, <2>1, <2>2
  <2> QED  BY <1>3, <2>1, <2>3
<1>10. CASE i # p /\ j # p
  <2>1. at(i) < at(j)
    BY <1>0, <1>1, <1>2, <1>10
  <2>2. at(i) \in 1..Len(s) /\ at(j) \in 1..Len(s) /\ t[i] = s[at(i)] /\ t[j] = s[at(j)]
    BY <1>7, <1>10
  <2> HIDE DEF at
  <2>3. key2[s[at(i)]] < key2[s[at(j)]] \/
          (key2[s[at(i)]] = key2[s[at(j)]] /\ s[at(i)] < s[at(j)])
    BY <1>4, <2>1, <2>2
  <2> QED  BY <2>2, <2>3
<1> QED  BY <1>8, <1>9, <1>10

\* Where add() stops: behind the tasks with at most the new key.
LEMMA PlaceIs ==
  ASSUME NEW S, list \in Seq(S), NEW key \in [S -> Int], NEW new \in Int
  PROVE  LET p == Lists!BeforeFirstLarger(key, new)
         IN p \in 1..(Len(list) + 1) /\ Fits(list, p, key, new)
<1> DEFINE I == {i \in 1..Len(list) : key[list[i]] > new}
           m == Lists!Min(I)
           p == Lists!BeforeFirstLarger(key, new)
<1>1. Len(list) \in Nat /\ \A i \in 1..Len(list) : list[i] \in S /\ key[list[i]] \in Int
  BY LenProperties
<1>2. p = IF I # {} THEN IF m = 0 THEN Len(list) + 1 ELSE m ELSE Len(list) + 1
  BY DEF Lists!BeforeFirstLarger, Lists!SelectInSeq
<1>3. I # {} => m \in I /\ \A x \in I : m <= x
  <2> HAVE I # {}
  <2>1. I \subseteq Nat
    OBVIOUS
  <2>2. \E x \in I : \A y \in I : x <= y
    BY <2>1, LeastNumber
  <2> QED  BY <2>2 DEF Lists!Min
<1> HIDE DEF m, p
<1>4. CASE I = {}
  <2>1. p = Len(list) + 1 /\ \A i \in 1..Len(list) : ~(key[list[i]] > new)
    BY <1>2, <1>4
  <2>2. \A i \in 1..(p-1) : key[list[i]] <= new
    BY <1>1, <2>1
  <2> QED  BY <1>1, <2>1, <2>2 DEF p, Fits
<1>5. CASE I # {}
  <2>1. p = m /\ m \in 1..Len(list) /\ key[list[m]] > new /\ \A x \in I : m <= x
    BY <1>2, <1>3, <1>5
  <2>2. \A i \in 1..(p-1) : i \in 1..Len(list) /\ ~(m <= i)
    BY <1>1, <2>1
  <2>3. \A i \in 1..(p-1) : key[list[i]] <= new
    BY <1>1, <2>1, <2>2
  <2> QED  BY <1>1, <2>1, <2>3 DEF p, Fits
<1> QED  BY <1>4, <1>5

\* Every key is a number, and that of a task the field the policy looks at.
LEMMA KeyType ==
  ASSUME tasks \in Seq(Lists!Task), policy \in Lists!Policies
  PROVE  /\ KeyOf \in [DOMAIN tasks -> Int]
         /\ policy = "fcfs" => \A t \in DOMAIN tasks : KeyOf[t] = 0
         /\ policy = "sjf" => KeyOf = Lists!Column("burst")
         /\ policy = "priority" => KeyOf = Lists!Column("priority")
<1>1. \A t \in DOMAIN tasks : tasks[t] \in Lists!Task
  BY ElementOfSeq
<1>2. \A t \in DOMAIN tasks : tasks[t].burst \in Int /\ tasks[t].priority \in Int
  BY <1>1, TaskFields
<1>3. CASE policy = "fcfs"
  <2>1. \A t \in DOMAIN tasks : Lists!Key(t) = 0
    BY <1>3 DEF Lists!Key
  <2> QED  BY <1>3, <2>1 DEF KeyOf
<1>4. CASE policy = "sjf"
  <2>1. \A t \in DOMAIN tasks : Lists!Key(t) = tasks[t].burst
    BY <1>4 DEF Lists!Key
  <2> QED  BY <1>2, <1>4, <2>1 DEF KeyOf, Lists!Column
<1>5. CASE policy = "priority"
  <2>1. \A t \in DOMAIN tasks : Lists!Key(t) = tasks[t].priority
    BY <1>5 DEF Lists!Key
  <2> QED  BY <1>2, <1>5, <2>1 DEF KeyOf, Lists!Column
<1> QED  BY <1>3, <1>4, <1>5 DEF Lists!Policies

\* While the input is read, nothing has run.
LEMMA OrderIsList ==
  ASSUME ListInv, ~scheduling
  PROVE  Lists!Order = list
  BY ConcatEmptySeq DEF ListInv, Lists!Order

\* A task added where its key belongs.
LEMMA AddKeeps ==
  ASSUME ListInv, policy \in Lists!Policies, NEW task \in Lists!Task,
         NEW p \in 1..(Len(list) + 1), NEW list1 \in Seq(1..(Len(tasks) + 1)),
         Inserted(list, p, Len(tasks) + 1, list1), Lists!Add(task, list1),
         Fits(list, p, KeyOf, KeyOf'[Len(tasks) + 1])
  PROVE  ListInv'
<1> DEFINE n == Len(tasks)
<1>1. n \in Nat /\ DOMAIN tasks = 1..n
  BY LenProperties DEF ListInv
<1>2. /\ ~scheduling /\ scheduling' = scheduling /\ ran' = ran /\ policy' = policy
      /\ tasks' = Append(tasks, task) /\ list' = list1
  BY DEF Lists!Add
<1>3. /\ tasks' \in Seq(Lists!Task) /\ Len(tasks') = n + 1 /\ DOMAIN tasks' = 1..(n+1)
      /\ \A t \in 1..n : tasks'[t] = tasks[t]
  BY <1>1, <1>2, AppendProperties, LenProperties DEF ListInv
<1>4. Len(list) = n /\ Sorted(list, KeyOf) /\ list \in Seq(1..n)
  BY <1>1, <1>2, OrderIsList DEF ListInv
<1>5. KeyOf \in [1..n -> Int]
  BY <1>1, KeyType DEF ListInv
<1>6. KeyOf' \in [1..(n+1) -> Int]
  <2>1. tasks' \in Seq(Lists!Task) /\ policy' \in Lists!Policies
    BY <1>2, <1>3
  <2>2. \A t \in DOMAIN tasks' : tasks'[t] \in Lists!Task
    BY <2>1, ElementOfSeq
  <2>3. \A t \in DOMAIN tasks' : tasks'[t].burst \in Int /\ tasks'[t].priority \in Int
    BY <2>2, TaskFields
  <2>4. \A t \in DOMAIN tasks' : Lists!Key(t)' \in Int
    BY <2>1, <2>3 DEF Lists!Key, Lists!Policies
  <2>5. KeyOf' = [t \in 1..(n+1) |-> Lists!Key(t)']
    BY <1>3 DEF KeyOf
  <2>6. \A t \in 1..(n+1) : Lists!Key(t)' \in Int
    BY <1>3, <2>4
  <2> QED  BY <2>5, <2>6
<1>7. \A t \in 1..n : KeyOf'[t] = KeyOf[t]
  <2> TAKE t \in 1..n
  <2>1. t \in DOMAIN tasks /\ t \in DOMAIN tasks' /\ tasks'[t] = tasks[t]
    BY <1>1, <1>3
  <2>2. Lists!Key(t)' = Lists!Key(t)
    BY <1>2, <2>1 DEF Lists!Key
  <2> QED  BY <2>1, <2>2 DEF KeyOf
<1> DEFINE key2 == KeyOf'
<1> HIDE DEF n, key2
<1>8. Sorted(list1, key2)
  <2> DEFINE key == KeyOf
  <2>1. Keyed(n, key) /\ Keyed(n + 1, key2)
    BY <1>5, <1>6 DEF key2, Keyed
  <2>2. Extended(n, key, key2) /\ Fits(list, p, key, key2[n+1]) /\ Sorted(list, key)
    BY <1>4, <1>7 DEF n, key2, Extended
  <2>3. Inserted(list, p, n + 1, list1)
    BY DEF n
  <2>4. Len(list) \in Nat /\ p \in 1..(Len(list) + 1) /\ list \in Seq(1..n) /\ n \in Nat
    BY <1>1, <1>4 DEF n
  <2> HIDE DEF key
  <2> QED  BY <2>1, <2>2, <2>3, <2>4, InsertSorted
<1>9. Lists!Order' = list1 /\ list1 \in Seq(DOMAIN tasks') /\ Len(list1) = n + 1
  BY <1>2, <1>3, <1>4, ConcatEmptySeq DEF ListInv, Lists!Order, Inserted, n
<1>10. ran' \in Seq(DOMAIN tasks') /\ ran' = <<>> /\ scheduling' = FALSE
  BY <1>2, EmptySeq DEF ListInv
<1>11. Sorted(Lists!Order', KeyOf')
  BY <1>8, <1>9 DEF key2
<1> QED  BY <1>2, <1>3, <1>9, <1>10, <1>11 DEF ListInv, n

\* The three add()s put a task where its key belongs.
LEMMA AddFCFSKeeps ==
  ASSUME ListInv, NEW task \in Lists!Task, Lists!AddFCFS(task)
  PROVE  ListInv'
<1> DEFINE n == Len(tasks)
<1>1. n \in Nat /\ DOMAIN tasks = 1..n
  BY LenProperties DEF ListInv
<1>2. policy = "fcfs" /\ policy \in Lists!Policies /\ Lists!Add(task, Append(list, n + 1))
  BY DEF Lists!AddFCFS, Lists!New, Lists!Policies
<1>3. list \in Seq(1..(n+1)) /\ Len(list) \in Nat /\ \A i \in 1..Len(list) : list[i] \in DOMAIN tasks
  <2>1. list \in Seq(1..n) /\ 1..n \subseteq 1..(n+1)
    BY <1>1 DEF ListInv
  <2> QED  BY <1>1, <2>1, SeqMonotonic, LenProperties
<1>4. /\ Append(list, n + 1) \in Seq(1..(n+1))
      /\ Inserted(list, Len(list) + 1, n + 1, Append(list, n + 1))
  BY <1>1, <1>3, InsertedLast
<1>5. \A i \in 1..Len(list) : KeyOf[list[i]] = 0
  BY <1>2, <1>3, KeyType DEF ListInv
<1>6. KeyOf'[n + 1] = 0
  <2>1. policy' = "fcfs" /\ tasks' = Append(tasks, task)
    BY <1>2 DEF Lists!Add
  <2>2. n + 1 \in DOMAIN tasks'
    BY <1>1, <2>1, AppendProperties, LenProperties DEF ListInv
  <2> QED  BY <2>1, <2>2 DEF KeyOf, Lists!Key
<1>7. Len(list) + 1 \in 1..(Len(list) + 1) /\ ~(Len(list) + 1 <= Len(list)) /\ Len(list) + 1 - 1 = Len(list)
  BY <1>3
<1>8. /\ \A i \in 1..(Len(list) + 1 - 1) : KeyOf[list[i]] <= KeyOf'[n + 1]
      /\ Len(list) + 1 <= Len(list) => KeyOf[list[Len(list) + 1]] > KeyOf'[n + 1]
  BY <1>5, <1>6, <1>7
<1> DEFINE p == Len(list) + 1
           list1 == Append(list, n + 1)
<1>9. /\ p \in 1..(Len(list) + 1) /\ list1 \in Seq(1..(n+1)) /\ Lists!Add(task, list1)
      /\ Inserted(list, p, n + 1, list1)
      /\ Fits(list, p, KeyOf, KeyOf'[n + 1])
  BY <1>2, <1>4, <1>7, <1>8 DEF Fits
<1> HIDE DEF p, list1
<1> QED  BY <1>2, <1>9, AddKeeps

\* A task added behind those with at most its key.
LEMMA AddByKeyKeeps ==
  ASSUME ListInv, policy \in Lists!Policies, NEW task \in Lists!Task, NEW new,
         new = KeyOf'[Len(tasks) + 1], new \in Int,
         Lists!Add(task, Lists!InsertAt(list, Lists!BeforeFirstLarger(KeyOf, new), Len(tasks) + 1))
  PROVE  ListInv'
<1> DEFINE n == Len(tasks)
           p == Lists!BeforeFirstLarger(KeyOf, new)
<1>1. n \in Nat /\ DOMAIN tasks = 1..n
  BY LenProperties DEF ListInv
<1>2. list \in Seq(DOMAIN tasks) /\ list \in Seq(1..(n+1))
  <2>1. list \in Seq(1..n) /\ 1..n \subseteq 1..(n+1)
    BY <1>1 DEF ListInv
  <2> QED  BY <1>1, <2>1, SeqMonotonic
<1>3. KeyOf \in [DOMAIN tasks -> Int]
  BY KeyType DEF ListInv
<1>4. p \in 1..(Len(list) + 1) /\ Fits(list, p, KeyOf, new)
  BY <1>2, <1>3, PlaceIs
<1> HIDE DEF p
<1>5. /\ Lists!InsertAt(list, p, n + 1) \in Seq(1..(n+1))
      /\ Inserted(list, p, n + 1, Lists!InsertAt(list, p, n + 1))
  <2>1. n + 1 \in 1..(n+1)
    BY <1>1
  <2> QED  BY <1>2, <1>4, <2>1, InsertedAt
<1>6. Lists!Add(task, Lists!InsertAt(list, p, n + 1))
  BY DEF p
<1> QED  BY <1>4, <1>5, <1>6, AddKeeps

\* schedule_sjf.c and schedule_priority.c differ in the field.
LEMMA AddSortedKeeps ==
  ASSUME ListInv, NEW task \in Lists!Task,
         Lists!AddSJF(task) \/ Lists!AddPriority(task)
  PROVE  ListInv'
<1> DEFINE n == Len(tasks)
<1>1. n \in Nat /\ tasks' = Append(tasks, task) /\ policy' = policy
  BY LenProperties DEF ListInv, Lists!AddSJF, Lists!AddPriority, Lists!Add
<1>2. n + 1 \in DOMAIN tasks' /\ tasks'[n+1] = task
  BY <1>1, AppendProperties, LenProperties DEF ListInv
<1>3. task.burst \in Int /\ task.priority \in Int
  BY TaskFields
<1>4. CASE Lists!AddSJF(task)
  <2>1. policy = "sjf" /\ policy \in Lists!Policies
    BY <1>4 DEF Lists!AddSJF, Lists!Policies
  <2>2. KeyOf = Lists!Column("burst")
    BY <2>1, KeyType DEF ListInv
  <2>3. KeyOf'[n+1] = task.burst
    BY <1>1, <1>2, <2>1 DEF KeyOf, Lists!Key
  <2>4. Lists!Add(task, Lists!InsertAt(list, Lists!BeforeFirstLarger(KeyOf, task.burst), n + 1))
    BY <1>4, <2>2 DEF Lists!AddSJF, Lists!New
  <2> QED  BY <1>3, <2>1, <2>3, <2>4, AddByKeyKeeps
<1>5. CASE Lists!AddPriority(task)
  <2>1. policy = "priority" /\ policy \in Lists!Policies
    BY <1>5 DEF Lists!AddPriority, Lists!Policies
  <2>2. KeyOf = Lists!Column("priority")
    BY <2>1, KeyType DEF ListInv
  <2>3. KeyOf'[n+1] = task.priority
    BY <1>1, <1>2, <2>1 DEF KeyOf, Lists!Key
  <2>4. Lists!Add(task, Lists!InsertAt(list, Lists!BeforeFirstLarger(KeyOf, task.priority), n + 1))
    BY <1>5, <2>2 DEF Lists!AddPriority, Lists!New
  <2> QED  BY <1>3, <2>1, <2>3, <2>4, AddByKeyKeeps
<1> QED  BY <1>4, <1>5

\* Running the first task moves it from the list to those that have run.
LEMMA RunKeeps ==
  ASSUME ListInv, policy \in Lists!Policies, Lists!RunFirst
  PROVE  ListInv' /\ Lists!Order' = Lists!Order
<1> DEFINE S == DOMAIN tasks
<1>1. /\ list # <<>> /\ scheduling' = scheduling /\ scheduling
      /\ ran' = Append(ran, Head(list)) /\ list' = Tail(list)
      /\ tasks' = tasks /\ policy' = policy
  BY DEF Lists!RunFirst
<1>2. list \in Seq(S) /\ ran \in Seq(S) /\ Head(list) \in S /\ Tail(list) \in Seq(S)
  BY <1>1, HeadTailProperties DEF ListInv
<1>3. ran' \in Seq(S) /\ list' \in Seq(S)
  BY <1>1, <1>2, AppendProperties
<1>4. Append(ran, Head(list)) \o Tail(list) = ran \o list
  <2>1. <<Head(list)>> \o Tail(list) = list
    BY <1>1, <1>2
  <2>2. Append(ran, Head(list)) = ran \o <<Head(list)>>
    BY <1>2, AppendIsConcat
  <2>3. <<Head(list)>> \in Seq(S)
    BY <1>2
  <2>4. (ran \o <<Head(list)>>) \o Tail(list) = ran \o (<<Head(list)>> \o Tail(list))
    BY <1>2, <2>3, ConcatAssociative
  <2> QED  BY <2>1, <2>2, <2>4
<1>5. Lists!Order' = Lists!Order
  BY <1>1, <1>4 DEF Lists!Order
<1>6. KeyOf' = KeyOf
  BY <1>1 DEF KeyOf, Lists!Key
<1> QED  BY <1>1, <1>3, <1>5, <1>6 DEF ListInv

\* What the order is made of stays.
LEMMA ListUnchanged ==
  ASSUME ListsInv, UNCHANGED <<policy, tasks, list, ran>>,
         scheduling' = scheduling \/ scheduling' = TRUE
  PROVE  ListsInv'
<1>1. Lists!Order' = Lists!Order /\ KeyOf' = KeyOf
  BY DEF Lists!Order, KeyOf, Lists!Key
<1> QED  BY <1>1 DEF ListsInv, ListInv

\* Every step keeps the order; a step of the other programs leaves the list alone.
LEMMA ListsStep ==
  ASSUME ListsInv, [DriverNext]_driverVars
  PROVE  ListsInv'
<1>1. CASE RunsLists
  <2>1. policy \in Lists!Policies /\ ListInv /\ Lists!Next
    BY <1>1 DEF RunsLists, ListsInv
  <2>2. ASSUME NEW task \in Lists!Task,
               Lists!AddFCFS(task) \/ Lists!AddSJF(task) \/ Lists!AddPriority(task)
        PROVE  ListsInv'
    BY <2>1, <2>2, AddFCFSKeeps, AddSortedKeeps DEF ListsInv
  <2>3. CASE Lists!StartSchedule
    BY <2>3, ListUnchanged DEF Lists!StartSchedule
  <2>4. CASE Lists!RunFirst
    BY <2>1, <2>4, RunKeeps DEF ListsInv
  <2>5. CASE Lists!Ended
    BY <2>5, ListUnchanged DEF Lists!Ended, Lists!vars
  <2> QED  BY <2>1, <2>2, <2>3, <2>4, <2>5 DEF Lists!Next
<1>2. CASE RunsRounds
  <2>1. UNCHANGED <<policy, tasks, list, ran, scheduling>>
    BY <1>2 DEF RunsRounds, listVars, Rounds!Next, Rounds!AddRR, Rounds!AddPriorityRR,
       Rounds!InvalidPriority, Rounds!ReadLine, Rounds!Scheduler, Rounds!StartSchedule,
       Rounds!Complete, Rounds!Rotate, Rounds!Charge, Rounds!NextLevel, Rounds!Exit, Rounds!vars
  <2> QED  BY <2>1, ListUnchanged
<1>3. CASE UNCHANGED driverVars
  BY <1>3, ListUnchanged DEF driverVars, listVars
<1> QED  BY <1>1, <1>2, <1>3 DEF DriverNext

\* Before the first line there is nothing to order.
LEMMA ListsStart == DriverInit => ListsInv
<1> SUFFICES ASSUME DriverInit, policy \in Lists!Policies  PROVE ListInv
  BY DEF ListsInv
<1>1. tasks = <<>> /\ list = <<>> /\ scheduling = FALSE /\ ran = <<>>
  BY DEF DriverInit, Lists!Fresh
<1>2. Lists!Order = <<>> /\ Len(Lists!Order) = 0 /\ Len(tasks) = 0
  BY <1>1 DEF Lists!Order
<1>3. tasks \in Seq(Lists!Task) /\ list \in Seq(DOMAIN tasks) /\ ran \in Seq(DOMAIN tasks)
  BY <1>1, EmptySeq
<1>4. Sorted(<<>>, KeyOf)
  BY <1>2 DEF Sorted
<1> QED  BY <1>1, <1>2, <1>3, <1>4 DEF ListInv

\* So the list is always in order.
LEMMA ListsInvariance == DriverSpec => []ListsInv
<1>1. ListsInv /\ [DriverNext]_driverVars => ListsInv'
  BY ListsStep
<1> QED  BY <1>1, ListsStart, PTL DEF DriverSpec

\* The sorted order is the order of the policy.
LEMMA OrderRange ==
  ASSUME ListInv
  PROVE  Lists!Order \in Seq(DOMAIN tasks)
  BY ConcatProperties DEF ListInv, Lists!Order

\* schedule_sjf.c:52, and the same for the other two: tasks with the same key run in
\* the order in which they were added, whatever the order of the input.
THEOREM TiesRunInOrder == DriverSpec => []FifoAmongEquals
<1>1. ASSUME ListsInv  PROVE FifoAmongEquals
  <2> SUFFICES ASSUME policy \in Lists!Policies  PROVE Lists!FifoAmongEquals
    BY DEF FifoAmongEquals
  <2>1. Sorted(Lists!Order, KeyOf) /\ Lists!Order \in Seq(DOMAIN tasks)
    BY <1>1, OrderRange DEF ListsInv, ListInv
  <2>2. \A i \in 1..Len(Lists!Order) : KeyOf[Lists!Order[i]] = Lists!Key(Lists!Order[i])
    BY <2>1, ElementOfSeq, LenProperties DEF KeyOf
  <2>3. \A i, j \in 1..Len(Lists!Order) : i < j =>
          \/ KeyOf[Lists!Order[i]] < KeyOf[Lists!Order[j]]
          \/ KeyOf[Lists!Order[i]] = KeyOf[Lists!Order[j]] /\ Lists!Order[i] < Lists!Order[j]
    BY <2>1 DEF Sorted
  <2> QED  BY <2>2, <2>3 DEF Lists!FifoAmongEquals
<1> QED  BY <1>1, ListsInvariance, PTL

-----------------------------------------------------------------------------
(* Totals: the sum of v[1], ..., v[n]. *)

\* g adds up the values of v.
AddsUp(n, v, g) ==
  /\ g \in [0..n -> Int] /\ g[0] = 0
  /\ \A k \in 1..n : g[k] = g[k-1] + v[k]
Total(n, v) == (CHOOSE g : AddsUp(n, v, g))[n]

\* The sums exist.
LEMMA TotalExists ==
  ASSUME NEW n \in Nat, NEW v \in [1..n -> Int]
  PROVE  /\ \E g : AddsUp(n, v, g) /\ Total(n, v) = g[n]
         /\ Total(n, v) \in Int
<1> DEFINE step == [k \in 1..n |-> [x \in Int |-> x + v[k]]]
           t == CHOOSE g : AddsUp(n, v, g)
<1>1. n \in Nat /\ 0 \in Int /\ step \in Steps(n, Int)
  BY DEF Steps
<1>2. \A k \in 1..n : \A x \in Int : step[k][x] = x + v[k]
  OBVIOUS
<1> HIDE DEF step
<1>3. PICK f : Recursive(f, n, Int, 0, step)
  BY <1>1, RecursionExists
<1>4. f \in [0..n -> Int] /\ f[0] = 0 /\ \A k \in 1..n : f[k] = step[k][f[k-1]]
  BY <1>3 DEF Recursive
<1>5. \A k \in 1..n : k - 1 \in 0..n
  OBVIOUS
<1>6. AddsUp(n, v, f)
  BY <1>2, <1>4, <1>5 DEF AddsUp
<1>7. AddsUp(n, v, t)
  BY <1>6
<1>8. Total(n, v) = t[n]
  BY DEF Total
<1> HIDE DEF t
<1>9. n \in 0..n
  OBVIOUS
<1> QED  BY <1>7, <1>8, <1>9 DEF AddsUp

\* Whatever adds up the values ends with their total.
LEMMA TotalIs ==
  ASSUME NEW n \in Nat, NEW v \in [1..n -> Int], NEW g, AddsUp(n, v, g)
  PROVE  Total(n, v) = g[n]
<1>1. PICK f : AddsUp(n, v, f) /\ Total(n, v) = f[n]
  BY TotalExists
<1>2. SameSteps(n, f, g)
  BY <1>1 DEF SameSteps, AddsUp
<1>3. n \in 0..n
  OBVIOUS
<1> QED  BY <1>1, <1>2, <1>3, RecursionUnique

\* One value more.
Raised(n, v, w, x, d) ==
  w[x] = v[x] + d /\ \A k \in 1..n : k # x => w[k] = v[k]

\* The total is raised by as much.
LEMMA TotalRaised ==
  ASSUME NEW n \in Nat, NEW v \in [1..n -> Int], NEW w, w \in [1..n -> Int],
         NEW x \in 1..n, NEW d \in Int, Raised(n, v, w, x, d)
  PROVE  Total(n, w) = Total(n, v) + d
<1>1. PICK g : AddsUp(n, v, g) /\ Total(n, v) = g[n]
  BY TotalExists
<1>2. PICK h : AddsUp(n, w, h) /\ Total(n, w) = h[n]
  BY TotalExists
<1> DEFINE T == {k \in 0..n : h[k] = g[k] + (IF k < x THEN 0 ELSE d)}
<1>3. /\ g \in [0..n -> Int] /\ h \in [0..n -> Int] /\ g[0] = 0 /\ h[0] = 0
      /\ \A k \in 1..n : g[k] = g[k-1] + v[k] /\ h[k] = h[k-1] + w[k]
  BY <1>1, <1>2 DEF AddsUp
<1>4. 0 \in T
  <2>1. 0 < x /\ 0 \in 0..n
    OBVIOUS
  <2> QED  BY <1>3, <2>1
<1>5. ASSUME NEW k \in 1..n, k - 1 \in T  PROVE k \in T
  <2>1. k \in 0..n /\ k - 1 \in 0..n /\ k \in Int /\ x \in Int
    OBVIOUS
  <2>2. h[k-1] = g[k-1] + (IF k - 1 < x THEN 0 ELSE d)
    BY <1>5
  <2>3. g[k] = g[k-1] + v[k] /\ h[k] = h[k-1] + w[k]
    BY <1>3
  <2>4. g[k-1] \in Int /\ h[k-1] \in Int /\ v[k] \in Int /\ w[k] \in Int
    BY <1>3, <2>1
  <2>5. CASE k < x
    <3>1. k # x /\ k - 1 < x
      BY <2>1, <2>5
    <3>2. w[k] = v[k]
      BY <3>1 DEF Raised
    <3>3. h[k] = g[k] + 0
      BY <2>2, <2>3, <2>4, <3>1, <3>2
    <3> QED  BY <2>1, <2>5, <3>3
  <2>6. CASE k = x
    <3>1. k - 1 < x /\ ~(k < x)
      BY <2>1, <2>6
    <3>2. w[k] = v[k] + d
      BY <2>6 DEF Raised
    <3>3. h[k] = g[k] + d
      BY <2>2, <2>3, <2>4, <3>1, <3>2
    <3> QED  BY <2>1, <3>1, <3>3
  <2>7. CASE k > x
    <3>1. k # x /\ ~(k - 1 < x) /\ ~(k < x)
      BY <2>1, <2>7
    <3>2. w[k] = v[k]
      BY <3>1 DEF Raised
    <3>3. h[k] = g[k] + d
      BY <2>2, <2>3, <2>4, <3>1, <3>2
    <3> QED  BY <2>1, <3>1, <3>3
  <2> QED  BY <2>1, <2>5, <2>6, <2>7
<1> HIDE DEF T
<1>6. n \in T
  <2>1. 0..n \subseteq T
    BY <1>4, <1>5, BoundedInduction
  <2> QED  BY <2>1
<1> QED  BY <1>1, <1>2, <1>6 DEF T

\* Larger values, a larger total.
Below(n, v, w) == \A k \in 1..n : v[k] <= w[k]

\* The total of values that are nowhere larger is not larger.
LEMMA TotalMonotone ==
  ASSUME NEW n \in Nat, NEW v \in [1..n -> Int], NEW w, w \in [1..n -> Int], Below(n, v, w)
  PROVE  Total(n, v) <= Total(n, w)
<1>1. PICK g : AddsUp(n, v, g) /\ Total(n, v) = g[n]
  BY TotalExists
<1>2. PICK h : AddsUp(n, w, h) /\ Total(n, w) = h[n]
  BY TotalExists
<1> DEFINE T == {k \in 0..n : g[k] <= h[k]}
<1>3. /\ g \in [0..n -> Int] /\ h \in [0..n -> Int] /\ g[0] = 0 /\ h[0] = 0
      /\ \A k \in 1..n : g[k] = g[k-1] + v[k] /\ h[k] = h[k-1] + w[k]
  BY <1>1, <1>2 DEF AddsUp
<1>4. 0 \in T
  BY <1>3
<1>5. ASSUME NEW k \in 1..n, k - 1 \in T  PROVE k \in T
  <2>1. k \in 0..n /\ k - 1 \in 0..n
    OBVIOUS
  <2>2. g[k-1] <= h[k-1] /\ v[k] <= w[k]
    BY <1>5 DEF Below
  <2>3. g[k] = g[k-1] + v[k] /\ h[k] = h[k-1] + w[k]
    BY <1>3
  <2>4. g[k-1] \in Int /\ h[k-1] \in Int /\ v[k] \in Int /\ w[k] \in Int
    BY <1>3, <2>1
  <2>5. g[k] <= h[k]
    BY <2>2, <2>3, <2>4
  <2> QED  BY <2>1, <2>5
<1> HIDE DEF T
<1>6. n \in T
  <2>1. 0..n \subseteq T
    BY <1>4, <1>5, BoundedInduction
  <2> QED  BY <2>1
<1> QED  BY <1>1, <1>2, <1>6 DEF T

-----------------------------------------------------------------------------
(* Orders of the tasks 1..n. *)

Permutation(n, s) == s \in [1..n -> 1..n] /\ \A i, j \in 1..n : s[i] = s[j] => i = j

\* Every task is somewhere in the order.
LEMMA EveryTask ==
  ASSUME NEW n \in Nat, NEW s, Permutation(n, s)
  PROVE  \A t \in 1..n : \E i \in 1..n : s[i] = t
<1>1. IsFiniteSet(1..n)
  BY FS_Interval
<1>2. s \in Injection(1..n, 1..n)
  BY DEF Permutation, Injection, IsInjective
<1>3. s \in Surjection(1..n, 1..n)
  BY <1>1, <1>2, FS_Injection
<1> QED  BY <1>3 DEF Surjection

\* The weights of the tasks in the first k places, 0 for the others.
Front(n, s, k, w) == [t \in 1..n |-> IF \E i \in 1..k : s[i] = t THEN w[t] ELSE 0]

\* They are numbers.
LEMMA FrontType ==
  ASSUME NEW n \in Nat, NEW s, NEW k, NEW w \in [1..n -> Int]
  PROVE  Front(n, s, k, w) \in [1..n -> Int]
<1>1. \A t \in 1..n : w[t] \in Int /\ 0 \in Int
  OBVIOUS
<1> QED  BY <1>1 DEF Front

\* One place more: the weight of the task there.
LEMMA FrontGrows ==
  ASSUME NEW n \in Nat, NEW s, Permutation(n, s), NEW k \in 1..n, NEW w \in [1..n -> Int]
  PROVE  Total(n, Front(n, s, k, w)) = Total(n, Front(n, s, k - 1, w)) + w[s[k]]
<1> DEFINE x == s[k]
           f == Front(n, s, k, w)
           g == Front(n, s, k - 1, w)
<1>1. x \in 1..n /\ \A i \in 1..n : s[i] = x => i = k
  BY DEF Permutation
<1>2. f \in [1..n -> Int] /\ g \in [1..n -> Int]
  BY FrontType
<1>3. w[x] \in Int
  BY <1>1
<1>4. /\ \A i \in 1..k : (i \in 1..(k-1) \/ i = k) /\ i \in 1..n
      /\ \A i \in 1..(k-1) : i \in 1..k /\ i \in 1..n /\ i # k
      /\ k \in 1..k
  OBVIOUS
<1> HIDE DEF x
<1>5. f[x] = w[x] /\ g[x] = 0
  BY <1>1, <1>4 DEF Front, x
<1>6. \A t \in 1..n : t # x => f[t] = g[t]
  <2> SUFFICES ASSUME NEW t \in 1..n, t # x  PROVE f[t] = g[t]
    OBVIOUS
  <2>1. (\E i \in 1..k : s[i] = t) <=> \E i \in 1..(k-1) : s[i] = t
    BY <1>4 DEF x
  <2> QED  BY <2>1 DEF Front
<1> HIDE DEF f, g
<1>7. Raised(n, g, f, x, w[x])
  BY <1>3, <1>5, <1>6 DEF Raised
<1>8. Total(n, f) = Total(n, g) + w[x]
  BY ZenonT(30), <1>1, <1>2, <1>3, <1>7, TotalRaised
<1> QED  BY <1>8 DEF f, g, x

\* Before the first place there is nothing.
LEMMA FrontEmpty ==
  ASSUME NEW n \in Nat, NEW s, NEW o, NEW w
  PROVE  Front(n, s, 0, w) = Front(n, o, 0, w)
<1>1. \A i \in 1..0 : FALSE
  OBVIOUS
<1> QED  BY <1>1 DEF Front

\* b in the order s, and w is b less something that is the same for all.
Along(n, b, s) == [k \in 1..n |-> b[s[k]]]
Shifted(n, b, w, c) ==
  c \in Int /\ w \in [1..n -> Int] /\ \A t \in 1..n : w[t] = b[t] - c

\* Two orders of the tasks, and what b adds up to along them.
Compared(n, b, s, f, o, g) ==
  /\ Permutation(n, s) /\ AddsUp(n, Along(n, b, s), f)
  /\ Permutation(n, o) /\ AddsUp(n, Along(n, b, o), g)

\* Two orders differ after k places by what their first k tasks weigh.
LEMMA SumsDiffer ==
  ASSUME NEW n \in Nat, NEW b \in [1..n -> Int], NEW w, NEW c, Shifted(n, b, w, c),
         NEW s, NEW f, NEW o, NEW g, Compared(n, b, s, f, o, g)
  PROVE  \A k \in 0..n : f[k] - g[k] = Total(n, Front(n, s, k, w)) - Total(n, Front(n, o, k, w))
<1> DEFINE F(k) == Total(n, Front(n, s, k, w))
           G(k) == Total(n, Front(n, o, k, w))
           T == {k \in 0..n : f[k] - g[k] = F(k) - G(k)}
<1>0. /\ w \in [1..n -> Int] /\ c \in Int /\ Permutation(n, s) /\ Permutation(n, o)
      /\ AddsUp(n, Along(n, b, s), f) /\ AddsUp(n, Along(n, b, o), g)
  BY DEF Shifted, Compared
<1>1. \A k \in 0..n : F(k) \in Int /\ G(k) \in Int
  BY <1>0, FrontType, TotalExists
<1>2. F(0) = G(0)
  BY FrontEmpty
<1>3. \A k \in 1..n : F(k) = F(k-1) + w[s[k]] /\ G(k) = G(k-1) + w[o[k]]
  BY <1>0, FrontGrows
<1>4. \A k \in 1..n : s[k] \in 1..n /\ o[k] \in 1..n
  BY <1>0 DEF Permutation
<1> HIDE DEF F, G
<1>5. /\ f \in [0..n -> Int] /\ g \in [0..n -> Int] /\ f[0] = 0 /\ g[0] = 0
      /\ \A k \in 1..n : f[k] = f[k-1] + b[s[k]] /\ g[k] = g[k-1] + b[o[k]]
  BY <1>0 DEF AddsUp, Along
<1>6. 0 \in T
  <2>1. 0 \in 0..n
    OBVIOUS
  <2>2. F(0) - G(0) = 0
    BY <1>1, <1>2, <2>1
  <2> QED  BY <1>5, <2>1, <2>2
<1>7. ASSUME NEW k \in 1..n, k - 1 \in T  PROVE k \in T
  <2>1. k \in 0..n /\ k - 1 \in 0..n
    OBVIOUS
  <2>2. f[k-1] - g[k-1] = F(k-1) - G(k-1)
    BY <1>7
  <2>3. w[s[k]] = b[s[k]] - c /\ w[o[k]] = b[o[k]] - c
    BY <1>4 DEF Shifted
  <2>4. /\ f[k-1] \in Int /\ g[k-1] \in Int /\ F(k-1) \in Int /\ G(k-1) \in Int
        /\ b[s[k]] \in Int /\ b[o[k]] \in Int
    BY <1>1, <1>4, <1>5, <2>1
  <2>5. /\ f[k] = f[k-1] + b[s[k]] /\ g[k] = g[k-1] + b[o[k]]
        /\ F(k) = F(k-1) + w[s[k]] /\ G(k) = G(k-1) + w[o[k]]
    BY <1>3, <1>5
  <2>6. f[k] - g[k] = F(k) - G(k)
    <3>1. (f[k-1] + b[s[k]]) - (g[k-1] + b[o[k]]) =
            (F(k-1) + (b[s[k]] - c)) - (G(k-1) + (b[o[k]] - c))
      <4> DEFINE p == f[k-1]
                 q == g[k-1]
                 x == b[s[k]]
                 y == b[o[k]]
                 i == F(k-1)
                 j == G(k-1)
      <4>1. /\ p \in Int /\ q \in Int /\ x \in Int /\ y \in Int /\ i \in Int /\ j \in Int
            /\ c \in Int /\ p - q = i - j
        BY <1>0, <2>2, <2>4
      <4> HIDE DEF p, q, x, y, i, j
      <4>2. (p + x) - (q + y) = (i + (x - c)) - (j + (y - c))
        BY <4>1
      <4> QED  BY <4>2 DEF p, q, x, y, i, j
    <3> QED  BY <2>3, <2>5, <3>1
  <2> QED  BY <2>1, <2>6
<1> HIDE DEF T
<1>8. 0..n \subseteq T
  BY <1>6, <1>7, BoundedInduction
<1> QED  BY <1>8 DEF T, F, G

\* s runs the tasks by ascending b.
Ascending(n, b, s) == \A i, j \in 1..n : i <= j => b[s[i]] <= b[s[j]]

\* In ascending order, no task starts later than the task in its place in any order.
LEMMA StartsFirst ==
  ASSUME NEW n \in Nat, NEW b \in [1..n -> Int],
         NEW s, NEW f, NEW o, NEW g, Compared(n, b, s, f, o, g), Ascending(n, b, s)
  PROVE  \A k \in 1..n : f[k-1] <= g[k-1]
<1> TAKE k \in 1..n
<1> DEFINE c == b[s[k]]
           w == [t \in 1..n |-> b[t] - c]
           F == Front(n, s, k - 1, w)
           G == Front(n, o, k - 1, w)
<1>0. /\ Permutation(n, s) /\ AddsUp(n, Along(n, b, s), f) /\ AddsUp(n, Along(n, b, o), g)
  BY DEF Compared
<1>1. k - 1 \in 0..n /\ c \in Int /\ \A t \in 1..n : b[t] \in Int
  BY <1>0 DEF Permutation
<1> HIDE DEF c
<1>2. w \in [1..n -> Int] /\ Shifted(n, b, w, c)
  BY <1>1 DEF Shifted
<1>3. f[k-1] - g[k-1] = Total(n, F) - Total(n, G)
  <2> HIDE DEF w
  <2>1. \A m \in 0..n : f[m] - g[m] = Total(n, Front(n, s, m, w)) - Total(n, Front(n, o, m, w))
    <3> HIDE DEF F, G
    <3> QED  BY <1>1, <1>2, SumsDiffer
  <2> QED  BY <1>1, <2>1
<1>4. F \in [1..n -> Int] /\ G \in [1..n -> Int]
  BY <1>2, FrontType
<1>5. Below(n, F, G)
  <2> SUFFICES ASSUME NEW t \in 1..n  PROVE F[t] <= G[t]
    BY DEF Below
  <2>1. w[t] = b[t] - c /\ w[t] \in Int
    BY <1>1
  <2> HIDE DEF w
  <2>2. (F[t] = w[t] \/ F[t] = 0) /\ (G[t] = w[t] \/ G[t] = 0)
    BY DEF Front
  <2>3. CASE \E i \in 1..(k-1) : s[i] = t
    <3>1. PICK i \in 1..(k-1) : s[i] = t
      BY <2>3
    <3>2. i \in 1..n /\ i <= k
      OBVIOUS
    <3>3. b[t] <= c
      BY <3>1, <3>2 DEF Ascending, c
    <3>4. w[t] <= 0
      BY <1>1, <2>1, <3>3
    <3>5. F[t] = w[t]
      BY <2>3 DEF Front
    <3> QED  BY <2>1, <2>2, <3>4, <3>5
  <2>4. CASE ~\E i \in 1..(k-1) : s[i] = t
    <3>1. PICK i \in 1..n : s[i] = t
      <4>1. \A x \in 1..n : \E i \in 1..n : s[i] = x
        BY SMTT(30), <1>0, EveryTask
      <4> QED  BY <4>1
    <3>2. k <= i
      BY <2>4, <3>1
    <3>3. c <= b[t]
      BY <3>1, <3>2 DEF Ascending, c
    <3>4. 0 <= w[t]
      BY <1>1, <2>1, <3>3
    <3>5. F[t] = 0
      BY <2>4 DEF Front
    <3> QED  BY <2>1, <2>2, <3>4, <3>5
  <2> QED  BY <2>3, <2>4
<1>6. Total(n, F) <= Total(n, G)
  BY <1>4, <1>5, TotalMonotone
<1>7. Total(n, F) \in Int /\ Total(n, G) \in Int
  BY <1>4, TotalExists
<1>8. f[k-1] \in Int /\ g[k-1] \in Int
  BY <1>0, <1>1 DEF AddsUp
<1> HIDE DEF F, G
<1> QED  BY <1>3, <1>6, <1>7, <1>8

-----------------------------------------------------------------------------
(* TotalWait adds up the starts. *)

\* The cardinality that ListScheduling names.
LEMMA ListsCardinality == ASSUME NEW S  PROVE Lists!Cardinality(S) = Cardinality(S)
  BY DEF Lists!Cardinality, Cardinality

Length == Len(tasks)
BurstOf == [t \in 1..Length |-> tasks[t].burst]

\* The bursts are numbers.
LEMMA BurstsAre ==
  ASSUME ListInv
  PROVE  Length \in Nat /\ DOMAIN tasks = 1..Length /\ BurstOf \in [1..Length -> Int]
<1>1. tasks \in Seq(Lists!Task)
  BY DEF ListInv
<1>2. /\ Length \in Nat /\ DOMAIN tasks = 1..Length
      /\ \A t \in 1..Length : tasks[t] \in Lists!Task
  BY <1>1, LenProperties, ElementOfSeq DEF Length
<1>3. \A t \in 1..Length : tasks[t].burst \in Int
  BY <1>2, TaskFields
<1> QED  BY <1>2, <1>3 DEF BurstOf

\* The sum of what TotalWait adds up, for any order of the tasks.
LEMMA TotalWaitIs ==
  ASSUME ListInv, NEW o, Permutation(Length, o), Len(o) = Length,
         NEW f, AddsUp(Length, Along(Length, BurstOf, o), f)
  PROVE  Lists!TotalWait(o) = Total(Length, [k \in 1..Length |-> f[k-1]])
<1> DEFINE n == Length
           v == [k \in 1..n |-> f[k-1]]
           start == CHOOSE start : start = [k \in 1..(n + 1) |->
                      IF k = 1 THEN 0 ELSE start[k-1] + tasks[o[k-1]].burst]
           sum == CHOOSE sum : sum = [k \in 0..n |-> IF k = 0 THEN 0 ELSE sum[k-1] + start[k]]
           h == [k \in 1..(n + 1) |-> f[k-1]]
<1>1. /\ n \in Nat /\ f \in [0..n -> Int] /\ f[0] = 0
      /\ \A k \in 1..n : f[k] = f[k-1] + tasks[o[k]].burst /\ o[k] \in 1..n
  <2>1. \A k \in 1..n : o[k] \in 1..n
    BY DEF Permutation
  <2> QED  BY <2>1, BurstsAre DEF AddsUp, Along, BurstOf
<1>2. Lists!TotalWait(o) = sum[n]
  BY DEF Lists!TotalWait
<1> HIDE DEF n
<1>3. \A k \in 1..(n + 1) : h[k] = (IF k = 1 THEN 0 ELSE h[k-1] + tasks[o[k-1]].burst)
  <2> TAKE k \in 1..(n + 1)
  <2>1. CASE k = 1
    <3>1. h[1] = f[1-1] /\ 1 - 1 = 0
      BY <2>1
    <3> QED  BY <1>1, <2>1, <3>1
  <2>2. CASE k # 1
    <3>1. k - 1 \in 1..n /\ k - 1 \in 1..(n + 1)
      BY <1>1, <2>2
    <3>2. h[k] = f[k-1] /\ h[k-1] = f[(k-1)-1]
      BY <3>1
    <3> QED  BY <1>1, <2>2, <3>1, <3>2
  <2> QED  BY <2>1, <2>2
<1>4. h = [k \in 1..(n + 1) |-> IF k = 1 THEN 0 ELSE h[k-1] + tasks[o[k-1]].burst]
  <2>1. h = [k \in 1..(n + 1) |-> h[k]]
    OBVIOUS
  <2> HIDE DEF h
  <2> QED  BY <1>3, <2>1
<1> HIDE DEF h
<1>5. start = [k \in 1..(n + 1) |-> IF k = 1 THEN 0 ELSE start[k-1] + tasks[o[k-1]].burst]
  BY <1>4
<1> HIDE DEF start
<1>6. \A k \in 1..n : start[k] = v[k]
  <2> DEFINE a == [k \in 0..n |-> start[k+1]]
  <2>1. /\ \A k \in 0..n : k + 1 \in 1..(n + 1) /\ a[k] = start[k+1]
        /\ \A k \in 1..n : k - 1 \in 0..n /\ k \in 0..n /\ (k - 1) + 1 = k /\ k + 1 # 1 /\ (k + 1) - 1 = k
        /\ 0 \in 0..n /\ 0 + 1 = 1
    BY <1>1
  <2> HIDE DEF a
  <2>2. a[0] = 0
    BY <1>5, <2>1
  <2>3. \A k \in 1..n : a[k] = a[k-1] + tasks[o[k]].burst
    <3> TAKE k \in 1..n
    <3>1. k + 1 \in 1..(n + 1) /\ k + 1 # 1 /\ (k + 1) - 1 = k /\ a[k] = start[k+1] /\ a[k-1] = start[k]
      BY <2>1
    <3>2. start[k+1] = start[(k+1)-1] + tasks[o[(k+1)-1]].burst
      BY <1>5, <3>1
    <3> QED  BY <3>1, <3>2
  <2>4. SameSteps(n, a, f)
    BY <1>1, <2>2, <2>3 DEF SameSteps
  <2>5. \A k \in 0..n : a[k] = f[k]
    BY <1>1, <2>4, RecursionUnique
  <2> QED  BY <2>1, <2>5
<1>7. v \in [1..n -> Int]
  <2>1. \A k \in 1..n : k - 1 \in 0..n
    BY <1>1
  <2> QED  BY <1>1, <2>1
<1> HIDE DEF v
<1>8. PICK g : AddsUp(n, v, g) /\ Total(n, v) = g[n]
  BY <1>1, <1>7, TotalExists
<1>9. g \in [0..n -> Int] /\ g[0] = 0 /\ \A k \in 1..n : g[k] = g[k-1] + start[k]
  BY <1>6, <1>8 DEF AddsUp
<1>10. g = [k \in 0..n |-> IF k = 0 THEN 0 ELSE g[k-1] + start[k]]
  <2>1. \A k \in 0..n : k = 0 \/ (k # 0 /\ k \in 1..n)
    BY <1>1
  <2>2. \A k \in 0..n : g[k] = IF k = 0 THEN 0 ELSE g[k-1] + start[k]
    BY <1>9, <2>1
  <2> QED  BY <1>9, <2>2
<1>11. sum = [k \in 0..n |-> IF k = 0 THEN 0 ELSE sum[k-1] + start[k]]
  BY <1>10
<1> HIDE DEF sum
<1>12. SameSteps(n, sum, g)
  <2>1. 0 \in 0..n /\ \A k \in 1..n : k \in 0..n /\ k # 0
    BY <1>1
  <2>2. sum[0] = 0 /\ \A k \in 1..n : sum[k] = sum[k-1] + start[k]
    BY <1>11, <2>1
  <2> QED  BY <1>9, <2>2 DEF SameSteps
<1>13. sum[n] = g[n]
  <2>1. \A k \in 0..n : sum[k] = g[k]
    BY <1>1, <1>12, RecursionUnique
  <2>2. n \in 0..n
    BY <1>1
  <2> QED  BY <2>1, <2>2
<1> QED  BY <1>2, <1>8, <1>13 DEF n, v

\* The schedule orders the tasks, by ascending burst.
LEMMA OrderIsAscending ==
  ASSUME ListInv, policy = "sjf"
  PROVE  /\ Permutation(Length, Lists!Order) /\ Len(Lists!Order) = Length
         /\ Ascending(Length, BurstOf, Lists!Order)
<1> DEFINE s == Lists!Order
           n == Length
<1>1. n \in Nat /\ DOMAIN tasks = 1..n /\ BurstOf \in [1..n -> Int]
  BY BurstsAre
<1>2. s \in Seq(1..n) /\ Len(s) = n /\ Sorted(s, KeyOf)
  BY <1>1, OrderRange DEF ListInv, Length
<1>3. s \in [1..n -> 1..n]
  BY <1>2, LenProperties
<1>4. \A t \in 1..n : KeyOf[t] = BurstOf[t] /\ BurstOf[t] \in Int
  BY <1>1 DEF KeyOf, Lists!Key, BurstOf
<1> HIDE DEF s, n
<1>5. \A i, j \in 1..n : i < j => \/ BurstOf[s[i]] < BurstOf[s[j]]
                                  \/ BurstOf[s[i]] = BurstOf[s[j]] /\ s[i] < s[j]
  BY SMTT(30), <1>2, <1>3, <1>4 DEF Sorted
<1>6. \A i \in 1..n : s[i] \in Int /\ BurstOf[s[i]] \in Int /\ i \in Int
  BY <1>1, <1>3, <1>4
<1>7. \A i, j \in 1..n : s[i] = s[j] => i = j
  <2> TAKE i, j \in 1..n
  <2>1. i < j \/ j < i \/ i = j
    BY <1>6
  <2> QED  BY <1>5, <1>6, <2>1
<1>8. \A i, j \in 1..n : i <= j => BurstOf[s[i]] <= BurstOf[s[j]]
  <2> TAKE i, j \in 1..n
  <2>1. i <= j => i < j \/ i = j
    BY <1>6
  <2> QED  BY <1>5, <1>6, <2>1
<1> QED  BY <1>2, <1>3, <1>7, <1>8 DEF Permutation, Ascending, s, n

\* What SetToSeqs takes for the orders of the tasks.
LEMMA OrdersAre ==
  ASSUME ListInv, NEW o \in Lists!SetToSeqs(DOMAIN tasks)
  PROVE  Permutation(Length, o) /\ Len(o) = Length
<1>1. Length \in Nat /\ DOMAIN tasks = 1..Length
  BY BurstsAre
<1>2. Lists!Cardinality(DOMAIN tasks) = Length
  BY <1>1, FS_Interval, ListsCardinality
<1>3. o \in [1..Length -> 1..Length] /\ \A i, j \in 1..Length : i # j => o[i] # o[j]
  BY <1>1, <1>2 DEF Lists!SetToSeqs
<1>4. o \in Seq(1..Length) /\ Len(o) = Length
  BY <1>1, <1>3
<1> QED  BY <1>3, <1>4 DEF Permutation

\* No other order of the same tasks makes them wait less in total.
THEOREM ShortestFirstWaitsLeast == DriverSpec => []SJFWaitsLeast
<1>1. ASSUME ListsInv  PROVE SJFWaitsLeast
  <2> SUFFICES ASSUME policy = "sjf", NEW o \in Lists!SetToSeqs(DOMAIN tasks)
               PROVE  Lists!TotalWait(Lists!Order) <= Lists!TotalWait(o)
    BY DEF SJFWaitsLeast, Lists!SJFWaitsLeast
  <2> DEFINE s == Lists!Order
             n == Length
             b == BurstOf
  <2>1. ListInv
    BY <1>1 DEF ListsInv, Lists!Policies
  <2>2. n \in Nat /\ b \in [1..n -> Int]
    BY <2>1, BurstsAre
  <2>3. Permutation(n, s) /\ Len(s) = n /\ Ascending(n, b, s)
    BY <2>1, OrderIsAscending
  <2>4. Permutation(n, o) /\ Len(o) = n
    BY <2>1, OrdersAre
  <2> HIDE DEF s, n, b
  <2>5. Along(n, b, s) \in [1..n -> Int] /\ Along(n, b, o) \in [1..n -> Int]
    BY <2>2, <2>3, <2>4 DEF Along, Permutation
  <2>6. PICK f : AddsUp(n, Along(n, b, s), f)
    BY <2>2, <2>5, TotalExists
  <2>7. PICK g : AddsUp(n, Along(n, b, o), g)
    BY <2>2, <2>5, TotalExists
  <2> DEFINE F == [k \in 1..n |-> f[k-1]]
             G == [k \in 1..n |-> g[k-1]]
  <2>8. Lists!TotalWait(s) = Total(n, F) /\ Lists!TotalWait(o) = Total(n, G)
    BY <2>1, <2>3, <2>4, <2>6, <2>7, TotalWaitIs DEF n, b
  <2>9. \A k \in 1..n : f[k-1] <= g[k-1]
    <3>1. Compared(n, b, s, f, o, g)
      BY <2>3, <2>4, <2>6, <2>7 DEF Compared
    <3> QED  BY <2>2, <2>3, <3>1, StartsFirst
  <2>10. F \in [1..n -> Int] /\ G \in [1..n -> Int] /\ Below(n, F, G)
    <3>1. \A k \in 1..n : k - 1 \in 0..n
      BY <2>2
    <3> QED  BY <2>6, <2>7, <2>9, <3>1 DEF AddsUp, Below
  <2> HIDE DEF F, G
  <2>11. Total(n, F) <= Total(n, G)
    BY <2>2, <2>10, TotalMonotone
  <2> QED  BY <2>8, <2>11 DEF s
<1> QED  BY <1>1, ListsInvariance, PTL

-----------------------------------------------------------------------------
(* The lists of the round-robin programs. *)

\* Place k of the list of level l that holds the tasks s: the header, the tasks, and
\* the NULL behind them.
Place(l, s, k) ==
  IF k = 0 THEN Rounds!head(l) ELSE IF k = Len(s) + 1 THEN Rounds!NULL ELSE s[k]
Chained(nx, l, s) == \A k \in 0..Len(s) : nx[Place(l, s, k)] = Place(l, s, k + 1)

Pointers == [Rounds!Nodes -> Rounds!Tasks \cup {Rounds!NULL}]

\* The header of a level is no task, nor NULL.
LEMMA Headers ==
  /\ \A t \in Rounds!Tasks : t \in Nat /\ t >= 1 /\ t # Rounds!NULL /\ t \in Rounds!Nodes
  /\ \A l \in Rounds!Levels : /\ l \in Nat /\ l >= 1
                              /\ Rounds!head(l) \in Rounds!Nodes /\ Rounds!head(l) \notin Rounds!Tasks
                              /\ Rounds!head(l) # Rounds!NULL
  /\ \A l, m \in Rounds!Levels : Rounds!head(l) = Rounds!head(m) => l = m
<1>1. MIN_PRIORITY \in Nat /\ MIN_PRIORITY >= 1 /\ MAX_PRIORITY \in Nat /\ MaxTasks \in Nat
  BY SchedulingConstants
<1>2. \A t \in Rounds!Tasks : t \in Nat /\ t >= 1 /\ t # Rounds!NULL /\ t \in Rounds!Nodes
  BY <1>1 DEF Rounds!Tasks, Rounds!NULL, Rounds!Nodes
<1>3. \A l \in Rounds!Levels : l \in Nat /\ l >= 1
  BY <1>1 DEF Rounds!Levels
<1>4. \A l \in Rounds!Levels : Rounds!head(l) \in Rounds!Nodes
  BY DEF Rounds!Nodes
<1>5. \A l \in Rounds!Levels : Rounds!head(l) \in Int /\ Rounds!head(l) <= -1
  BY <1>3 DEF Rounds!head
<1>6. \A l \in Rounds!Levels : Rounds!head(l) \notin Rounds!Tasks /\ Rounds!head(l) # Rounds!NULL
  BY <1>2, <1>5 DEF Rounds!NULL
<1>7. \A l, m \in Rounds!Levels : Rounds!head(l) = Rounds!head(m) => l = m
  BY <1>3 DEF Rounds!head
<1> QED  BY <1>2, <1>3, <1>4, <1>6, <1>7

\* The places of a list.
LEMMA PlaceOf ==
  ASSUME NEW l \in Rounds!Levels, NEW s \in Seq(Rounds!Tasks), Once(s)
  PROVE  /\ Len(s) \in Nat
         /\ Place(l, s, 0) = Rounds!head(l) /\ Place(l, s, Len(s) + 1) = Rounds!NULL
         /\ \A k \in 1..Len(s) : Place(l, s, k) = s[k] /\ s[k] \in Rounds!Tasks
         /\ \A k \in 0..Len(s) : Place(l, s, k) \in Rounds!Nodes
         /\ \A j, k \in 0..(Len(s)+1) : Place(l, s, j) = Place(l, s, k) => j = k
<1>1. Len(s) \in Nat /\ \A k \in 1..Len(s) : s[k] \in Rounds!Tasks
  BY LenProperties
<1>2. \A k \in 1..Len(s) : Place(l, s, k) = s[k]
  BY <1>1 DEF Place
<1>3. Place(l, s, 0) = Rounds!head(l) /\ Place(l, s, Len(s) + 1) = Rounds!NULL
  BY <1>1 DEF Place
<1>4. \A k \in 0..(Len(s) + 1) : k = 0 \/ k = Len(s) + 1 \/ k \in 1..Len(s)
  BY <1>1
<1>5. \A k \in 0..Len(s) : k = 0 \/ k \in 1..Len(s)
  BY <1>1
<1>6. \A k \in 0..Len(s) : Place(l, s, k) \in Rounds!Nodes
  BY <1>1, <1>2, <1>3, <1>5, Headers
<1>7. \A j, k \in 0..(Len(s) + 1) : Place(l, s, j) = Place(l, s, k) => j = k
  BY SMTT(30), <1>1, <1>2, <1>3, <1>4, Headers DEF Once
<1> QED  BY <1>1, <1>2, <1>3, <1>6, <1>7

\* add() appends.
LEMMA AppendChains ==
  ASSUME NEW l \in Rounds!Levels, NEW s \in Seq(Rounds!Tasks), Once(s),
         NEW nx \in Pointers, Chained(nx, l, s),
         NEW t \in Rounds!Tasks, \A k \in 1..Len(s) : s[k] # t, nx[t] = Rounds!NULL
  PROVE  /\ Append(s, t) \in Seq(Rounds!Tasks) /\ Once(Append(s, t))
         /\ Chained([nx EXCEPT ![Place(l, s, Len(s))] = t], l, Append(s, t))
<1> DEFINE n == Len(s)
           u == Append(s, t)
           last == Place(l, s, n)
           ny == [nx EXCEPT ![last] = t]
<1>1. /\ n \in Nat /\ u \in Seq(Rounds!Tasks) /\ Len(u) = n + 1 /\ u[n+1] = t
      /\ \A k \in 1..n : u[k] = s[k]
  BY AppendProperties, LenProperties
<1>2. Once(u)
  <2> HIDE DEF u
  <2> SUFFICES ASSUME NEW j \in 1..(n+1), NEW k \in 1..(n+1), u[j] = u[k]  PROVE j = k
    BY <1>1 DEF Once
  <2>1. \A i \in 1..(n+1) : i = n + 1 \/ i \in 1..n
    BY <1>1
  <2> QED  BY <1>1, <2>1 DEF Once
<1>3. /\ \A k \in 0..n : Place(l, u, k) = Place(l, s, k)
      /\ Place(l, u, n + 1) = t /\ Place(l, u, n + 2) = Rounds!NULL
  <2> HIDE DEF u
  <2> QED  BY <1>1 DEF Place
<1>4. n \in 0..n /\ \A k \in 0..n : k \in 0..(n+1) /\ n \in 0..(n+1)
  BY <1>1
<1>5. last \in Rounds!Nodes /\ \A k \in 0..n : Place(l, s, k) = last => k = n
  BY <1>4, PlaceOf
<1>6. t # last /\ t \in Rounds!Nodes
  <2>1. n = 0 \/ n \in 1..n
    BY <1>1
  <2> QED  BY <2>1, PlaceOf, Headers
<1>7. ny[last] = t /\ \A k \in Rounds!Nodes : k # last => ny[k] = nx[k]
  BY <1>5 DEF Pointers
<1> HIDE DEF u, ny, last
<1>8. ASSUME NEW k \in 0..(n+1)  PROVE ny[Place(l, u, k)] = Place(l, u, k + 1)
  <2>1. CASE k = n + 1
    <3>1. (n + 1) + 1 = n + 2
      BY <1>1
    <3> QED  BY <1>3, <1>6, <1>7, <2>1, <3>1
  <2>2. CASE k = n
    BY <1>3, <1>4, <1>7, <2>2 DEF last
  <2>3. CASE k \in 0..n /\ k # n
    <3>1. k + 1 \in 0..n
      BY <1>1, <2>3
    <3>2. Place(l, s, k) \in Rounds!Nodes /\ Place(l, s, k) # last
      BY <1>5, <2>3, PlaceOf
    <3>3. nx[Place(l, s, k)] = Place(l, s, k + 1)
      BY <2>3 DEF Chained
    <3> QED  BY <1>3, <1>7, <2>3, <3>1, <3>2, <3>3
  <2>4. k = n + 1 \/ k \in 0..n
    BY <1>1
  <2> QED  BY <2>1, <2>2, <2>3, <2>4
<1>9. Chained(ny, l, u)
  BY <1>1, <1>8 DEF Chained
<1> QED  BY <1>1, <1>2, <1>9 DEF u, ny, last

\* The tail of a list.
LEMMA TailIs ==
  ASSUME NEW S, NEW s \in Seq(S), s # <<>>
  PROVE  /\ Tail(s) \in Seq(S) /\ Len(Tail(s)) = Len(s) - 1 /\ Head(s) = s[1]
         /\ Len(s) \in Nat /\ Len(s) >= 1
         /\ \A k \in 1..(Len(s) - 1) : Tail(s)[k] = s[k+1]
<1>1. Len(s) \in Nat /\ Len(s) # 0
  BY LenProperties, EmptySeq
<1>2. Tail(s) \in Seq(S) /\ Len(Tail(s)) = Len(s)-1 /\ \A i \in 1 .. Len(Tail(s)) : Tail(s)[i] = s[i+1]
  BY HeadTailProperties
<1> QED  BY <1>1, <1>2

\* A finished task leaves the front.
LEMMA TailChains ==
  ASSUME NEW l \in Rounds!Levels, NEW s \in Seq(Rounds!Tasks), Once(s), s # <<>>,
         NEW nx \in Pointers, Chained(nx, l, s)
  PROVE  /\ nx[Rounds!head(l)] = s[1] /\ s[1] \in Rounds!Tasks
         /\ Tail(s) \in Seq(Rounds!Tasks) /\ Once(Tail(s))
         /\ Chained([nx EXCEPT ![Rounds!head(l)] = nx[s[1]]], l, Tail(s))
<1> DEFINE n == Len(s)
           u == Tail(s)
           ny == [nx EXCEPT ![Rounds!head(l)] = nx[s[1]]]
<1>1. /\ n \in Nat /\ n >= 1 /\ u \in Seq(Rounds!Tasks) /\ Len(u) = n - 1
      /\ \A k \in 1..(n-1) : u[k] = s[k+1]
  BY TailIs
<1>2. 0 \in 0..n /\ 1 \in 0..n /\ 1 \in 1..n /\ 0 + 1 = 1
  BY <1>1
<1>3. /\ nx[Rounds!head(l)] = s[1] /\ nx[s[1]] = Place(l, s, 2) /\ s[1] \in Rounds!Tasks
  <2>1. nx[Place(l, s, 0)] = Place(l, s, 1) /\ nx[Place(l, s, 1)] = Place(l, s, 2)
    BY <1>2 DEF Chained
  <2> QED  BY <1>2, <2>1, PlaceOf
<1>4. Once(u)
  <2> HIDE DEF u
  <2> SUFFICES ASSUME NEW j \in 1..(n-1), NEW k \in 1..(n-1), u[j] = u[k]  PROVE j = k
    BY <1>1 DEF Once
  <2>1. s[j+1] = s[k+1] /\ j + 1 \in 1..n /\ k + 1 \in 1..n
    BY <1>1
  <2>2. j + 1 = k + 1
    BY <2>1 DEF Once
  <2> QED  BY <2>2
<1>5. Place(l, u, 0) = Rounds!head(l) /\ \A k \in 1..n : Place(l, u, k) = Place(l, s, k + 1)
  <2> HIDE DEF u
  <2> QED  BY <1>1 DEF Place
<1>6. \A k \in Rounds!Nodes : ny[k] = IF k = Rounds!head(l) THEN nx[s[1]] ELSE nx[k]
  BY DEF Pointers
<1> HIDE DEF u, ny
<1>7. ASSUME NEW k \in 0..(n-1)  PROVE ny[Place(l, u, k)] = Place(l, u, k + 1)
  <2>1. CASE k = 0
    <3>1. Place(l, u, 1) = Place(l, s, 2)
      BY <1>2, <1>5
    <3> QED  BY <1>2, <1>3, <1>5, <1>6, <2>1, <3>1, Headers
  <2>2. CASE k # 0
    <3>1. k \in 1..n /\ k + 1 \in 1..n /\ k + 1 \in 0..n /\ k + 1 # 0 /\ 0 \in 0..(n+1) /\ k + 1 \in 0..(n+1)
      BY <1>1, <2>2
    <3>2. Place(l, s, k + 1) \in Rounds!Nodes /\ Place(l, s, k + 1) # Rounds!head(l)
      BY <3>1, PlaceOf
    <3>3. nx[Place(l, s, k + 1)] = Place(l, s, (k + 1) + 1)
      BY <3>1 DEF Chained
    <3> QED  BY <1>5, <1>6, <3>1, <3>2, <3>3
  <2> QED  BY <2>1, <2>2
<1>8. Chained(ny, l, u)
  BY <1>1, <1>7 DEF Chained
<1> QED  BY <1>1, <1>3, <1>4, <1>8 DEF u, ny

\* The pointers after the front task has been put back: first is the front task,
\* last the one at the end.
Rotated(nx, l, first, last) ==
  LET next1 == [nx EXCEPT ![last] = first]
      next2 == [next1 EXCEPT ![Rounds!head(l)] = next1[first]]
  IN [next2 EXCEPT ![first] = Rounds!NULL]

\* The four assignments, together.
LEMMA RotatedIs ==
  ASSUME NEW l \in Rounds!Levels, NEW nx \in Pointers,
         NEW first \in Rounds!Tasks, NEW last \in Rounds!Tasks
  PROVE  /\ Rotated(nx, l, first, last) \in Pointers
         /\ Rotated(nx, l, first, last)[first] = Rounds!NULL
         /\ Rotated(nx, l, first, last)[Rounds!head(l)] = (IF first = last THEN first ELSE nx[first])
         /\ first # last => Rotated(nx, l, first, last)[last] = first
         /\ \A v \in Rounds!Nodes : v \notin {first, last, Rounds!head(l)} =>
              Rotated(nx, l, first, last)[v] = nx[v]
<1> DEFINE h == Rounds!head(l)
           next1 == [nx EXCEPT ![last] = first]
           next2 == [next1 EXCEPT ![h] = next1[first]]
           next3 == [next2 EXCEPT ![first] = Rounds!NULL]
<1>1. first \in Rounds!Nodes /\ last \in Rounds!Nodes /\ h \in Rounds!Nodes /\ h # first /\ h # last
  BY Headers
<1>2. Rotated(nx, l, first, last) = next3
  BY DEF Rotated
<1>3. next1 \in Pointers /\ \A v \in Rounds!Nodes : next1[v] = IF v = last THEN first ELSE nx[v]
  BY <1>1 DEF Pointers
<1> HIDE DEF next1, h
<1>4. next2 \in Pointers /\ \A v \in Rounds!Nodes : next2[v] = IF v = h THEN next1[first] ELSE next1[v]
  BY <1>1, <1>3 DEF Pointers
<1> HIDE DEF next2
<1>5. next3 \in Pointers /\ \A v \in Rounds!Nodes : next3[v] = IF v = first THEN Rounds!NULL ELSE next2[v]
  BY <1>1, <1>4 DEF Pointers
<1> HIDE DEF next3
<1> QED  BY <1>1, <1>2, <1>3, <1>4, <1>5 DEF h

\* An unfinished task goes from the front to the back.
LEMMA RotateChains ==
  ASSUME NEW l \in Rounds!Levels, NEW s \in Seq(Rounds!Tasks), Once(s), s # <<>>,
         NEW nx \in Pointers, Chained(nx, l, s)
  PROVE  /\ Append(Tail(s), s[1]) \in Seq(Rounds!Tasks) /\ Once(Append(Tail(s), s[1]))
         /\ Chained(Rotated(nx, l, s[1], s[Len(s)]), l, Append(Tail(s), s[1]))
<1> DEFINE n == Len(s)
           u == Append(Tail(s), s[1])
           ny == Rotated(nx, l, s[1], s[n])
<1>0. n \in Nat /\ n >= 1
  BY TailIs
<1>1. /\ n \in Nat /\ n >= 1 /\ Tail(s) \in Seq(Rounds!Tasks) /\ Len(Tail(s)) = n - 1
      /\ \A k \in 1..(n-1) : Tail(s)[k] = s[k+1]
  BY TailIs
<1>2. /\ 0 \in 0..n /\ 1 \in 0..n /\ 1 \in 1..n /\ n \in 1..n /\ 0 + 1 = 1
      /\ s[1] \in Rounds!Tasks /\ s[n] \in Rounds!Tasks
  BY <1>1, PlaceOf
<1>3. u \in Seq(Rounds!Tasks) /\ Len(u) = n /\ u[n] = s[1] /\ \A k \in 1..(n-1) : u[k] = s[k+1]
  <2>1. /\ u \in Seq(Rounds!Tasks) /\ Len(u) = Len(Tail(s)) + 1 /\ u[Len(Tail(s)) + 1] = s[1]
        /\ \A k \in 1..Len(Tail(s)) : u[k] = Tail(s)[k]
    BY <1>1, <1>2, AppendProperties
  <2>2. (n - 1) + 1 = n
    BY <1>0
  <2> HIDE DEF u, n
  <2> QED  BY <1>1, <2>1, <2>2
<1> HIDE DEF u
<1>4. Once(u)
  <2> SUFFICES ASSUME NEW j \in 1..n, NEW k \in 1..n, u[j] = u[k]  PROVE j = k
    BY <1>3 DEF Once
  <2>1. \A i \in 1..n : i = n \/ (i \in 1..(n-1) /\ i + 1 \in 1..n /\ i + 1 # 1)
    BY <1>0
  <2>2. \A i \in 1..(n-1) : s[i+1] # s[1]
    <3> TAKE i \in 1..(n-1)
    <3>1. i + 1 \in 1..n /\ i + 1 # 1
      BY <1>0
    <3> QED  BY <1>2, <3>1 DEF Once
  <2>3. CASE j = n \/ k = n
    BY <1>3, <2>1, <2>2, <2>3
  <2>4. CASE j # n /\ k # n
    <3>1. s[j+1] = s[k+1] /\ j + 1 \in 1..n /\ k + 1 \in 1..n
      BY <1>3, <2>1, <2>4
    <3>2. j + 1 = k + 1
      BY <3>1 DEF Once
    <3> QED  BY <3>2
  <2> QED  BY <2>3, <2>4
<1>5. /\ Place(l, u, 0) = Rounds!head(l) /\ Place(l, u, n) = s[1] /\ Place(l, u, n + 1) = Rounds!NULL
      /\ \A k \in 1..(n-1) : Place(l, u, k) = s[k+1]
  <2>1. n # 0 /\ n # n + 1 /\ \A k \in 1..(n-1) : k # 0 /\ k # n + 1
    BY <1>0
  <2> QED  BY <1>3, <2>1 DEF Place
<1>6. /\ ny[s[1]] = Rounds!NULL
      /\ ny[Rounds!head(l)] = (IF s[1] = s[n] THEN s[1] ELSE nx[s[1]])
      /\ s[1] # s[n] => ny[s[n]] = s[1]
      /\ \A v \in Rounds!Nodes : v \notin {s[1], s[n], Rounds!head(l)} => ny[v] = nx[v]
  <2> DEFINE first == s[1]
             last == s[n]
  <2>1. first \in Rounds!Tasks /\ last \in Rounds!Tasks
    BY <1>2
  <2> HIDE DEF first, last
  <2>2. /\ Rotated(nx, l, first, last)[first] = Rounds!NULL
        /\ Rotated(nx, l, first, last)[Rounds!head(l)] = (IF first = last THEN first ELSE nx[first])
        /\ first # last => Rotated(nx, l, first, last)[last] = first
        /\ \A v \in Rounds!Nodes : v \notin {first, last, Rounds!head(l)} =>
              Rotated(nx, l, first, last)[v] = nx[v]
    BY <2>1, RotatedIs
  <2> QED  BY <2>2 DEF first, last
<1> HIDE DEF ny
<1>7. \A k \in 1..n : s[k] \in Rounds!Tasks /\ s[k] \in Rounds!Nodes /\ s[k] # Rounds!head(l)
  BY PlaceOf, Headers
<1>8. \A k \in 1..(n-1) : nx[s[k]] = s[k+1]
  <2> TAKE k \in 1..(n-1)
  <2>1. k \in 0..n /\ k \in 1..n /\ k + 1 \in 1..n
    BY <1>0
  <2> QED  BY <2>1, PlaceOf DEF Chained
<1>9. \A j, k \in 1..n : s[j] = s[k] => j = k
  BY DEF Once
<1>10. ASSUME NEW k \in 0..n  PROVE ny[Place(l, u, k)] = Place(l, u, k + 1)
  <2>1. CASE k = n
    <3> QED  BY <1>5, <1>6, <2>1
  <2>2. CASE k = 0
    <3>1. CASE n = 1
      BY <1>2, <1>5, <1>6, <2>2, <3>1
    <3>2. CASE n # 1
      <4>1. 1 \in 1..(n-1)
        <5> HIDE DEF n
        <5> QED  BY <1>0, <3>2
      <4>2. s[1] # s[n]
        BY <1>2, <1>9, <3>2
      <4>3. Place(l, u, 1) = nx[s[1]]
        BY <1>5, <1>8, <4>1
      <4>4. ny[Place(l, u, 0)] = nx[s[1]]
        BY <1>5, <1>6, <4>2
      <4> QED  BY <1>2, <2>2, <4>3, <4>4
    <3> QED  BY <3>1, <3>2
  <2>3. CASE k = n - 1 /\ k # 0
    <3>1. k \in 1..(n-1) /\ k + 1 = n /\ n # 1
      BY <1>0, <2>3
    <3>2. s[1] # s[n]
      BY <1>2, <1>9, <3>1
    <3> QED  BY <1>5, <1>6, <3>1, <3>2
  <2>4. CASE k # n /\ k # 0 /\ k # n - 1
    <3>1. k \in 1..(n-1) /\ k + 1 \in 1..(n-1) /\ k + 1 \in 1..n /\ k + 1 # 1 /\ k + 1 # n
      BY <1>0, <2>4
    <3>2. s[k+1] \notin {s[1], s[n], Rounds!head(l)} /\ s[k+1] \in Rounds!Nodes
      BY <1>2, <1>7, <1>9, <3>1
    <3> QED  BY <1>5, <1>6, <1>8, <3>1, <3>2
  <2> QED  BY <2>1, <2>2, <2>3, <2>4
<1>11. Chained(ny, l, u)
  BY <1>3, <1>10 DEF Chained
<1> QED  BY <1>3, <1>4, <1>11 DEF u, ny

-----------------------------------------------------------------------------
(* All the lists. *)

LevelLists == [Rounds!Levels -> Seq(Rounds!Tasks)]
Foreign(q, l, u) ==
  \A m \in Rounds!Levels : m # l =>
    \A k \in 1..Len(q[m]), j \in 1..Len(u) : q[m][k] # u[j]

\* q holds the tasks of each level: no task is in two of the lists, or twice in
\* one, and rear is the last node.
Shape(q, nx, rr) ==
  /\ q \in LevelLists
  /\ nx \in Pointers
  /\ rr \in [Rounds!Levels -> Rounds!Tasks \cup {Rounds!NULL}]
  /\ \A l \in Rounds!Levels : Once(q[l]) /\ Chained(nx, l, q[l]) /\ Foreign(q, l, q[l])
  /\ \A l \in Rounds!Levels : q[l] # <<>> => rr[l] = q[l][Len(q[l])]

\* ny differs from nx in the nodes of list l only.
SameElsewhere(nx, ny, l, s) ==
  \A v \in Rounds!Nodes : (\A j \in 0..Len(s) : v # Place(l, s, j)) => ny[v] = nx[v]

\* The node of another list is none of this one's.
LEMMA ListsApart ==
  ASSUME NEW q, NEW nx, NEW rr, Shape(q, nx, rr), NEW l \in Rounds!Levels, NEW m \in Rounds!Levels, m # l,
         NEW k \in 0..Len(q[m]), NEW j \in 0..Len(q[l])
  PROVE  Place(m, q[m], k) # Place(l, q[l], j)
<1> DEFINE s == q[l]
           r == q[m]
<1>1. s \in Seq(Rounds!Tasks) /\ r \in Seq(Rounds!Tasks) /\ Once(s) /\ Once(r) /\ Foreign(q, l, s)
  BY DEF Shape, LevelLists
<1>2. \A i \in 1..Len(r), h \in 1..Len(s) : r[i] # s[h]
  BY <1>1 DEF Foreign
<1> HIDE DEF s, r
<1>3. /\ Len(s) \in Nat /\ Place(l, s, 0) = Rounds!head(l)
      /\ \A i \in 1..Len(s) : Place(l, s, i) = s[i] /\ s[i] \in Rounds!Tasks
  BY <1>1, PlaceOf
<1>4. /\ Len(r) \in Nat /\ Place(m, r, 0) = Rounds!head(m)
      /\ \A i \in 1..Len(r) : Place(m, r, i) = r[i] /\ r[i] \in Rounds!Tasks
  BY <1>1, PlaceOf
<1>5. (k = 0 \/ k \in 1..Len(r)) /\ (j = 0 \/ j \in 1..Len(s))
  BY <1>3, <1>4 DEF s, r
<1>6. Place(m, r, k) # Place(l, s, j)
  BY <1>2, <1>3, <1>4, <1>5, Headers
<1> QED  BY <1>6 DEF s, r

\* One list is replaced.
LEMMA SwitchList ==
  ASSUME NEW q, NEW nx, NEW rr, Shape(q, nx, rr), NEW l \in Rounds!Levels,
         NEW u, u \in Seq(Rounds!Tasks), Once(u), Foreign(q, l, u),
         NEW ny, ny \in Pointers, Chained(ny, l, u), SameElsewhere(nx, ny, l, q[l]),
         NEW last, last \in Rounds!Tasks \cup {Rounds!NULL}, u # <<>> => last = u[Len(u)]
  PROVE  Shape([q EXCEPT ![l] = u], ny, [rr EXCEPT ![l] = last])
<1> DEFINE q2 == [q EXCEPT ![l] = u]
           rr2 == [rr EXCEPT ![l] = last]
<1>1. /\ q2 \in LevelLists /\ q2[l] = u /\ \A m \in Rounds!Levels : m # l => q2[m] = q[m]
      /\ rr2 \in [Rounds!Levels -> Rounds!Tasks \cup {Rounds!NULL}]
      /\ rr2[l] = last /\ \A m \in Rounds!Levels : m # l => rr2[m] = rr[m]
  BY DEF Shape, LevelLists
<1> HIDE DEF q2, rr2
<1>2. \A m \in Rounds!Levels : q2[m] # <<>> => rr2[m] = q2[m][Len(q2[m])]
  BY <1>1 DEF Shape
<1>3. ASSUME NEW m \in Rounds!Levels, m # l  PROVE Chained(ny, m, q[m])
  <2>1. q[m] \in Seq(Rounds!Tasks) /\ Once(q[m]) /\ Chained(nx, m, q[m])
    BY DEF Shape, LevelLists
  <2>2. ASSUME NEW k \in 0..Len(q[m])  PROVE ny[Place(m, q[m], k)] = nx[Place(m, q[m], k)]
    <3>1. Place(m, q[m], k) \in Rounds!Nodes
      BY <2>1, PlaceOf
    <3>2. \A j \in 0..Len(q[l]) : Place(m, q[m], k) # Place(l, q[l], j)
      BY <1>3, ListsApart
    <3> QED  BY <3>1, <3>2 DEF SameElsewhere
  <2> QED  BY <2>1, <2>2 DEF Chained
<1>4. ASSUME NEW m \in Rounds!Levels  PROVE Foreign(q2, m, q2[m])
  <2> SUFFICES ASSUME NEW i \in Rounds!Levels, i # m,
                      NEW k \in 1..Len(q2[i]), NEW j \in 1..Len(q2[m])
               PROVE  q2[i][k] # q2[m][j]
    BY DEF Foreign
  <2>1. CASE m = l
    BY <1>1, <2>1 DEF Foreign
  <2>2. CASE i = l
    BY <1>1, <2>2 DEF Foreign
  <2>3. CASE m # l /\ i # l
    <3>1. Foreign(q, m, q[m])
      BY DEF Shape
    <3> QED  BY <1>1, <2>3, <3>1 DEF Foreign
  <2> QED  BY <2>1, <2>2, <2>3
<1>5. ASSUME NEW m \in Rounds!Levels  PROVE Once(q2[m]) /\ Chained(ny, m, q2[m])
  <2>1. CASE m = l
    BY <1>1, <2>1
  <2>2. CASE m # l
    BY <1>1, <1>3, <2>2 DEF Shape
  <2> QED  BY <2>1, <2>2
<1>6. Shape(q2, ny, rr2)
  BY <1>1, <1>2, <1>4, <1>5 DEF Shape
<1> QED  BY <1>6 DEF q2, rr2

-----------------------------------------------------------------------------
(* The list of a level, as the model reads it off the pointers. *)

\* The cardinality that RoundRobin names.
LEMMA SameCardinality == ASSUME NEW S  PROVE Rounds!Cardinality(S) = Cardinality(S)
  BY DEF Rounds!Cardinality, Cardinality

ReadyOf(nx, l) ==
  LET node[k \in 0..(MaxTasks + 1)] ==
        IF k = 0 THEN nx[Rounds!head(l)]
        ELSE IF node[k-1] = Rounds!NULL THEN Rounds!NULL ELSE nx[node[k-1]]
      length == Rounds!Cardinality({k \in 0..(MaxTasks + 1) : node[k] # Rounds!NULL})
  IN [k \in 1..length |-> node[k-1]]

\* A list without repetitions has at most as many tasks as there are.
LEMMA OnceIsShort ==
  ASSUME NEW n \in Nat, NEW s \in Seq(1..n), Once(s)
  PROVE  Len(s) <= n
<1>1. Len(s) \in Nat /\ s \in [1..Len(s) -> 1..n]
  BY LenProperties
<1>2. /\ IsFiniteSet(1..n) /\ IsFiniteSet(1..Len(s))
      /\ Cardinality(1..n) = n /\ Cardinality(1..Len(s)) = Len(s)
  BY <1>1, UptoCardinality, FS_Interval
<1> DEFINE m == Len(s)
<1>3. ~(n < m)
  <2> SUFFICES ASSUME n < m  PROVE FALSE
    OBVIOUS
  <2>1. Cardinality(1..n) < Cardinality(1..m)
    BY <1>2
  <2>2. \E x, y \in 1..m : x # y /\ s[x] = s[y]
    BY <1>1, <1>2, <2>1, FS_PigeonHole
  <2> QED  BY <2>2 DEF Once
<1> QED
  <2> HIDE DEF m
  <2>1. m \in Nat
    BY <1>1 DEF m
  <2>2. m <= n
    BY <1>3, <2>1
  <2> QED  BY <2>2 DEF m

\* Following next from the header gives the tasks of the list, in order.
LEMMA ReadyIs ==
  ASSUME NEW l \in Rounds!Levels, NEW s \in Seq(Rounds!Tasks), Once(s),
         NEW nx \in Pointers, Chained(nx, l, s)
  PROVE  ReadyOf(nx, l) = s /\ Len(s) <= MaxTasks
<1> DEFINE N == MaxTasks + 1
           n == Len(s)
           g == CHOOSE g : g = [k \in 0..N |->
                  IF k = 0 THEN nx[Rounds!head(l)]
                  ELSE IF g[k-1] = Rounds!NULL THEN Rounds!NULL ELSE nx[g[k-1]]]
           h == [k \in 0..N |-> IF k <= n THEN Place(l, s, k + 1) ELSE Rounds!NULL]
<1>1. MaxTasks \in Nat /\ N \in Nat /\ n \in Nat /\ n <= MaxTasks
  <2>1. MaxTasks \in Nat /\ Rounds!Tasks = 1..MaxTasks
    BY SchedulingConstants DEF Rounds!Tasks
  <2>2. n <= MaxTasks
    BY <2>1, OnceIsShort
  <2> QED  BY <2>1, <2>2, PlaceOf
<1>2. /\ \A k \in 0..n : nx[Place(l, s, k)] = Place(l, s, k + 1)
      /\ Place(l, s, 0) = Rounds!head(l) /\ Place(l, s, n + 1) = Rounds!NULL
      /\ \A k \in 1..n : Place(l, s, k) = s[k] /\ s[k] # Rounds!NULL
  BY PlaceOf, Headers DEF Chained
<1>3. s = [k \in 1..n |-> s[k]]
  BY LenProperties
<1> HIDE DEF n
<1>4. /\ \A k \in 0..n : h[k] = Place(l, s, k + 1)
      /\ \A k \in 0..N : ~(k <= n) => h[k] = Rounds!NULL
  <2>1. \A k \in 0..n : k \in 0..N /\ k <= n
    BY <1>1
  <2> QED  BY <2>1
<1> HIDE DEF h, N
<1>5. h[0] = nx[Rounds!head(l)]
  <2>1. 0 \in 0..n /\ 0 + 1 = 1
    BY <1>1
  <2> QED  BY <1>2, <1>4, <2>1
<1>6. ASSUME NEW k \in 0..N, k # 0
      PROVE h[k] = IF h[k-1] = Rounds!NULL THEN Rounds!NULL ELSE nx[h[k-1]]
  <2>1. CASE k <= n
    <3>1. k - 1 \in 0..n /\ k \in 0..n /\ k \in 1..n /\ (k - 1) + 1 = k
      BY <1>1, <1>6, <2>1
    <3> QED  BY <1>2, <1>4, <3>1
  <2>2. CASE k = n + 1
    <3>1. k - 1 \in 0..n /\ (k - 1) + 1 = n + 1 /\ ~(k <= n)
      BY <1>1, <1>6, <2>2
    <3>2. h[k-1] = Rounds!NULL /\ h[k] = Rounds!NULL
      BY <1>2, <1>4, <3>1
    <3> QED  BY <3>2
  <2>3. CASE k > n + 1
    <3>1. k - 1 \in 0..N /\ ~(k - 1 <= n) /\ ~(k <= n)
      BY <1>1, <1>6, <2>3 DEF N
    <3> QED  BY <1>4, <3>1
  <2>4. k <= n \/ k = n + 1 \/ k > n + 1
    BY <1>1
  <2> QED  BY <2>1, <2>2, <2>3, <2>4
<1>7. h = [k \in 0..N |-> IF k = 0 THEN nx[Rounds!head(l)]
             ELSE IF h[k-1] = Rounds!NULL THEN Rounds!NULL ELSE nx[h[k-1]]]
  <2>1. \A k \in 0..N : h[k] = (IF k = 0 THEN nx[Rounds!head(l)]
             ELSE IF h[k-1] = Rounds!NULL THEN Rounds!NULL ELSE nx[h[k-1]])
    BY <1>5, <1>6
  <2>2. h = [k \in 0..N |-> h[k]]
    BY DEF h
  <2> QED  BY <2>1, <2>2
<1>8. ReadyOf(nx, l) = [k \in 1..Rounds!Cardinality({k \in 0..N : g[k] # Rounds!NULL}) |-> g[k-1]]
  BY DEF ReadyOf, N
<1>9. g = [k \in 0..N |-> IF k = 0 THEN nx[Rounds!head(l)]
             ELSE IF g[k-1] = Rounds!NULL THEN Rounds!NULL ELSE nx[g[k-1]]]
  BY <1>7
<1> HIDE DEF g
<1>10. \A k \in 0..N : g[k] = h[k]
  <2>1. g[0] = h[0] /\ \A k \in 1..N : g[k-1] = h[k-1] => g[k] = h[k]
    <3>1. /\ 0 \in 0..N /\ \A k \in 1..N : k \in 0..N /\ k # 0
      BY <1>1
    <3>2. /\ g[0] = nx[Rounds!head(l)]
          /\ \A k \in 1..N : g[k] = IF g[k-1] = Rounds!NULL THEN Rounds!NULL ELSE nx[g[k-1]]
      BY <1>9, <3>1
    <3> QED  BY <1>5, <1>6, <3>1, <3>2
  <2>2. SameSteps(N, g, h)
    BY <2>1 DEF SameSteps
  <2> QED  BY <1>1, <2>2, RecursionUnique
<1>11. {k \in 0..N : g[k] # Rounds!NULL} = 0..(n-1)
  <2>1. \A k \in 0..N : k <= n \/ ~(k <= n)
    OBVIOUS
  <2>2. ASSUME NEW k \in 0..N  PROVE h[k] # Rounds!NULL <=> k \in 0..(n-1)
    <3>1. CASE k \in 0..(n-1)
      <4>1. k \in 0..n /\ k + 1 \in 1..n
        BY <1>1, <3>1
      <4> QED  BY <1>2, <1>4, <3>1, <4>1
    <3>2. CASE k = n
      <4>1. k \in 0..n /\ k \notin 0..(n-1)
        BY <1>1, <3>2
      <4> QED  BY <1>2, <1>4, <3>2, <4>1
    <3>3. CASE ~(k <= n)
      <4>1. k \notin 0..(n-1)
        BY <1>1, <3>3
      <4> QED  BY <1>4, <3>3, <4>1
    <3>4. k \in 0..(n-1) \/ k = n \/ ~(k <= n)
      BY <1>1
    <3> QED  BY <3>1, <3>2, <3>3, <3>4
  <2>3. \A k \in 0..(n-1) : k \in 0..N
    BY <1>1 DEF N
  <2> QED  BY <1>10, <2>2, <2>3
<1>12. Rounds!Cardinality(0..(n-1)) = n
  BY <1>1, FS_Interval, SameCardinality
<1>13. ReadyOf(nx, l) = [k \in 1..n |-> g[k-1]]
  BY <1>8, <1>11, <1>12
<1>14. \A k \in 1..n : g[k-1] = s[k]
  <2> TAKE k \in 1..n
  <2>1. k - 1 \in 0..N /\ k - 1 \in 0..n /\ (k - 1) + 1 = k
    BY <1>1 DEF N
  <2> QED  BY <1>2, <1>4, <1>10, <2>1
<1> QED  BY <1>1, <1>3, <1>13, <1>14 DEF n

-----------------------------------------------------------------------------
(* What add() and the two branches of the loop do to all the lists. *)

\* Where add() appends.
Behind(rr, l) == IF rr[l] = Rounds!NULL THEN Rounds!head(l) ELSE rr[l]

\* add(): the lists afterwards.
LEMMA AppendShapes ==
  ASSUME NEW q, NEW nx, NEW rr, Shape(q, nx, rr), NEW l \in Rounds!Levels,
         q[l] = <<>> => rr[l] = Rounds!NULL,
         NEW t \in Rounds!Tasks, Foreign(q, l, <<t>>),
         \A k \in 1..Len(q[l]) : q[l][k] # t, nx[t] = Rounds!NULL
  PROVE  Shape([q EXCEPT ![l] = Append(q[l], t)], [nx EXCEPT ![Behind(rr, l)] = t], [rr EXCEPT ![l] = t])
<1> DEFINE s == q[l]
           n == Len(s)
           u == Append(s, t)
           ny == [nx EXCEPT ![Behind(rr, l)] = t]
<1>1. /\ s \in Seq(Rounds!Tasks) /\ Once(s) /\ Chained(nx, l, s) /\ nx \in Pointers
      /\ Foreign(q, l, s) /\ (s # <<>> => rr[l] = s[n])
  BY DEF Shape, LevelLists
<1>2. \A k \in 1..n : s[k] # t
  OBVIOUS
<1> HIDE DEF s
<1>3. n \in Nat /\ Place(l, s, n) = Behind(rr, l) /\ Place(l, s, n) \in Rounds!Nodes
  <2>1. n \in Nat /\ n \in 0..n
    BY <1>1, PlaceOf
  <2>2. CASE s = <<>>
    <3>1. n = 0
      BY <2>2
    <3> QED  BY ZenonT(30), <1>1, <2>1, <2>2, <3>1, PlaceOf DEF Behind, s
  <2>3. CASE s # <<>>
    <3>1. n \in 1..n
      BY <1>1, <2>1, <2>3, EmptySeq
    <3>2. Place(l, s, n) = s[n] /\ s[n] # Rounds!NULL
      BY <1>1, <3>1, PlaceOf, Headers
    <3> QED  BY <1>1, <2>1, <2>3, <3>2, PlaceOf DEF Behind
  <2> QED  BY <2>2, <2>3
<1>4. u \in Seq(Rounds!Tasks) /\ Once(u) /\ Chained(ny, l, u)
  BY <1>1, <1>2, <1>3, AppendChains
<1>5. ny \in Pointers /\ \A v \in Rounds!Nodes : v # Place(l, s, n) => ny[v] = nx[v]
  BY <1>1, <1>3 DEF Pointers
<1> HIDE DEF ny
<1>6. SameElsewhere(nx, ny, l, s)
  <2>1. n \in 0..n
    BY <1>3
  <2> QED  BY <1>5, <2>1 DEF SameElsewhere
<1>7. /\ Len(u) = n + 1 /\ u[n+1] = t /\ \A k \in 1..n : u[k] = s[k]
  BY <1>1, AppendProperties
<1> HIDE DEF u
<1>8. Foreign(q, l, u)
  <2> SUFFICES ASSUME NEW m \in Rounds!Levels, m # l, NEW k \in 1..Len(q[m]), NEW j \in 1..(n+1)
               PROVE  q[m][k] # u[j]
    BY <1>7 DEF Foreign
  <2>1. j = n + 1 \/ j \in 1..n
    BY <1>3
  <2>2. q[m][k] # t
    <3>1. 1 \in 1..Len(<<t>>) /\ <<t>>[1] = t
      OBVIOUS
    <3> QED  BY <3>1 DEF Foreign
  <2>3. \A i \in 1..n : q[m][k] # s[i]
    BY <1>1 DEF Foreign
  <2> QED  BY <1>7, <2>1, <2>2, <2>3
<1>9. Shape([q EXCEPT ![l] = u], ny, [rr EXCEPT ![l] = t])
  BY <1>4, <1>5, <1>6, <1>7, <1>8, SwitchList DEF s
<1> QED  BY <1>9 DEF u, ny, s

\* "task complete, remove from list": the lists afterwards.
LEMMA TailShapes ==
  ASSUME NEW q, NEW nx, NEW rr, Shape(q, nx, rr), NEW l \in Rounds!Levels, q[l] # <<>>
  PROVE  /\ nx[Rounds!head(l)] = q[l][1] /\ q[l][1] \in Rounds!Tasks
         /\ Shape([q EXCEPT ![l] = Tail(q[l])], [nx EXCEPT ![Rounds!head(l)] = nx[q[l][1]]], rr)
<1> DEFINE s == q[l]
           n == Len(s)
           u == Tail(s)
           ny == [nx EXCEPT ![Rounds!head(l)] = nx[s[1]]]
<1>1. /\ s \in Seq(Rounds!Tasks) /\ Once(s) /\ Chained(nx, l, s) /\ nx \in Pointers
      /\ Foreign(q, l, s) /\ s # <<>> /\ rr[l] = s[n]
      /\ rr \in [Rounds!Levels -> Rounds!Tasks \cup {Rounds!NULL}]
  BY DEF Shape, LevelLists
<1> HIDE DEF s
<1>2. /\ nx[Rounds!head(l)] = s[1] /\ s[1] \in Rounds!Tasks
      /\ u \in Seq(Rounds!Tasks) /\ Once(u) /\ Chained(ny, l, u)
  BY <1>1, TailChains
<1>3. n \in Nat /\ n >= 1 /\ Len(u) = n - 1 /\ \A k \in 1..(n-1) : u[k] = s[k+1]
  BY <1>1, TailIs
<1>4. /\ Rounds!head(l) \in Rounds!Nodes
      /\ s[1] \in Rounds!Nodes /\ Place(l, s, 0) = Rounds!head(l)
  BY <1>1, <1>2, PlaceOf, Headers
<1>5. ny \in Pointers /\ \A v \in Rounds!Nodes : v # Rounds!head(l) => ny[v] = nx[v]
  BY <1>1, <1>4 DEF Pointers
<1> HIDE DEF ny, u
<1>6. SameElsewhere(nx, ny, l, s)
  <2>1. 0 \in 0..n
    BY <1>3
  <2> QED  BY <1>4, <1>5, <2>1 DEF SameElsewhere
<1> HIDE DEF n
<1>7. Foreign(q, l, u)
  <2>1. \A k \in 1..(n-1) : k + 1 \in 1..n
    BY <1>3
  <2> QED  BY <1>1, <1>3, <2>1 DEF Foreign, n
<1>8. u # <<>> => rr[l] = u[Len(u)]
  <2> SUFFICES ASSUME u # <<>>  PROVE rr[l] = u[n-1]
    BY <1>3
  <2>1. n - 1 # 0
    BY <1>2, <1>3, EmptySeq
  <2>2. n - 1 \in 1..(n-1) /\ (n - 1) + 1 = n
    BY <1>3, <2>1
  <2> QED  BY <1>1, <1>3, <2>2
<1>9. Shape([q EXCEPT ![l] = u], ny, [rr EXCEPT ![l] = rr[l]])
  BY <1>1, <1>2, <1>5, <1>6, <1>7, <1>8, SwitchList DEF s
<1>10. [rr EXCEPT ![l] = rr[l]] = rr
  BY <1>1
<1> QED  BY <1>2, <1>9, <1>10 DEF u, ny, s

\* The other branch: the lists afterwards.
LEMMA RotateShapes ==
  ASSUME NEW q, NEW nx, NEW rr, Shape(q, nx, rr), NEW l \in Rounds!Levels, q[l] # <<>>
  PROVE  Shape([q EXCEPT ![l] = Append(Tail(q[l]), q[l][1])],
               Rotated(nx, l, q[l][1], rr[l]), [rr EXCEPT ![l] = q[l][1]])
<1> DEFINE s == q[l]
           n == Len(s)
           u == Append(Tail(s), s[1])
           ny == Rotated(nx, l, s[1], rr[l])
<1>1. /\ s \in Seq(Rounds!Tasks) /\ Once(s) /\ Chained(nx, l, s) /\ nx \in Pointers
      /\ Foreign(q, l, s) /\ s # <<>> /\ rr[l] = s[n]
  BY DEF Shape, LevelLists
<1> HIDE DEF s
<1>2. u \in Seq(Rounds!Tasks) /\ Once(u) /\ Chained(ny, l, u)
  BY <1>1, RotateChains
<1>3. /\ n \in Nat /\ n >= 1 /\ Tail(s) \in Seq(Rounds!Tasks) /\ Len(Tail(s)) = n - 1
      /\ \A k \in 1..(n-1) : Tail(s)[k] = s[k+1]
  BY <1>1, TailIs
<1> HIDE DEF n
<1>4. 1 \in 1..n /\ n \in 1..n /\ 0 \in 0..n /\ 1 \in 0..n /\ n \in 0..n /\ (n - 1) + 1 = n
  BY <1>3
<1>5. /\ s[1] \in Rounds!Tasks /\ s[n] \in Rounds!Tasks
      /\ Place(l, s, 0) = Rounds!head(l) /\ Place(l, s, 1) = s[1] /\ Place(l, s, n) = s[n]
  BY <1>1, <1>4, PlaceOf DEF n
<1>6. Len(u) = n /\ u[n] = s[1] /\ \A k \in 1..(n-1) : u[k] = s[k+1]
  <2>1. /\ Len(u) = Len(Tail(s)) + 1 /\ u[Len(Tail(s)) + 1] = s[1]
        /\ \A k \in 1..Len(Tail(s)) : u[k] = Tail(s)[k]
    BY <1>3, <1>5, AppendProperties
  <2> HIDE DEF u
  <2> QED  BY <1>3, <1>4, <2>1
<1>7. ny \in Pointers /\ \A v \in Rounds!Nodes : v \notin {s[1], s[n], Rounds!head(l)} => ny[v] = nx[v]
  <2> DEFINE first == s[1]
             last == rr[l]
  <2>1. first \in Rounds!Tasks /\ last \in Rounds!Tasks
    BY <1>1, <1>5
  <2> HIDE DEF first, last
  <2>2. /\ Rotated(nx, l, first, last) \in Pointers
        /\ \A v \in Rounds!Nodes : v \notin {first, last, Rounds!head(l)} =>
              Rotated(nx, l, first, last)[v] = nx[v]
    BY <1>1, <2>1, RotatedIs
  <2> QED  BY <1>1, <2>2 DEF first, last
<1> HIDE DEF ny, u
<1>8. SameElsewhere(nx, ny, l, s)
  <2> SUFFICES ASSUME NEW v \in Rounds!Nodes, \A j \in 0..n : v # Place(l, s, j)
               PROVE  ny[v] = nx[v]
    BY DEF SameElsewhere, n
  <2>1. v # Place(l, s, 0) /\ v # Place(l, s, 1) /\ v # Place(l, s, n)
    BY <1>4
  <2> QED  BY <1>5, <1>7, <2>1
<1>9. Foreign(q, l, u)
  <2>1. \A k \in 1..n : (k = n /\ 1 \in 1..n) \/ (k \in 1..(n-1) /\ k + 1 \in 1..n)
    BY <1>3
  <2>2. \A k \in 1..n : \E j \in 1..n : u[k] = s[j]
    BY <1>6, <2>1
  <2> SUFFICES ASSUME NEW m \in Rounds!Levels, m # l, NEW k \in 1..Len(q[m]), NEW j \in 1..n
               PROVE  q[m][k] # u[j]
    BY <1>6 DEF Foreign
  <2>3. \A i \in 1..n : q[m][k] # s[i]
    BY <1>1 DEF Foreign, n
  <2> QED  BY <2>2, <2>3
<1>10. u # <<>> => s[1] = u[Len(u)]
  BY <1>6
<1>11. Shape([q EXCEPT ![l] = u], ny, [rr EXCEPT ![l] = s[1]])
  BY <1>2, <1>5, <1>7, <1>8, <1>9, <1>10, SwitchList DEF s
<1> QED  BY <1>11 DEF u, ny, s

-----------------------------------------------------------------------------
(* The invariant of the round-robin programs. *)

\* While the input is read, rear is NULL for an empty list, and the nodes of the tasks
\* to come are untouched.
Input(q, ln, nx, rr) ==
  /\ \A l \in Rounds!Levels : q[l] = <<>> => rr[l] = Rounds!NULL
  /\ \A l \in Rounds!Levels : \A k \in 1..Len(q[l]) : q[l][k] <= ln
  /\ \A t \in Rounds!Tasks : t > ln => nx[t] = Rounds!NULL

\* The levels that have been served stay empty, and "rr" uses only one.
Served(q, pol, lv) ==
  /\ pol = "rr" => \A l \in Rounds!Levels : l # MIN_PRIORITY => q[l] = <<>>
  /\ lv # Rounds!Adding => \A l \in Rounds!Levels : l > lv => q[l] = <<>>

RInv(q, pol, ln, nx, rr, bs, lv) ==
  /\ Shape(q, nx, rr)
  /\ bs \in [Rounds!Tasks -> Nat]
  /\ ln \in 0..MaxTasks
  /\ lv \in Rounds!Ended..Rounds!Adding
  /\ lv = Rounds!Adding => Input(q, ln, nx, rr)
  /\ Served(q, pol, lv)

RoundsInv == \E q : RInv(q, policy, lines, next, rear, burst, level)

\* The lists of the abstract specification.
Queue == [l \in Rounds!Levels |-> Rounds!Ready(l)]

\* They are the sequences of the invariant.
LEMMA QueueIs ==
  ASSUME NEW q, NEW nx, NEW rr, Shape(q, nx, rr)
  PROVE  [l \in Rounds!Levels |-> ReadyOf(nx, l)] = q
<1>1. \A l \in Rounds!Levels : ReadyOf(nx, l) = q[l]
  BY ReadyIs DEF Shape, LevelLists
<1> QED  BY <1>1 DEF Shape, LevelLists

\* The abstract lists are read off the pointers.
LEMMA QueueOf == Queue = [l \in Rounds!Levels |-> ReadyOf(next, l)]
  BY DEF Queue, Rounds!Ready, ReadyOf

\* And so they are after a step.
LEMMA QueueOfNext == Queue' = [l \in Rounds!Levels |-> ReadyOf(next', l)]
  BY DEF Queue, Rounds!Ready, ReadyOf

\* Where the levels are.
LEMMA LevelsAre ==
  /\ Rounds!Adding \notin Rounds!Levels /\ Rounds!Ended \notin Rounds!Levels
  /\ \A l \in Rounds!Levels : /\ l \in Int /\ l < Rounds!Adding /\ l # Rounds!Adding
                              /\ l \in Rounds!Ended..Rounds!Adding
                              /\ l - 1 \in Rounds!Ended..Rounds!Adding /\ l - 1 # Rounds!Adding
                              /\ l <= MAX_PRIORITY /\ l >= MIN_PRIORITY
  /\ MIN_PRIORITY \in Rounds!Levels /\ MAX_PRIORITY \in Rounds!Levels
  BY SchedulingConstants DEF Rounds!Levels, Rounds!Adding, Rounds!Ended

\* Before the first line the lists are empty.
LEMMA RoundsStart ==
  ASSUME Rounds!Fresh
  PROVE  RoundsInv /\ Queue = [l \in Rounds!Levels |-> <<>>]
<1> DEFINE q == [l \in Rounds!Levels |-> <<>>]
<1>1. /\ lines = 0 /\ next = [v \in Rounds!Nodes |-> Rounds!NULL]
      /\ rear = [l \in Rounds!Levels |-> Rounds!NULL] /\ burst = [t \in Rounds!Tasks |-> 0]
      /\ level = Rounds!Adding
  BY DEF Rounds!Fresh
<1>2. q \in LevelLists /\ \A l \in Rounds!Levels : q[l] = <<>> /\ Len(q[l]) = 0
  BY DEF LevelLists
<1> HIDE DEF q
<1>3. \A t \in Rounds!Tasks : next[t] = Rounds!NULL
  BY <1>1 DEF Rounds!Nodes
<1>4. \A l \in Rounds!Levels : Once(q[l]) /\ Chained(next, l, q[l]) /\ Foreign(q, l, q[l])
  <2> TAKE l \in Rounds!Levels
  <2>1. \A k \in 1..0 : FALSE
    OBVIOUS
  <2>2. \A k \in 0..0 : k = 0
    OBVIOUS
  <2>3. next[Rounds!head(l)] = Rounds!NULL
    BY <1>1, Headers
  <2>4. Place(l, q[l], 0) = Rounds!head(l) /\ Place(l, q[l], 0 + 1) = Rounds!NULL
    BY <1>2 DEF Place
  <2> QED  BY <1>2, <2>1, <2>2, <2>3, <2>4 DEF Once, Chained, Foreign
<1>5. Shape(q, next, rear)
  BY <1>1, <1>2, <1>4 DEF Shape, Pointers
<1>6. Input(q, lines, next, rear)
  <2>1. \A k \in 1..0 : FALSE
    OBVIOUS
  <2> QED  BY <1>1, <1>2, <1>3, <2>1 DEF Input
<1>7. lines \in 0..MaxTasks /\ level \in Rounds!Ended..Rounds!Adding
  BY <1>1, SchedulingConstants DEF Rounds!Adding, Rounds!Ended
<1>8. burst \in [Rounds!Tasks -> Nat]
  BY <1>1
<1>9. RInv(q, policy, lines, next, rear, burst, level)
  BY <1>1, <1>2, <1>5, <1>6, <1>7, <1>8 DEF RInv, Served
<1>10. Queue = q
  BY <1>5, QueueIs, QueueOf
<1> QED  BY <1>9, <1>10 DEF RoundsInv, q

\* A line of the input is read, and its task is added to the list of level l.
LEMMA ArriveStep ==
  ASSUME NEW q, RInv(q, policy, lines, next, rear, burst, level),
         NEW l \in Rounds!Levels, NEW time \in Bursts,
         policy = "rr" => l = MIN_PRIORITY,
         Rounds!ReadLine, Rounds!AppendNode(l, lines + 1, time)
  PROVE  RoundsInv' /\ Rounds!Queues!Arrive(lines + 1, l, time)
<1> DEFINE t == lines + 1
           u == Append(q[l], t)
           q2 == [q EXCEPT ![l] = u]
<1>1. /\ level = Rounds!Adding /\ lines' = t /\ t \in 1..MaxTasks
      /\ policy' = policy /\ level' = level /\ quanta' = quanta
  <2>1. lines \in 0..MaxTasks /\ MaxTasks \in Nat
    BY SchedulingConstants DEF RInv
  <2> QED  BY <2>1 DEF Rounds!ReadLine
<1>2. t \in Rounds!Tasks /\ t \in Nat /\ t > lines /\ lines \in Nat
  BY <1>1, SchedulingConstants DEF Rounds!Tasks, RInv
<1>3. Shape(q, next, rear) /\ Input(q, lines, next, rear) /\ Served(q, policy, level)
  BY <1>1 DEF RInv
<1>4. /\ next' = [next EXCEPT ![Behind(rear, l)] = t] /\ rear' = [rear EXCEPT ![l] = t]
      /\ burst' = [burst EXCEPT ![t] = time]
  BY DEF Rounds!AppendNode, Behind
<1> HIDE DEF t
<1>5. \A m \in Rounds!Levels : q[m] \in Seq(Rounds!Tasks)
  BY <1>3 DEF Shape, LevelLists
<1>6. \A m \in Rounds!Levels : \A k \in 1..Len(q[m]) : q[m][k] # t
  <2> TAKE m \in Rounds!Levels
  <2> TAKE k \in 1..Len(q[m])
  <2>1. q[m][k] <= lines
    BY <1>3 DEF Input
  <2>2. q[m][k] \in Nat
    BY <1>5, LenProperties, Headers
  <2> QED  BY <1>2, <2>1, <2>2
<1>7. Foreign(q, l, <<t>>)
  <2>1. Len(<<t>>) = 1 /\ <<t>>[1] = t
    OBVIOUS
  <2>2. \A j \in 1..1 : j = 1
    OBVIOUS
  <2> HIDE DEF Foreign
  <2> QED  BY <1>6, <2>1, <2>2 DEF Foreign
<1>8. next[t] = Rounds!NULL /\ (q[l] = <<>> => rear[l] = Rounds!NULL)
  BY <1>2, <1>3 DEF Input
<1>9. Shape(q2, next', rear')
  BY <1>2, <1>3, <1>4, <1>6, <1>7, <1>8, AppendShapes
<1>10. /\ u \in Seq(Rounds!Tasks) /\ Len(u) = Len(q[l]) + 1 /\ u[Len(q[l]) + 1] = t /\ Len(q[l]) \in Nat
       /\ \A k \in 1..Len(q[l]) : u[k] = q[l][k]
  BY <1>2, <1>5, AppendProperties, LenProperties
<1>11. /\ q2[l] = u /\ \A m \in Rounds!Levels : m # l => q2[m] = q[m]
  BY <1>3 DEF Shape, LevelLists
<1> HIDE DEF q2, u
<1>12. u # <<>>
  BY <1>10, EmptySeq
<1>13. Input(q2, t, next', rear')
  <2>1. \A m \in Rounds!Levels : q2[m] = <<>> => rear'[m] = Rounds!NULL
    <3> TAKE m \in Rounds!Levels
    <3>1. m # l => rear'[m] = rear[m]
      BY <1>3, <1>4 DEF Shape
    <3> QED  BY <1>3, <1>11, <1>12, <3>1 DEF Input
  <2>2. \A m \in Rounds!Levels : \A k \in 1..Len(q2[m]) : q2[m][k] <= t
    <3> TAKE m \in Rounds!Levels
    <3>1. \A k \in 1..Len(q[m]) : q[m][k] <= t
      <4> TAKE k \in 1..Len(q[m])
      <4>1. q[m][k] <= lines
        BY <1>3 DEF Input
      <4>2. q[m][k] \in Nat
        BY <1>5, LenProperties, Headers
      <4> QED  BY <1>2, <4>1, <4>2
    <3>2. CASE m # l
      BY <1>11, <3>1, <3>2
    <3>3. CASE m = l
      <4>1. \A k \in 1..(Len(q[l])+1) : k = Len(q[l]) + 1 \/ k \in 1..Len(q[l])
        BY <1>10
      <4>2. t <= t
        BY <1>2
      <4> QED  BY <1>10, <1>11, <3>1, <3>3, <4>1, <4>2
    <3> QED  BY <3>2, <3>3
  <2>3. \A v \in Rounds!Tasks : v > t => next'[v] = Rounds!NULL
    <3> SUFFICES ASSUME NEW v \in Rounds!Tasks, v > t  PROVE next'[v] = Rounds!NULL
      OBVIOUS
    <3>1. v \in Nat /\ v > lines /\ v \in Rounds!Nodes
      BY <1>2, Headers
    <3>2. next[v] = Rounds!NULL
      BY <1>3, <3>1 DEF Input
    <3>3. v # Behind(rear, l)
      <4>1. CASE q[l] = <<>>
        BY <1>8, <4>1, Headers DEF Behind
      <4>2. CASE q[l] # <<>>
        <5>1. Len(q[l]) \in 1..Len(q[l])
          BY <1>5, <1>10, <4>2, EmptySeq
        <5>2. rear[l] = q[l][Len(q[l])]
          BY <1>3, <4>2 DEF Shape
        <5>3. rear[l] <= lines /\ rear[l] \in Rounds!Tasks
          BY <1>3, <1>5, <5>1, <5>2, LenProperties DEF Input
        <5>4. rear[l] \in Nat /\ rear[l] # Rounds!NULL
          BY <5>3, Headers
        <5>5. v # rear[l]
          BY <1>2, <3>1, <5>3, <5>4
        <5> QED  BY <5>4, <5>5 DEF Behind
      <4> QED  BY <4>1, <4>2
    <3>4. next'[v] = next[v]
      BY <1>3, <1>4, <3>1, <3>3 DEF Shape, Pointers
    <3> QED  BY <3>2, <3>4
  <2> QED  BY <2>1, <2>2, <2>3 DEF Input
<1>14. Served(q2, policy, level)
  BY <1>1, <1>3, <1>11 DEF Served
<1>15. burst' \in [Rounds!Tasks -> Nat]
  <2>1. time \in Nat /\ burst \in [Rounds!Tasks -> Nat]
    BY SchedulingConstants DEF RInv
  <2> QED  BY <1>4, <2>1
<1>16. t \in 0..MaxTasks /\ level \in Rounds!Ended..Rounds!Adding
  BY <1>1, SchedulingConstants DEF RInv
<1>17. RInv(q2, policy', lines', next', rear', burst', level')
  BY <1>1, <1>9, <1>13, <1>14, <1>15, <1>16 DEF RInv
<1>18. Queue = q /\ Queue' = q2
  BY <1>3, <1>9, QueueIs, QueueOf, QueueOfNext
<1>19. Rounds!Queues!Arrive(t, l, time)
  <2>1. \A m \in Rounds!Levels : \A k \in DOMAIN q[m] : q[m][k] # t
    BY <1>5, <1>6, LenProperties
  <2> QED  BY <1>1, <1>4, <1>18, <2>1 DEF Rounds!Queues!Arrive, Queue, q2, u
<1>20. RoundsInv'
  BY <1>17 DEF RoundsInv
<1> QED  BY <1>19, <1>20 DEF t

\* What the front of the level that is served tells.
LEMMA FrontIs ==
  ASSUME NEW q, RInv(q, policy, lines, next, rear, burst, level), level \in Rounds!Levels
  PROVE  /\ Rounds!First = Rounds!NULL <=> q[level] = <<>>
         /\ q[level] # <<>> => /\ Rounds!First = q[level][1] /\ Rounds!First \in Rounds!Tasks
                               /\ Head(q[level]) = Rounds!First
<1>1. Shape(q, next, rear) /\ q[level] \in Seq(Rounds!Tasks)
  BY DEF RInv, Shape, LevelLists
<1>2. CASE q[level] = <<>>
  <2>1. next[Place(level, q[level], 0)] = Place(level, q[level], 0 + 1)
    <3>1. Len(q[level]) = 0 /\ 0 \in 0..0
      BY <1>2
    <3> QED  BY <1>1, <3>1 DEF Shape, Chained
  <2>2. Place(level, q[level], 0) = Rounds!head(level) /\ Place(level, q[level], 0 + 1) = Rounds!NULL
    BY <1>2 DEF Place
  <2> QED  BY <1>2, <2>1, <2>2 DEF Rounds!First
<1>3. CASE q[level] # <<>>
  <2>1. Rounds!First = q[level][1] /\ q[level][1] \in Rounds!Tasks
    BY <1>1, <1>3, TailShapes DEF Rounds!First
  <2>2. Head(q[level]) = q[level][1]
    BY <1>1, <1>3, TailIs
  <2> QED  BY <1>3, <2>1, <2>2, Headers
<1> QED  BY <1>2, <1>3

\* What a quantum takes from the task at the front.
LEMMA SliceIs ==
  ASSUME burst \in [Rounds!Tasks -> Nat], NEW t \in Rounds!Tasks
  PROVE  /\ Rounds!Slice(t) = (IF burst[t] < TIME THEN burst[t] ELSE TIME)
         /\ burst[t] - Rounds!Slice(t) \in Nat
         /\ burst[t] = Rounds!Slice(t) => burst[t] - Rounds!Slice(t) = 0
<1>1. burst[t] \in Nat /\ TIME \in Nat
  BY SchedulingConstants
<1>2. Rounds!Slice(t) = IF TIME < burst[t] THEN TIME ELSE burst[t]
  BY DEF Rounds!Slice
<1> QED  BY <1>1, <1>2

\* The front task gets a quantum: common to both branches of the loop.
LEMMA RunStep ==
  ASSUME NEW q, RInv(q, policy, lines, next, rear, burst, level),
         level \in Rounds!Levels, q[level] # <<>>,
         Rounds!Charge(Rounds!First), UNCHANGED level,
         NEW u, u = IF burst[Rounds!First] = Rounds!Slice(Rounds!First) THEN Tail(q[level])
                    ELSE Append(Tail(q[level]), Rounds!First),
         Shape([q EXCEPT ![level] = u], next', rear'),
         burst' = [burst EXCEPT ![Rounds!First] = @ - Rounds!Slice(Rounds!First)]
  PROVE  RoundsInv' /\ Rounds!Queues!Run(level)
<1> DEFINE t == Rounds!First
           q2 == [q EXCEPT ![level] = u]
<1>1. Shape(q, next, rear) /\ Served(q, policy, level) /\ burst \in [Rounds!Tasks -> Nat]
  BY DEF RInv
<1>2. t = Head(q[level]) /\ t \in Rounds!Tasks
  BY FrontIs
<1>3. /\ quanta' = Append(quanta, <<t, Rounds!Slice(t)>>)
      /\ policy' = policy /\ lines' = lines /\ level' = level
  BY DEF Rounds!Charge
<1> HIDE DEF t
<1>4. /\ Rounds!Slice(t) = (IF burst[t] < TIME THEN burst[t] ELSE TIME)
      /\ burst[t] - Rounds!Slice(t) \in Nat
  BY <1>1, <1>2, SliceIs
<1>5. burst' \in [Rounds!Tasks -> Nat] /\ burst' = [burst EXCEPT ![t] = @ - Rounds!Slice(t)]
  BY <1>1, <1>4 DEF t
<1>6. q2[level] = u /\ \A m \in Rounds!Levels : m # level => q2[m] = q[m]
  BY <1>1 DEF Shape, LevelLists
<1>7. Served(q2, policy, level)
  <2>1. \A l \in Rounds!Levels : l > level => l # level
    BY LevelsAre
  <2> QED  BY <1>1, <1>6, <2>1, LevelsAre DEF Served
<1>8. level # Rounds!Adding /\ lines \in 0..MaxTasks /\ level \in Rounds!Ended..Rounds!Adding
  BY LevelsAre DEF RInv
<1>9. RInv(q2, policy', lines', next', rear', burst', level')
  BY <1>3, <1>5, <1>7, <1>8 DEF RInv
<1>10. Queue = q /\ Queue' = q2
  BY <1>1, QueueIs, QueueOf, QueueOfNext
<1>11. \A m \in Rounds!Levels : m > level => q[m] = <<>>
  BY <1>1, <1>8 DEF Served
<1>12. u = IF burst[t] = Rounds!Slice(t) THEN Tail(q[level]) ELSE Append(Tail(q[level]), t)
  BY DEF t
<1>13. Rounds!Queues!Run(level)
  BY <1>2, <1>3, <1>4, <1>5, <1>10, <1>11, <1>12 DEF Rounds!Queues!Run, Queue
<1> QED  BY <1>9, <1>13 DEF RoundsInv

\* The task at the front finishes.
LEMMA CompleteStep ==
  ASSUME RoundsInv, Rounds!Complete
  PROVE  RoundsInv' /\ \E l \in Rounds!Levels : Rounds!Queues!Run(l)
<1>1. PICK q : RInv(q, policy, lines, next, rear, burst, level)
  BY DEF RoundsInv
<1> DEFINE t == Rounds!First
<1>2. /\ Rounds!Charge(t) /\ level \in Rounds!Levels /\ t # Rounds!NULL /\ UNCHANGED level
      /\ burst[t] = Rounds!Slice(t) /\ burst' = [burst EXCEPT ![t] = 0]
      /\ next' = [next EXCEPT ![Rounds!head(level)] = next[t]] /\ rear' = rear
  BY DEF Rounds!Complete, Rounds!Charge
<1>3. q[level] # <<>> /\ t = q[level][1] /\ t \in Rounds!Tasks
  BY <1>1, <1>2, FrontIs
<1>4. Shape(q, next, rear) /\ burst \in [Rounds!Tasks -> Nat]
  BY <1>1 DEF RInv
<1>5. Shape([q EXCEPT ![level] = Tail(q[level])], next', rear')
  BY <1>2, <1>3, <1>4, TailShapes
<1> HIDE DEF t
<1>6. burst[t] - Rounds!Slice(t) = 0
  BY <1>2, <1>3, <1>4, SliceIs
<1>7. burst' = [burst EXCEPT ![t] = @ - Rounds!Slice(t)]
  BY <1>2, <1>4, <1>6
<1> QED  BY <1>1, <1>2, <1>3, <1>5, <1>7, RunStep DEF t

\* The task at the front goes to the back.
LEMMA RotateStep ==
  ASSUME RoundsInv, Rounds!Rotate
  PROVE  RoundsInv' /\ \E l \in Rounds!Levels : Rounds!Queues!Run(l)
<1>1. PICK q : RInv(q, policy, lines, next, rear, burst, level)
  BY DEF RoundsInv
<1> DEFINE t == Rounds!First
<1>2. /\ Rounds!Charge(t) /\ level \in Rounds!Levels /\ t # Rounds!NULL /\ UNCHANGED level
      /\ burst[t] # Rounds!Slice(t) /\ burst' = [burst EXCEPT ![t] = @ - Rounds!Slice(t)]
      /\ next' = Rotated(next, level, t, rear[level]) /\ rear' = [rear EXCEPT ![level] = t]
  BY DEF Rounds!Rotate, Rounds!Charge, Rotated
<1>3. q[level] # <<>> /\ t = q[level][1] /\ t \in Rounds!Tasks
  BY <1>1, <1>2, FrontIs
<1>4. Shape(q, next, rear)
  BY <1>1 DEF RInv
<1>5. Shape([q EXCEPT ![level] = Append(Tail(q[level]), t)], next', rear')
  BY <1>2, <1>3, <1>4, RotateShapes
<1> QED  BY <1>1, <1>2, <1>3, <1>5, RunStep

\* A step that leaves the lists and the bursts alone.
LEMMA QuietStep ==
  ASSUME NEW q, RInv(q, policy, lines, next, rear, burst, level),
         UNCHANGED <<policy, next, rear, burst, quanta>>,
         lines' \in 0..MaxTasks, level' \in Rounds!Ended..Rounds!Adding,
         level' = Rounds!Adding => Input(q, lines', next, rear),
         Served(q, policy, level')
  PROVE  RoundsInv' /\ UNCHANGED <<Queue, burst, quanta>>
<1>1. RInv(q, policy', lines', next', rear', burst', level')
  BY DEF RInv
<1>2. Queue' = Queue
  BY QueueOf, QueueOfNext
<1> QED  BY <1>1, <1>2 DEF RoundsInv

\* A task with an invalid priority is left out.
LEMMA InvalidStep ==
  ASSUME RoundsInv, NEW priority, Rounds!InvalidPriority(priority)
  PROVE  RoundsInv' /\ UNCHANGED <<Queue, burst, quanta>>
<1>1. PICK q : RInv(q, policy, lines, next, rear, burst, level)
  BY DEF RoundsInv
<1>2. /\ level = Rounds!Adding /\ lines' = lines + 1 /\ lines < MaxTasks
      /\ UNCHANGED <<policy, next, rear, burst, quanta, level>>
  BY DEF Rounds!InvalidPriority, Rounds!ReadLine, Rounds!listVars
<1>3. lines \in Nat /\ lines + 1 \in 0..MaxTasks
  <2>1. lines \in 0..MaxTasks /\ MaxTasks \in Nat
    BY <1>1, SchedulingConstants DEF RInv
  <2> QED  BY <1>2, <2>1
<1>4. Input(q, lines, next, rear) /\ Shape(q, next, rear)
  BY <1>1, <1>2 DEF RInv
<1>5. Input(q, lines + 1, next, rear)
  <2>1. \A l \in Rounds!Levels : \A k \in 1..Len(q[l]) : q[l][k] <= lines + 1
    <3> TAKE l \in Rounds!Levels
    <3> TAKE k \in 1..Len(q[l])
    <3>1. q[l][k] <= lines
      BY <1>4 DEF Input
    <3>2. q[l][k] \in Nat
      BY <1>4, LenProperties, Headers DEF Shape, LevelLists
    <3> QED  BY <1>3, <3>1, <3>2
  <2>2. \A t \in Rounds!Tasks : t > lines + 1 => t > lines
    BY <1>3, Headers
  <2> QED  BY <1>4, <2>1, <2>2 DEF Input
<1> QED  BY <1>1, <1>2, <1>3, <1>5, QuietStep DEF RInv

\* schedule() starts at the highest level.
LEMMA StartStep ==
  ASSUME RoundsInv, policy \in Rounds!Policies, Rounds!StartSchedule
  PROVE  RoundsInv' /\ UNCHANGED <<Queue, burst, quanta>>
<1>1. PICK q : RInv(q, policy, lines, next, rear, burst, level)
  BY DEF RoundsInv
<1>2. /\ level' = Rounds!FirstLevel
      /\ UNCHANGED <<policy, lines, next, rear, burst, quanta>>
  BY DEF Rounds!StartSchedule, Rounds!listVars
<1>3. level' \in Rounds!Levels /\ level' # Rounds!Adding /\ level' \in Rounds!Ended..Rounds!Adding
  BY <1>2, LevelsAre DEF Rounds!FirstLevel
<1>4. Served(q, policy, level')
  <2>1. Served(q, policy, level)
    BY <1>1 DEF RInv
  <2>2. CASE policy = "rr"
    <3>1. \A l \in Rounds!Levels : l > MIN_PRIORITY => l # MIN_PRIORITY
      BY LevelsAre
    <3> QED  BY <1>2, <2>1, <2>2, <3>1 DEF Served, Rounds!FirstLevel
  <2>3. CASE policy # "rr"
    <3>1. \A l \in Rounds!Levels : ~(l > MAX_PRIORITY)
      BY LevelsAre
    <3> QED  BY <1>2, <2>3, <3>1 DEF Served, Rounds!FirstLevel
  <2> QED  BY <2>2, <2>3
<1> QED  BY <1>1, <1>2, <1>3, <1>4, QuietStep DEF RInv

\* A level is empty: on to the next.
LEMMA NextLevelStep ==
  ASSUME RoundsInv, Rounds!NextLevel
  PROVE  RoundsInv' /\ UNCHANGED <<Queue, burst, quanta>>
<1>1. PICK q : RInv(q, policy, lines, next, rear, burst, level)
  BY DEF RoundsInv
<1>2. /\ level \in Rounds!Levels /\ Rounds!First = Rounds!NULL /\ level' = level - 1
      /\ UNCHANGED <<policy, lines, next, rear, burst, quanta>>
  BY DEF Rounds!NextLevel, Rounds!listVars
<1>3. level' \in Rounds!Ended..Rounds!Adding /\ level' # Rounds!Adding /\ level # Rounds!Adding
  BY <1>2, LevelsAre
<1>4. q[level] = <<>>
  BY <1>1, <1>2, FrontIs
<1>5. Served(q, policy, level')
  <2>1. Served(q, policy, level)
    BY <1>1 DEF RInv
  <2>2. \A l \in Rounds!Levels : l > level - 1 => l = level \/ l > level
    BY <1>2, LevelsAre
  <2> QED  BY <1>2, <1>3, <1>4, <2>1, <2>2 DEF Served
<1> QED  BY <1>1, <1>2, <1>3, <1>5, QuietStep DEF RInv

\* Every step of the driver is one of the ready queues, or none of theirs.
LEMMA RoundsStep ==
  ASSUME RoundsInv, [DriverNext]_driverVars
  PROVE  RoundsInv' /\ [Rounds!Queues!Next]_<<Queue, burst, quanta>>
<1>1. CASE RunsLists
  <2>1. UNCHANGED <<policy, lines, next, rear, burst, level, quanta>>
    BY <1>1 DEF RunsLists, roundVars, Lists!Next, Lists!AddFCFS, Lists!AddSJF, Lists!AddPriority,
                Lists!Add, Lists!StartSchedule, Lists!RunFirst, Lists!Ended, Lists!vars
  <2> QED  BY <2>1, QueueOf, QueueOfNext DEF RoundsInv
<1>2. CASE UNCHANGED driverVars
  <2>1. UNCHANGED <<policy, lines, next, rear, burst, level, quanta>>
    BY <1>2 DEF driverVars, roundVars
  <2> QED  BY <2>1, QueueOf, QueueOfNext DEF RoundsInv
<1>3. CASE RunsRounds
  <2>1. policy \in Rounds!Policies /\ Rounds!Next
    BY <1>3 DEF RunsRounds
  <2>2. ASSUME NEW l \in Rounds!Levels, NEW time \in Bursts, policy = "rr" => l = MIN_PRIORITY,
               Rounds!ReadLine, Rounds!AppendNode(l, lines + 1, time)
        PROVE  RoundsInv' /\ Rounds!Queues!Next
    <3>1. PICK q : RInv(q, policy, lines, next, rear, burst, level)
      BY DEF RoundsInv
    <3>2. RoundsInv' /\ Rounds!Queues!Arrive(lines + 1, l, time)
      BY <2>2, <3>1, ArriveStep
    <3>3. lines + 1 \in Rounds!Tasks
      <4>1. lines \in 0..MaxTasks /\ lines < MaxTasks /\ MaxTasks \in Nat
        BY <2>2, <3>1, SchedulingConstants DEF RInv, Rounds!ReadLine
      <4> QED  BY <4>1 DEF Rounds!Tasks
    <3> QED  BY <2>2, <3>2, <3>3 DEF Rounds!Queues!Next
  <2>3. ASSUME NEW time \in Bursts, Rounds!AddRR(time)  PROVE RoundsInv' /\ Rounds!Queues!Next
    BY <2>2, <2>3, LevelsAre DEF Rounds!AddRR
  <2>4. ASSUME NEW priority \in Priorities, NEW time \in Bursts, Rounds!AddPriorityRR(priority, time)
        PROVE  RoundsInv' /\ Rounds!Queues!Next
    BY <2>2, <2>4 DEF Rounds!AddPriorityRR
  <2>5. ASSUME NEW priority \in Priorities, Rounds!InvalidPriority(priority)
        PROVE  RoundsInv' /\ UNCHANGED <<Queue, burst, quanta>>
    BY <2>5, InvalidStep
  <2>6. CASE Rounds!StartSchedule
    BY <2>1, <2>6, StartStep
  <2>7. CASE Rounds!Complete \/ Rounds!Rotate
    BY <2>7, CompleteStep, RotateStep DEF Rounds!Queues!Next
  <2>8. CASE Rounds!NextLevel
    BY <2>8, NextLevelStep
  <2>9. CASE Rounds!Exit
    <3>1. UNCHANGED <<policy, lines, next, rear, burst, level, quanta>>
      BY <2>9 DEF Rounds!Exit, Rounds!vars, Rounds!listVars
    <3> QED  BY <3>1, QueueOf, QueueOfNext DEF RoundsInv
  <2> QED  BY <2>1, <2>3, <2>4, <2>5, <2>6, <2>7, <2>8, <2>9 DEF Rounds!Next, Rounds!Scheduler
<1> QED  BY <1>1, <1>2, <1>3 DEF DriverNext

\* What the invariant says of the lists that the model reads off the pointers.
LEMMA RoundsInvMeans == RoundsInv => ListsWellFormed
<1> SUFFICES ASSUME NEW q, RInv(q, policy, lines, next, rear, burst, level)  PROVE ListsWellFormed
  BY DEF RoundsInv
<1>1. Shape(q, next, rear) /\ \A l \in Rounds!Levels : q[l] \in Seq(Rounds!Tasks)
  BY DEF RInv, Shape, LevelLists
<1>2. \A l \in Rounds!Levels : Rounds!Ready(l) = q[l]
  <2>1. \A l \in Rounds!Levels : Queue[l] = q[l]
    BY <1>1, QueueIs, QueueOf
  <2> QED  BY <2>1 DEF Queue
<1>3. ASSUME NEW l \in Rounds!Levels  PROVE Len(q[l]) <= MaxTasks /\ DOMAIN q[l] = 1..Len(q[l])
  BY <1>1, <1>3, ReadyIs, LenProperties DEF Shape
<1>4. ASSUME NEW l \in Rounds!Levels, NEW m \in Rounds!Levels,
             NEW k \in DOMAIN q[l], NEW j \in DOMAIN q[m], q[l][k] = q[m][j]
      PROVE  k = j /\ l = m
  <2>1. k \in 1..Len(q[l]) /\ j \in 1..Len(q[m])
    BY <1>3
  <2>2. Once(q[l]) /\ Foreign(q, l, q[l])
    BY <1>1 DEF Shape
  <2>3. m = l
    BY <1>4, <2>1, <2>2 DEF Foreign
  <2> QED  BY <1>4, <2>1, <2>2, <2>3 DEF Once
<1>5. \A l \in Rounds!Levels : q[l] # <<>> => rear[l] = q[l][Len(q[l])]
  BY <1>1 DEF Shape
<1> QED  BY <1>2, <1>3, <1>4, <1>5 DEF ListsWellFormed, Rounds!ListsWellFormed

\* However often a list has been rotated, it ends, and rear is its last node.
THEOREM ListsStayWellFormed == DriverSpec => []ListsWellFormed
<1>1. DriverInit => RoundsInv
  BY RoundsStart DEF DriverInit
<1>2. RoundsInv /\ [DriverNext]_driverVars => RoundsInv'
  BY RoundsStep
<1> QED  BY <1>1, <1>2, RoundsInvMeans, PTL DEF DriverSpec

\* Both round-robin programs are ready queues.
THEOREM ImplementsReadyQueues == DriverSpec => IsReadyQueues
<1>1. DriverInit => RoundsInv /\ Rounds!Queues!Init
  BY RoundsStart DEF DriverInit, Rounds!Queues!Init, Queue, Rounds!Fresh
<1>2. RoundsInv /\ [DriverNext]_driverVars =>
        RoundsInv' /\ [Rounds!Queues!Next]_<<[l \in Rounds!Levels |-> Rounds!Ready(l)], burst, quanta>>
  BY RoundsStep DEF Queue
<1> QED  BY <1>1, <1>2, PTL DEF DriverSpec, IsReadyQueues, Rounds!IsReadyQueues, Rounds!Queues!Spec
=============================================================================
