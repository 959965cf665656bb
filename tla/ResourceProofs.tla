--------------------------- MODULE ResourceProofs ---------------------------
(***************************************************************************)
(* The two managers of a resource: Banker, then Allocator.                 *)
(*                                                                         *)
(* Banker, for any number of customers and resources and any amounts: the  *)
(* units are conserved, safety() accepts exactly the states that are safe  *)
(* by the textbook definition, and so the bank stays safe.                 *)
(*                                                                         *)
(* What makes the work is the two nested loops of safety() and the sums:   *)
(* facts about recursive functions, proved by induction on their argument. *)
(*   - sound: as the scan finishes customers it builds the order (Orderly);*)
(*   - complete: N passes end in a scan in which nobody is left to finish  *)
(*     (PassesWork), and what is free then is at least what is free at any *)
(*     point of a safe order (PartLess), so the order finishes everybody.  *)
(*                                                                         *)
(* Allocator, for any size of the memory, any processes and any requests:  *)
(* the processes stay apart, the three searches find what their names say, *)
(* compaction gathers the free memory and show_status accounts for all of  *)
(* it.                                                                     *)
(*                                                                         *)
(* The searches, release, compaction and the report are loops over the     *)
(* list; for each a lemma says what its recursive function goes through    *)
(* (FirstFitDef, KeptDef, ...) and another what it returns (FirstFitIs,    *)
(* ReleaseKeeps, ...), by induction on the nodes looked at.                *)
(***************************************************************************)
EXTENDS Banker, Allocator, ProofLemmas

-----------------------------------------------------------------------------
(* Banker. *)

N == NUMBER_OF_CUSTOMERS
Vectors  == [Resources -> Nat]
Matrices == [Customers -> Vectors]
Scans    == [work : Vectors, finish : SUBSET Customers]

\* N is a positive number.
LEMMA NType == N \in Nat /\ N # 0
  BY BankerAssumption DEF N

\* The customers are numbered from 0.
LEMMA CustomersAre == Customers = 0..(N-1)
  BY DEF N, Customers

\* The n-th look is at customer n - 1.
LEMMA Previous == \A n \in 1..N : n - 1 \in Customers /\ n - 1 \in 0..N /\ n \in 0..N
  BY NType, CustomersAre

\* The ends of the recursions' domain.
LEMMA Ends == 0 \in 0..N /\ N \in 0..N
  BY NType
-----------------------------------------------------------------------------
(* Sums over the customers. *)

\* SumOf adds the terms up one by one.
LEMMA SumDef ==
  ASSUME NEW v \in [Customers -> Int]
  PROVE  \E s \in [0..N -> Int] :
           /\ s[0] = 0 /\ \A n \in 1..N : s[n] = s[n-1] + v[n-1]
           /\ SumOf(v) = s[N]
<1> DEFINE step == [n \in 1..N |-> [x \in Int |-> x + v[n-1]]]
           g == CHOOSE g : g = [n \in 0..N |-> IF n = 0 THEN 0 ELSE g[n-1] + v[n-1]]
<1>1. step \in Steps(N, Int) /\ 0 \in Int /\ N \in Nat
  BY NType, Previous DEF Steps
<1>2. \A n \in 1..N, x \in Int : step[n][x] = x + v[n-1]
  OBVIOUS
<1> HIDE DEF step
<1>3. PICK s : Recursive(s, N, Int, 0, step)
  BY <1>1, RecursionExists
<1>4. /\ s \in [0..N -> Int] /\ s[0] = 0
      /\ \A n \in 1..N : s[n-1] \in Int /\ s[n] = s[n-1] + v[n-1]
  <2>1. s \in [0..N -> Int] /\ s[0] = 0 /\ \A n \in 1..N : s[n] = step[n][s[n-1]]
    BY <1>3 DEF Recursive
  <2>2. \A n \in 1..N : s[n-1] \in Int
    BY <2>1, Previous
  <2> QED  BY <1>2, <2>1, <2>2
<1>5. s = [n \in 0..N |-> IF n = 0 THEN 0 ELSE s[n-1] + v[n-1]]
  BY <1>4
<1>6. g = [n \in 0..N |-> IF n = 0 THEN 0 ELSE g[n-1] + v[n-1]]
  BY <1>5
<1>7. SumOf(v) = g[N]
  BY DEF SumOf, N
<1> HIDE DEF g
<1>8. g[0] = s[0]
  BY <1>4, <1>6, Ends
<1>9. \A n \in 1..N : g[n-1] = s[n-1] => g[n] = s[n]
  BY <1>4, <1>6, Previous
<1>10. SameSteps(N, g, s)
  BY <1>8, <1>9 DEF SameSteps
<1>11. \A n \in 0..N : g[n] = s[n]
  BY <1>1, <1>10, RecursionUnique
<1> QED  BY <1>4, <1>7, <1>11, Ends

\* A sum of integers is an integer.
LEMMA SumInt ==
  ASSUME NEW v \in [Customers -> Int]
  PROVE  SumOf(v) \in Int
  BY SumDef, Ends

\* A sum of smaller terms is not larger.
LEMMA SumLess ==
  ASSUME NEW v \in [Customers -> Int], NEW w \in [Customers -> Int],
         \A c \in Customers : v[c] <= w[c]
  PROVE  SumOf(v) <= SumOf(w)
<1>1. PICK s \in [0..N -> Int] :
        /\ s[0] = 0 /\ \A n \in 1..N : s[n] = s[n-1] + v[n-1]
        /\ SumOf(v) = s[N]
  BY SumDef
<1>2. PICK t \in [0..N -> Int] :
        /\ t[0] = 0 /\ \A n \in 1..N : t[n] = t[n-1] + w[n-1]
        /\ SumOf(w) = t[N]
  BY SumDef
<1> DEFINE S == {n \in 0..N : s[n] <= t[n]}
<1>3. 0 \in S
  BY <1>1, <1>2, Ends
<1>4. ASSUME NEW n \in 1..N, n - 1 \in S  PROVE n \in S
  <2>1. /\ s[n] = s[n-1] + v[n-1] /\ t[n] = t[n-1] + w[n-1] /\ s[n-1] <= t[n-1]
    BY <1>1, <1>2, <1>4
  <2>2. /\ s[n-1] \in Int /\ t[n-1] \in Int /\ v[n-1] \in Int /\ w[n-1] \in Int
        /\ v[n-1] <= w[n-1] /\ n \in 0..N
    BY Previous
  <2> QED  BY <2>1, <2>2
<1> HIDE DEF S
<1>5. 0..N \subseteq S
  BY <1>3, <1>4, NType, BoundedInduction
<1> QED  BY <1>1, <1>2, <1>5, Ends DEF S

\* A change of one term changes the sum by as much.
LEMMA SumChange ==
  ASSUME NEW v \in [Customers -> Int], NEW w \in [Customers -> Int],
         NEW c \in Customers, \A d \in Customers \ {c} : w[d] = v[d]
  PROVE  SumOf(w) = SumOf(v) + (w[c] - v[c])
<1>1. PICK s \in [0..N -> Int] :
        /\ s[0] = 0 /\ \A n \in 1..N : s[n] = s[n-1] + v[n-1]
        /\ SumOf(v) = s[N]
  BY SumDef
<1>2. PICK t \in [0..N -> Int] :
        /\ t[0] = 0 /\ \A n \in 1..N : t[n] = t[n-1] + w[n-1]
        /\ SumOf(w) = t[N]
  BY SumDef
<1> DEFINE S == {n \in 0..N : t[n] = s[n] + (IF n <= c THEN 0 ELSE w[c] - v[c])}
<1>3. 0 \in S
  BY <1>1, <1>2, Ends, CustomersAre
<1>4. ASSUME NEW n \in 1..N, n - 1 \in S  PROVE n \in S
  <2>0. s[n] = s[n-1] + v[n-1] /\ t[n] = t[n-1] + w[n-1]
    BY <1>1, <1>2
  <2>1. /\ s[n-1] \in Int /\ t[n-1] \in Int /\ v[n-1] \in Int /\ w[n-1] \in Int
        /\ c \in Int /\ v[c] \in Int /\ w[c] \in Int /\ n \in 0..N
    BY Previous, CustomersAre
  <2>2. t[n-1] = s[n-1] + (IF n - 1 <= c THEN 0 ELSE w[c] - v[c])
    BY <1>4
  <2>3. CASE n - 1 = c
    BY <2>0, <2>1, <2>2, <2>3
  <2>4. CASE n - 1 # c
    <3>1. w[n-1] = v[n-1]
      BY <2>4, Previous
    <3> QED  BY <2>0, <2>1, <2>2, <2>4, <3>1
  <2> QED  BY <2>3, <2>4
<1> HIDE DEF S
<1>5. 0..N \subseteq S
  BY <1>3, <1>4, NType, BoundedInduction
<1>6. t[N] = s[N] + (w[c] - v[c])
  BY <1>5, NType, CustomersAre DEF S
<1> QED  BY <1>1, <1>2, <1>6

\* A sum of zeros is zero.
LEMMA SumZero ==
  ASSUME NEW v \in [Customers -> Int], \A c \in Customers : v[c] = 0
  PROVE  SumOf(v) = 0
<1>1. PICK s \in [0..N -> Int] :
        /\ s[0] = 0 /\ \A n \in 1..N : s[n] = s[n-1] + v[n-1]
        /\ SumOf(v) = s[N]
  BY SumDef
<1> DEFINE S == {n \in 0..N : s[n] = 0}
<1>2. 0 \in S
  BY <1>1, Ends
<1>3. ASSUME NEW n \in 1..N, n - 1 \in S  PROVE n \in S
  BY <1>1, <1>3, Previous
<1> HIDE DEF S
<1>4. 0..N \subseteq S
  BY <1>2, <1>3, NType, BoundedInduction
<1> QED  BY <1>1, <1>4, Ends DEF S

-----------------------------------------------------------------------------
(* The scan. *)

\* A look at a customer leaves a state of the scan.
LEMMA LookType ==
  ASSUME NEW s \in Scans, NEW i \in Customers, NEW alloc \in Matrices, NEW nd \in Matrices
  PROVE  Look(s, i, alloc, nd) \in Scans
  BY DEF Look, Scans, Matrices, Vectors, Plus

\* A pass is a look at every customer in turn.
LEMMA PassDef ==
  ASSUME NEW start \in Scans, NEW alloc \in Matrices, NEW nd \in Matrices
  PROVE  \E s \in [0..N -> Scans] :
           /\ s[0] = start
           /\ \A n \in 1..N : s[n] = Look(s[n-1], n - 1, alloc, nd)
           /\ Pass(start, alloc, nd) = s[N]
<1> DEFINE step == [n \in 1..N |-> [x \in Scans |-> Look(x, n - 1, alloc, nd)]]
           g == CHOOSE g : g = [i \in 0..N |-> IF i = 0 THEN start
                                               ELSE Look(g[i-1], i - 1, alloc, nd)]
<1>1. step \in Steps(N, Scans) /\ N \in Nat
  BY NType, Previous, LookType DEF Steps
<1>2. \A n \in 1..N, x \in Scans : step[n][x] = Look(x, n - 1, alloc, nd)
  OBVIOUS
<1> HIDE DEF step
<1>3. PICK s : Recursive(s, N, Scans, start, step)
  BY <1>1, RecursionExists
<1>4. /\ s \in [0..N -> Scans] /\ s[0] = start
      /\ \A n \in 1..N : s[n-1] \in Scans /\ s[n] = Look(s[n-1], n - 1, alloc, nd)
  <2>1. /\ s \in [0..N -> Scans] /\ s[0] = start
        /\ \A n \in 1..N : s[n] = step[n][s[n-1]]
    BY <1>3 DEF Recursive
  <2>2. \A n \in 1..N : s[n-1] \in Scans
    BY <2>1, Previous
  <2> QED  BY <1>2, <2>1, <2>2
<1>5. s = [i \in 0..N |-> IF i = 0 THEN start ELSE Look(s[i-1], i - 1, alloc, nd)]
  BY <1>4
<1>6. g = [i \in 0..N |-> IF i = 0 THEN start ELSE Look(g[i-1], i - 1, alloc, nd)]
  BY <1>5
<1>7. Pass(start, alloc, nd) = g[N]
  BY DEF Pass, N
<1> HIDE DEF g
<1>8. g[0] = s[0]
  BY <1>4, <1>6, Ends
<1>9. \A n \in 1..N : g[n-1] = s[n-1] => g[n] = s[n]
  BY <1>4, <1>6, Previous
<1>10. SameSteps(N, g, s)
  BY <1>8, <1>9 DEF SameSteps
<1>11. \A n \in 0..N : g[n] = s[n]
  BY <1>1, <1>10, RecursionUnique
<1> QED  BY <1>4, <1>7, <1>11, Ends

\* The scan is N passes, the first from `nobody is finished`.
LEMMA PassesDef ==
  ASSUME NEW avail \in Vectors, NEW alloc \in Matrices, NEW nd \in Matrices
  PROVE  \E s \in [0..N -> Scans] :
           /\ s[0] = Unscanned(avail)
           /\ \A n \in 1..N : s[n] = Pass(s[n-1], alloc, nd)
           /\ Passes(avail, alloc, nd) = s[N]
<1> DEFINE step == [n \in 1..N |-> [x \in Scans |-> Pass(x, alloc, nd)]]
           g == CHOOSE g : g = [i \in 0..N |-> IF i = 0 THEN Unscanned(avail)
                                               ELSE Pass(g[i-1], alloc, nd)]
<1>1. step \in Steps(N, Scans) /\ Unscanned(avail) \in Scans /\ N \in Nat
  <2>1. \A s \in Scans : Pass(s, alloc, nd) \in Scans
    BY PassDef, Ends
  <2> QED  BY <2>1, NType DEF Unscanned, Scans, Steps
<1>2. \A n \in 1..N, x \in Scans : step[n][x] = Pass(x, alloc, nd)
  OBVIOUS
<1> HIDE DEF step
<1>3. PICK s : Recursive(s, N, Scans, Unscanned(avail), step)
  BY <1>1, RecursionExists
<1>4. /\ s \in [0..N -> Scans] /\ s[0] = Unscanned(avail)
      /\ \A n \in 1..N : s[n-1] \in Scans /\ s[n] = Pass(s[n-1], alloc, nd)
  <2>1. /\ s \in [0..N -> Scans] /\ s[0] = Unscanned(avail)
        /\ \A n \in 1..N : s[n] = step[n][s[n-1]]
    BY <1>3 DEF Recursive
  <2>2. \A n \in 1..N : s[n-1] \in Scans
    BY <2>1, Previous
  <2> QED  BY <1>2, <2>1, <2>2
<1>5. s = [i \in 0..N |-> IF i = 0 THEN Unscanned(avail) ELSE Pass(s[i-1], alloc, nd)]
  BY <1>4
<1>6. g = [i \in 0..N |-> IF i = 0 THEN Unscanned(avail) ELSE Pass(g[i-1], alloc, nd)]
  BY <1>5
<1>7. Passes(avail, alloc, nd) = g[N]
  BY DEF Passes, N
<1> HIDE DEF g
<1>8. g[0] = s[0]
  BY <1>4, <1>6, Ends
<1>9. \A n \in 1..N : g[n-1] = s[n-1] => g[n] = s[n]
  BY <1>4, <1>6, Previous
<1>10. SameSteps(N, g, s)
  BY <1>8, <1>9 DEF SameSteps
<1>11. \A n \in 0..N : g[n] = s[n]
  BY <1>1, <1>10, RecursionUnique
<1> QED  BY <1>4, <1>7, <1>11, Ends
-----------------------------------------------------------------------------
(* What the customers of a set hold. *)

Part(alloc, F, r) == SumOf([c \in Customers |-> IF c \in F THEN alloc[c][r] ELSE 0])

\* The terms of Part.
LEMMA PartType ==
  ASSUME NEW alloc \in Matrices, NEW F, NEW r \in Resources
  PROVE  [c \in Customers |-> IF c \in F THEN alloc[c][r] ELSE 0] \in [Customers -> Int]
  BY DEF Matrices, Vectors

\* Part is an integer.
LEMMA PartInt ==
  ASSUME NEW alloc \in Matrices, NEW F, NEW r \in Resources
  PROVE  Part(alloc, F, r) \in Int
<1> DEFINE v == [c \in Customers |-> IF c \in F THEN alloc[c][r] ELSE 0]
<1>1. v \in [Customers -> Int]
  BY PartType
<1> HIDE DEF v
<1>2. SumOf(v) \in Int
  BY <1>1, SumInt
<1> QED  BY <1>2 DEF Part, v

\* Nobody holds nothing.
LEMMA PartEmpty ==
  ASSUME NEW alloc \in Matrices, NEW r \in Resources
  PROVE  Part(alloc, {}, r) = 0
<1> DEFINE v == [c \in Customers |-> IF c \in {} THEN alloc[c][r] ELSE 0]
<1>1. v \in [Customers -> Int] /\ \A c \in Customers : v[c] = 0
  OBVIOUS
<1> HIDE DEF v
<1>2. SumOf(v) = 0
  BY <1>1, SumZero
<1> QED  BY <1>2 DEF Part, v

\* One more customer, and what it holds more.
LEMMA PartAdd ==
  ASSUME NEW alloc \in Matrices, NEW F, NEW r \in Resources, NEW i \in Customers \ F
  PROVE  Part(alloc, F \cup {i}, r) = Part(alloc, F, r) + alloc[i][r]
<1> DEFINE v == [c \in Customers |-> IF c \in F THEN alloc[c][r] ELSE 0]
           w == [c \in Customers |-> IF c \in F \cup {i} THEN alloc[c][r] ELSE 0]
<1>1. v \in [Customers -> Int] /\ w \in [Customers -> Int]
  BY PartType
<1>2. /\ \A d \in Customers \ {i} : w[d] = v[d]
      /\ w[i] = alloc[i][r] /\ v[i] = 0 /\ alloc[i][r] \in Int
  BY DEF Matrices, Vectors
<1> HIDE DEF v, w
<1>3. SumOf(w) = SumOf(v) + (w[i] - v[i])
  BY <1>1, <1>2, SumChange
<1>4. SumOf(w) = SumOf(v) + alloc[i][r]
  BY <1>2, <1>3
<1> QED  BY <1>4 DEF Part, v, w

\* A larger set of customers holds as much or more.
LEMMA PartLess ==
  ASSUME NEW alloc \in Matrices, NEW F, NEW G, F \subseteq G, NEW r \in Resources
  PROVE  Part(alloc, F, r) <= Part(alloc, G, r)
<1> DEFINE v == [c \in Customers |-> IF c \in F THEN alloc[c][r] ELSE 0]
           w == [c \in Customers |-> IF c \in G THEN alloc[c][r] ELSE 0]
<1>1. v \in [Customers -> Int] /\ w \in [Customers -> Int]
  BY PartType
<1>2. \A c \in Customers : v[c] <= w[c]
  BY DEF Matrices, Vectors
<1> HIDE DEF v, w
<1>3. SumOf(v) <= SumOf(w)
  BY <1>1, <1>2, SumLess
<1> QED  BY <1>3 DEF Part, v, w

-----------------------------------------------------------------------------
(* Units are conserved. *)

Conserved == TypeOK /\ UnitsConserved

\* d goes from what is available to customer c; the parts of d may be negative.
LEMMA UnitsMove ==
  ASSUME TypeOK, UnitsConserved,
         NEW c \in Customers, NEW d \in [Resources -> Int],
         available'  = [r \in Resources |-> available[r] - d[r]],
         allocation' = [allocation EXCEPT ![c] = [r \in Resources |-> allocation[c][r] + d[r]]],
         need'       = [need EXCEPT ![c] = [r \in Resources |-> need[c][r] - d[r]]],
         UNCHANGED <<maximum, total>>,
         \A r \in Resources : /\ 0 <= available[r] - d[r]
                              /\ 0 <= allocation[c][r] + d[r]
                              /\ 0 <= need[c][r] - d[r]
  PROVE  TypeOK' /\ UnitsConserved'
<1>1. available' \in [Resources -> Nat]
  BY DEF TypeOK
<1>2. allocation' \in [Customers -> [Resources -> Nat]]
  <2>1. [r \in Resources |-> allocation[c][r] + d[r]] \in [Resources -> Nat]
    BY DEF TypeOK
  <2> QED  BY <2>1 DEF TypeOK
<1>3. need' \in [Customers -> [Resources -> Nat]]
  <2>1. [r \in Resources |-> need[c][r] - d[r]] \in [Resources -> Nat]
    BY DEF TypeOK
  <2> QED  BY <2>1 DEF TypeOK
<1>4. TypeOK'
  BY <1>1, <1>2, <1>3 DEF TypeOK
<1>5. ASSUME NEW r \in Resources
      PROVE  available'[r] + Held(r)' = total'[r]
  <2> DEFINE v == [e \in Customers |-> allocation[e][r]]
             w == [e \in Customers |-> allocation'[e][r]]
  <2>1. v \in [Customers -> Int] /\ w \in [Customers -> Int]
    BY <1>2 DEF TypeOK
  <2>2. \A e \in Customers \ {c} : w[e] = v[e]
    BY DEF TypeOK
  <2>3. w[c] = v[c] + d[r] /\ v[c] \in Int /\ w[c] \in Int /\ d[r] \in Int
    BY <2>1 DEF TypeOK
  <2>4. Held(r) = SumOf(v) /\ Held(r)' = SumOf(w)
    BY DEF Held
  <2> HIDE DEF v, w
  <2>5. SumOf(w) = SumOf(v) + (w[c] - v[c]) /\ SumOf(v) \in Int
    BY <2>1, <2>2, SumChange, SumInt
  <2>6. available[r] + SumOf(v) = total[r] /\ available[r] \in Int
    BY <2>4 DEF UnitsConserved, TypeOK
  <2>7. available'[r] = available[r] - d[r] /\ total'[r] = total[r]
    OBVIOUS
  <2> QED  BY <2>3, <2>4, <2>5, <2>6, <2>7
<1>6. ASSUME NEW r \in Resources, NEW e \in Customers
      PROVE  need'[e][r] + allocation'[e][r] = maximum'[e][r]
  <2>1. need[e][r] + allocation[e][r] = maximum[e][r]
    BY DEF UnitsConserved
  <2>2. need[e][r] \in Int /\ allocation[e][r] \in Int /\ d[r] \in Int
    BY DEF TypeOK
  <2>3. CASE e = c
    <3>1. need'[e][r] = need[e][r] - d[r] /\ allocation'[e][r] = allocation[e][r] + d[r]
      BY <2>3 DEF TypeOK
    <3> QED  BY <2>1, <2>2, <3>1
  <2>4. CASE e # c
    <3>1. need'[e][r] = need[e][r] /\ allocation'[e][r] = allocation[e][r]
      BY <2>4 DEF TypeOK
    <3> QED  BY <2>1, <3>1
  <2> QED  BY <2>3, <2>4
<1>7. \A r \in Resources, e \in Customers : allocation'[e][r] >= 0 /\ need'[e][r] >= 0
  BY <1>2, <1>3
<1>8. UnitsConserved'
  BY <1>5, <1>6, <1>7 DEF UnitsConserved
<1> QED  BY <1>4, <1>8

\* At the start all units are available.
LEMMA ConservedInit == Init => Conserved
<1> SUFFICES ASSUME Init  PROVE Conserved
  OBVIOUS
<1>1. TypeOK
  BY DEF Init, TypeOK, Amounts
<1>2. ASSUME NEW r \in Resources  PROVE available[r] + Held(r) = total[r]
  <2> DEFINE v == [c \in Customers |-> allocation[c][r]]
  <2>1. v \in [Customers -> Int] /\ \A c \in Customers : v[c] = 0
    BY DEF Init
  <2>2. Held(r) = SumOf(v)
    BY DEF Held
  <2> HIDE DEF v
  <2>3. Held(r) = 0
    BY <2>1, <2>2, SumZero
  <2> QED  BY <2>3, <1>1 DEF Init, TypeOK
<1>3. ASSUME NEW r \in Resources, NEW c \in Customers
      PROVE  need[c][r] + allocation[c][r] = maximum[c][r]
  BY <1>1 DEF Init, TypeOK
<1>4. \A r \in Resources, c \in Customers : allocation[c][r] >= 0 /\ need[c][r] >= 0
  BY <1>1 DEF TypeOK
<1> QED  BY <1>1, <1>2, <1>3, <1>4 DEF Conserved, UnitsConserved

\* What an admissible request assumes is possible, and taking it back gives the
\* bank its state again.
LEMMA TakenBack ==
  ASSUME TypeOK, NEW request \in Amounts, NEW c \in Customers, RequestUnsafe(c, request)
  PROVE  UNCHANGED vars
<1>1. \A r \in Resources : request[r] \in Int /\ available[r] \in Int
                           /\ allocation[c][r] \in Int /\ need[c][r] \in Int
  BY DEF Amounts, TypeOK
<1>2. available' = available
  <2>1. available' = [r \in Resources |-> (available[r] - request[r]) + request[r]]
    BY DEF RequestUnsafe, AvailableAfter, Plus, Minus
  <2> QED  BY <1>1, <2>1 DEF TypeOK
<1>3. allocation' = allocation
  <2>1. allocation' = [allocation EXCEPT ![c] =
                         [r \in Resources |-> (allocation[c][r] + request[r]) - request[r]]]
    BY DEF RequestUnsafe, AllocationAfter, Plus, Minus, TypeOK
  <2>2. [r \in Resources |-> (allocation[c][r] + request[r]) - request[r]] = allocation[c]
    BY <1>1 DEF TypeOK
  <2> QED  BY <2>1, <2>2 DEF TypeOK
<1>4. need' = need
  <2>1. need' = [need EXCEPT ![c] =
                         [r \in Resources |-> (need[c][r] - request[r]) + request[r]]]
    BY DEF RequestUnsafe, NeedAfter, Plus, Minus, TypeOK
  <2>2. [r \in Resources |-> (need[c][r] - request[r]) + request[r]] = need[c]
    BY <1>1 DEF TypeOK
  <2> QED  BY <2>1, <2>2 DEF TypeOK
<1> QED  BY <1>2, <1>3, <1>4 DEF vars, RequestUnsafe

\* What is given back is at most what is held.
LEMMA ClampType ==
  ASSUME TypeOK, NEW c \in Customers, NEW release \in Amounts
  PROVE  /\ Clamp(c, release) \in Vectors
         /\ \A r \in Resources : Clamp(c, release)[r] <= allocation[c][r]
  BY DEF TypeOK, Clamp, Amounts, Vectors

\* A grant moves the request to the customer, a release moves it back, and no other
\* command changes anything.
LEMMA ConservedNext == Conserved /\ [Next]_vars => Conserved'
<1> SUFFICES ASSUME TypeOK, UnitsConserved, [Next]_vars  PROVE TypeOK' /\ UnitsConserved'
  BY DEF Conserved
<1>1. CASE UNCHANGED vars
  BY <1>1 DEF vars, TypeOK, UnitsConserved, Held
<1>2. ASSUME NEW request \in Amounts, NEW c \in Customers, RequestGranted(c, request)
      PROVE  TypeOK' /\ UnitsConserved'
  <2>1. request \in [Resources -> Int] /\ \A r \in Resources : 0 <= request[r]
    BY DEF Amounts
  <2>2. \A r \in Resources : 0 <= available[r] - request[r] /\ 0 <= need[c][r] - request[r]
    BY <1>2, <2>1 DEF RequestGranted, Admissible, anyLessThan, TypeOK
  <2>3. \A r \in Resources : 0 <= allocation[c][r] + request[r]
    BY <2>1 DEF TypeOK
  <2>4. /\ available'  = [r \in Resources |-> available[r] - request[r]]
        /\ allocation' = [allocation EXCEPT ![c] = [r \in Resources |-> allocation[c][r] + request[r]]]
        /\ need'       = [need EXCEPT ![c] = [r \in Resources |-> need[c][r] - request[r]]]
        /\ UNCHANGED <<maximum, total>>
    BY <1>2 DEF RequestGranted, AvailableAfter, AllocationAfter, NeedAfter, Plus, Minus, TypeOK
  <2> QED  BY <2>1, <2>2, <2>3, <2>4, UnitsMove
<1>3. ASSUME NEW release \in Amounts, NEW c \in Customers, Release(c, release)
      PROVE  TypeOK' /\ UnitsConserved'
  <2> DEFINE given == Clamp(c, release)
             d == [r \in Resources |-> 0 - given[r]]
  <2>1. given \in [Resources -> Nat] /\ \A r \in Resources : given[r] <= allocation[c][r]
    BY ClampType DEF Vectors
  <2>2. /\ allocation' = [allocation EXCEPT ![c] = Minus(allocation[c], given)]
        /\ need'       = [need EXCEPT ![c] = Plus(need[c], given)]
        /\ available'  = Plus(available, given)
        /\ UNCHANGED <<maximum, total>>
    BY <1>3 DEF Release, TypeOK
  <2> HIDE DEF given
  <2>3. d \in [Resources -> Int] /\ \A r \in Resources : d[r] = 0 - given[r] /\ given[r] \in Nat
    BY <2>1
  <2> HIDE DEF d
  <2>4. \A r \in Resources : available[r] \in Nat /\ allocation[c][r] \in Nat /\ need[c][r] \in Nat
    BY DEF TypeOK
  <2>5. \A r \in Resources : /\ 0 <= available[r] - d[r]
                             /\ 0 <= allocation[c][r] + d[r]
                             /\ 0 <= need[c][r] - d[r]
    BY <2>1, <2>3, <2>4
  <2>6. available' = [r \in Resources |-> available[r] - d[r]]
    BY <2>2, <2>3, <2>4 DEF Plus
  <2>7. allocation' = [allocation EXCEPT ![c] = [r \in Resources |-> allocation[c][r] + d[r]]]
    <3>1. Minus(allocation[c], given) = [r \in Resources |-> allocation[c][r] + d[r]]
      BY <2>3, <2>4 DEF Minus
    <3> QED  BY <2>2, <3>1
  <2>8. need' = [need EXCEPT ![c] = [r \in Resources |-> need[c][r] - d[r]]]
    <3>1. Plus(need[c], given) = [r \in Resources |-> need[c][r] - d[r]]
      BY <2>3, <2>4 DEF Plus
    <3> QED  BY <2>2, <3>1
  <2> QED  BY <2>2, <2>3, <2>5, <2>6, <2>7, <2>8, UnitsMove
<1>4. ASSUME NEW request \in Amounts, NEW c \in (-1)..NUMBER_OF_CUSTOMERS, Request(c, request)
      PROVE  TypeOK' /\ UnitsConserved'
  <2>1. CASE UNCHANGED vars
    BY <1>1, <2>1
  <2>2. CASE c \in Customers /\ RequestGranted(c, request)
    BY <1>2, <2>2
  <2>3. CASE c \in Customers /\ RequestUnsafe(c, request)
    BY <1>1, <2>3, TakenBack
  <2> QED
    BY <1>4, <2>1, <2>2, <2>3 DEF Request, RequestInvalid, RequestAboveClaim,
       RequestAboveAvailable, Refuse, RequestGranted, RequestUnsafe, Admissible
<1> QED  BY <1>1, <1>3, <1>4 DEF Next

\* Whatever is requested and released, no unit is created, lost or owed: available
\* and allocated units add up to the total, held + needed is every customer's claim,
\* and neither is ever negative.
THEOREM UnitsAreConserved == Spec => []UnitsConserved
<1>1. Spec => []Conserved
  BY ConservedInit, ConservedNext, PTL DEF Spec
<1>2. Conserved => UnitsConserved
  BY DEF Conserved
<1> QED  BY <1>1, <1>2, PTL

-----------------------------------------------------------------------------
(* The scan accepts no unsafe state. *)

\* The customers in s.finish can be put in an order in which each finds what it
\* needs, and s.work is what is free after the last of them.
Witness(s, avail, alloc, nd, k, f, free) ==
  /\ f \in [1..k -> Customers] /\ free \in [0..k -> Vectors]
  /\ \A m, n \in 1..k : f[m] = f[n] => m = n
  /\ \A m \in 1..k : f[m] \in s.finish
  /\ \A c \in s.finish : \E m \in 1..k : f[m] = c
  /\ free[0] = avail /\ free[k] = s.work
  /\ \A m \in 1..k : /\ free[m] = Plus(free[m-1], alloc[f[m]])
                     /\ allLessThanEqual(nd[f[m]], free[m-1])
Orderly(s, avail, alloc, nd) ==
  \E k \in Nat : \E f, free : Witness(s, avail, alloc, nd, k, f, free)

\* A look that accepts a customer puts it at the end of the order.
LEMMA LookOrderly ==
  ASSUME NEW s \in Scans, NEW i \in Customers,
         NEW avail \in Vectors, NEW alloc \in Matrices, NEW nd \in Matrices,
         Orderly(s, avail, alloc, nd)
  PROVE  Orderly(Look(s, i, alloc, nd), avail, alloc, nd)
<1>1. CASE ~(i \notin s.finish /\ allLessThanEqual(nd[i], s.work))
  BY <1>1 DEF Look
<1>2. CASE i \notin s.finish /\ allLessThanEqual(nd[i], s.work)
  <2> DEFINE u == [work |-> Plus(s.work, alloc[i]), finish |-> s.finish \cup {i}]
  <2>1. Look(s, i, alloc, nd) = u
    BY <1>2 DEF Look
  <2>0. PICK k \in Nat : \E f, free : Witness(s, avail, alloc, nd, k, f, free)
    BY DEF Orderly
  <2>2. PICK f, free : Witness(s, avail, alloc, nd, k, f, free)
    BY <2>0
  <2> DEFINE g == [m \in 1..(k+1) |-> IF m = k + 1 THEN i ELSE f[m]]
             next == [m \in 0..(k+1) |-> IF m = k + 1 THEN u.work ELSE free[m]]
  <2>3. u.work = Plus(s.work, alloc[i]) /\ u.finish = s.finish \cup {i} /\ u.work \in Vectors
    BY DEF Scans, Plus, Vectors, Matrices
  <2> HIDE DEF u
  <2>4. /\ f \in [1..k -> Customers] /\ free \in [0..k -> Vectors]
        /\ \A m, n \in 1..k : f[m] = f[n] => m = n
        /\ \A m \in 1..k : f[m] \in s.finish
        /\ \A c \in s.finish : \E m \in 1..k : f[m] = c
        /\ free[0] = avail /\ free[k] = s.work
        /\ \A m \in 1..k : /\ free[m] = Plus(free[m-1], alloc[f[m]])
                           /\ allLessThanEqual(nd[f[m]], free[m-1])
    BY <2>2 DEF Witness
  <2>5. g \in [1..(k+1) -> Customers] /\ next \in [0..(k+1) -> Vectors]
    BY <2>3, <2>4
  <2>6. /\ g[k+1] = i /\ \A m \in 1..k : g[m] = f[m]
        /\ next[k+1] = u.work /\ \A m \in 0..k : next[m] = free[m]
    OBVIOUS
  <2> HIDE DEF g, next
  <2>7. \A m \in 1..(k+1) : m \in 1..k \/ m = k + 1
    OBVIOUS
  <2>8. \A m, n \in 1..(k+1) : g[m] = g[n] => m = n
    BY <1>2, <2>4, <2>6, <2>7
  <2>9. \A m \in 1..(k+1) : g[m] \in u.finish
    BY <2>3, <2>4, <2>6, <2>7
  <2>10. \A c \in u.finish : \E m \in 1..(k+1) : g[m] = c
    <3> TAKE c \in u.finish
    <3>1. CASE c = i
      <4>1. k + 1 \in 1..(k+1)
        OBVIOUS
      <4> QED  BY <2>6, <3>1, <4>1
    <3>2. CASE c \in s.finish
      <4>1. PICK m \in 1..k : f[m] = c
        BY <2>4, <3>2
      <4>2. m \in 1..(k+1) /\ g[m] = c
        BY <2>6, <4>1
      <4> QED  BY <4>2
    <3> QED  BY <2>3, <3>1, <3>2
  <2>11. next[0] = avail /\ next[k+1] = u.work
    BY <2>4, <2>6
  <2>12. ASSUME NEW m \in 1..(k+1)
         PROVE  /\ next[m] = Plus(next[m-1], alloc[g[m]])
                /\ allLessThanEqual(nd[g[m]], next[m-1])
    <3>1. CASE m = k + 1
      <4>1. m - 1 = k /\ k \in 0..k
        BY <3>1
      <4> QED  BY <1>2, <2>3, <2>4, <2>6, <3>1, <4>1
    <3>2. CASE m \in 1..k
      <4>1. m - 1 \in 0..k /\ m \in 0..k
        BY <3>2
      <4> QED  BY <2>4, <2>6, <3>2, <4>1
    <3> QED  BY <2>7, <3>1, <3>2
  <2>13. Witness(u, avail, alloc, nd, k + 1, g, next)
    BY <2>5, <2>8, <2>9, <2>10, <2>11, <2>12 DEF Witness
  <2> QED  BY <2>1, <2>13 DEF Orderly
<1> QED  BY <1>1, <1>2

\* So does a pass.
LEMMA PassOrderly ==
  ASSUME NEW start \in Scans,
         NEW avail \in Vectors, NEW alloc \in Matrices, NEW nd \in Matrices,
         Orderly(start, avail, alloc, nd)
  PROVE  Orderly(Pass(start, alloc, nd), avail, alloc, nd)
<1>1. PICK s \in [0..N -> Scans] :
        /\ s[0] = start
        /\ \A n \in 1..N : s[n] = Look(s[n-1], n - 1, alloc, nd)
        /\ Pass(start, alloc, nd) = s[N]
  BY PassDef
<1> DEFINE S == {n \in 0..N : Orderly(s[n], avail, alloc, nd)}
<1>2. 0 \in S
  BY <1>1, Ends
<1>3. ASSUME NEW n \in 1..N, n - 1 \in S  PROVE n \in S
  <2>1. s[n-1] \in Scans /\ n - 1 \in Customers /\ n \in 0..N
    BY Previous
  <2> QED  BY <1>1, <1>3, <2>1, LookOrderly
<1> HIDE DEF S
<1>4. 0..N \subseteq S
  BY <1>2, <1>3, NType, BoundedInduction
<1> QED  BY <1>1, <1>4, Ends DEF S

\* So do all passes; at the start the order is empty.
LEMMA PassesOrderly ==
  ASSUME NEW avail \in Vectors, NEW alloc \in Matrices, NEW nd \in Matrices
  PROVE  Orderly(Passes(avail, alloc, nd), avail, alloc, nd)
<1>1. PICK s \in [0..N -> Scans] :
        /\ s[0] = Unscanned(avail)
        /\ \A n \in 1..N : s[n] = Pass(s[n-1], alloc, nd)
        /\ Passes(avail, alloc, nd) = s[N]
  BY PassesDef
<1> DEFINE S == {n \in 0..N : Orderly(s[n], avail, alloc, nd)}
<1>2. Orderly(Unscanned(avail), avail, alloc, nd)
  <2> DEFINE f == [m \in 1..0 |-> 0]
             free == [m \in 0..0 |-> avail]
  <2>1. Witness(Unscanned(avail), avail, alloc, nd, 0, f, free)
    BY DEF Witness, Unscanned
  <2> HIDE DEF f, free
  <2> QED  BY <2>1 DEF Orderly
<1>3. 0 \in S
  BY <1>1, <1>2, Ends
<1>4. ASSUME NEW n \in 1..N, n - 1 \in S  PROVE n \in S
  <2>1. s[n-1] \in Scans /\ n \in 0..N
    BY Previous
  <2> QED  BY <1>1, <1>4, <2>1, PassOrderly
<1> HIDE DEF S
<1>5. 0..N \subseteq S
  BY <1>3, <1>4, NType, BoundedInduction
<1> QED  BY <1>1, <1>5, Ends DEF S

\* There are N customers.
LEMMA CustomersFinite ==
  IsFiniteSet(Customers) /\ Cardinality(Customers) = N
<1>1. IsFiniteSet(0..(N-1)) /\ Cardinality(0..(N-1)) = N
  <2>1. 0 \in Int /\ N - 1 \in Int /\ 0 <= N - 1 /\ (N - 1) - 0 + 1 = N
    BY NType
  <2> QED  BY <2>1, FS_Interval
<1> QED  BY <1>1, CustomersAre

\* Free adds up what the customers of an order give back, one by one.
LEMMA FreeDef ==
  ASSUME NEW avail \in Vectors, NEW alloc \in Matrices, NEW order \in [1..N -> Customers]
  PROVE  /\ Free(avail, alloc, order) \in [0..N -> Vectors]
         /\ Free(avail, alloc, order)[0] = avail
         /\ \A n \in 1..N : Free(avail, alloc, order)[n]
                              = Plus(Free(avail, alloc, order)[n-1], alloc[order[n]])
<1> DEFINE step == [n \in 1..N |-> [x \in Vectors |-> Plus(x, alloc[order[n]])]]
           g == CHOOSE g : g = [n \in 0..N |-> IF n = 0 THEN avail
                                               ELSE Plus(g[n-1], alloc[order[n]])]
<1>1. step \in Steps(N, Vectors) /\ N \in Nat
  <2>1. \A x, y \in Vectors : Plus(x, y) \in Vectors
    BY DEF Vectors, Plus
  <2>2. \A n \in 1..N : alloc[order[n]] \in Vectors
    BY DEF Matrices
  <2> QED  BY <2>1, <2>2, NType DEF Steps
<1>2. \A n \in 1..N, x \in Vectors : step[n][x] = Plus(x, alloc[order[n]])
  OBVIOUS
<1> HIDE DEF step
<1>3. PICK s : Recursive(s, N, Vectors, avail, step)
  BY <1>1, RecursionExists
<1>4. /\ s \in [0..N -> Vectors] /\ s[0] = avail
      /\ \A n \in 1..N : s[n] = Plus(s[n-1], alloc[order[n]])
  <2>1. /\ s \in [0..N -> Vectors] /\ s[0] = avail
        /\ \A n \in 1..N : s[n] = step[n][s[n-1]]
    BY <1>3 DEF Recursive
  <2>2. \A n \in 1..N : s[n-1] \in Vectors
    BY <2>1, Previous
  <2> QED  BY <1>2, <2>1, <2>2
<1>5. s = [n \in 0..N |-> IF n = 0 THEN avail ELSE Plus(s[n-1], alloc[order[n]])]
  BY <1>4
<1>6. g = [n \in 0..N |-> IF n = 0 THEN avail ELSE Plus(g[n-1], alloc[order[n]])]
  BY <1>5
<1>7. Free(avail, alloc, order) = g
  BY DEF Free, N
<1> HIDE DEF g
<1>8. g[0] = s[0]
  BY <1>4, <1>6, Ends
<1>9. \A n \in 1..N : g[n-1] = s[n-1] => g[n] = s[n]
  BY <1>4, <1>6, Previous
<1>10. SameSteps(N, g, s)
  BY <1>8, <1>9 DEF SameSteps
<1>11. \A n \in 0..N : g[n] = s[n]
  BY <1>1, <1>10, RecursionUnique
<1>12. g = s
  <2>1. g = [n \in 0..N |-> g[n]]
    BY <1>6
  <2>2. s = [n \in 0..N |-> s[n]]
    BY <1>4
  <2> QED  BY <1>11, <2>1, <2>2
<1> QED  BY <1>4, <1>7, <1>12

Fills(free, avail, alloc, order) ==
  free[0] = avail /\ \A n \in 1..N : free[n] = Plus(free[n-1], alloc[order[n]])

\* Free is the only function that does.
LEMMA FreeUnique ==
  ASSUME NEW avail \in Vectors, NEW alloc \in Matrices, NEW order \in [1..N -> Customers],
         NEW free, Fills(free, avail, alloc, order)
  PROVE  \A n \in 0..N : Free(avail, alloc, order)[n] = free[n]
<1> DEFINE g == Free(avail, alloc, order)
<1>1. g[0] = avail /\ \A n \in 1..N : g[n] = Plus(g[n-1], alloc[order[n]])
  BY FreeDef
<1>2. N \in Nat
  BY NType
<1> HIDE DEF g
<1>3. SameSteps(N, g, free)
  BY <1>1 DEF Fills, SameSteps
<1>4. \A n \in 0..N : g[n] = free[n]
  BY <1>2, <1>3, RecursionUnique
<1> QED  BY <1>4 DEF g

\* If the scan finishes everybody, in the order in which it does everybody finds what
\* it needs: the state is safe by the textbook definition.
LEMMA ScanIsSound ==
  ASSUME NEW avail \in Vectors, NEW alloc \in Matrices, NEW nd \in Matrices,
         Safety(avail, alloc, nd)
  PROVE  SafeByDefinition(avail, alloc, nd)
<1> DEFINE s == Passes(avail, alloc, nd)
<1>1. s.finish = Customers
  BY DEF Safety
<1>0. PICK k \in Nat : \E f, free : Witness(s, avail, alloc, nd, k, f, free)
  BY PassesOrderly DEF Orderly
<1>2. PICK f, free : Witness(s, avail, alloc, nd, k, f, free)
  BY <1>0
<1> HIDE DEF s
<1>3. /\ f \in [1..k -> Customers]
      /\ \A m, n \in 1..k : f[m] = f[n] => m = n
      /\ \A c \in Customers : \E m \in 1..k : f[m] = c
  BY <1>1, <1>2 DEF Witness
<1>4. k = N
  <2>1. f \in Bijection(1..k, Customers)
    BY <1>3 DEF Bijection, Injection, Surjection, IsInjective
  <2>2. IsFiniteSet(1..k) /\ Cardinality(1..k) = k
    BY FS_Interval
  <2>3. Cardinality(1..k) = Cardinality(Customers)
    BY <2>1, <2>2, FS_Bijection DEF ExistsBijection
  <2> QED  BY <2>2, <2>3, CustomersFinite
<1>5. f \in Orders
  BY <1>3, <1>4 DEF Orders, N
<1>6. /\ free[0] = avail
      /\ \A m \in 1..N : /\ free[m] = Plus(free[m-1], alloc[f[m]])
                         /\ allLessThanEqual(nd[f[m]], free[m-1])
  BY <1>2, <1>4 DEF Witness
<1>7. \A n \in 0..N : Free(avail, alloc, f)[n] = free[n]
  <2>1. f \in [1..N -> Customers] /\ Fills(free, avail, alloc, f)
    BY <1>3, <1>4, <1>6 DEF Fills
  <2> QED  BY <2>1, FreeUnique
<1>8. \A n \in 1..N : allLessThanEqual(nd[f[n]], Free(avail, alloc, f)[n-1])
  BY <1>6, <1>7, Previous
<1> QED  BY <1>5, <1>8 DEF SafeByDefinition, N

-----------------------------------------------------------------------------
(* The scan gives up on no safe state. *)

\* What is free is what was available and what the finished customers held.
Accounted(s, avail, alloc) ==
  \A r \in Resources : s.work[r] = avail[r] + Part(alloc, s.finish, r)

\* No unfinished customer finds what it needs.
Stuck(s, nd) == \A c \in Customers \ s.finish : ~allLessThanEqual(nd[c], s.work)

\* A look that accepts a customer adds what it holds to what is free.
LEMMA LookAccounted ==
  ASSUME NEW s \in Scans, NEW i \in Customers,
         NEW avail \in Vectors, NEW alloc \in Matrices, NEW nd \in Matrices,
         Accounted(s, avail, alloc)
  PROVE  Accounted(Look(s, i, alloc, nd), avail, alloc)
<1>1. CASE ~(i \notin s.finish /\ allLessThanEqual(nd[i], s.work))
  BY <1>1 DEF Look
<1>2. CASE i \notin s.finish /\ allLessThanEqual(nd[i], s.work)
  <2> DEFINE u == [work |-> Plus(s.work, alloc[i]), finish |-> s.finish \cup {i}]
  <2>1. Look(s, i, alloc, nd) = u
    BY <1>2 DEF Look
  <2>2. ASSUME NEW r \in Resources
        PROVE  u.work[r] = avail[r] + Part(alloc, u.finish, r)
    <3>1. u.finish = s.finish \cup {i} /\ u.work[r] = s.work[r] + alloc[i][r]
      BY DEF Plus
    <3>2. Part(alloc, s.finish \cup {i}, r) = Part(alloc, s.finish, r) + alloc[i][r]
      BY <1>2, PartAdd
    <3>3. s.work[r] = avail[r] + Part(alloc, s.finish, r)
      BY DEF Accounted
    <3>4. avail[r] \in Int /\ alloc[i][r] \in Int /\ Part(alloc, s.finish, r) \in Int
      BY PartInt DEF Vectors, Matrices
    <3> HIDE DEF u
    <3> QED  BY <3>1, <3>2, <3>3, <3>4
  <2> HIDE DEF u
  <2> QED  BY <2>1, <2>2 DEF Accounted
<1> QED  BY <1>1, <1>2

\* A look finishes the customer it is at or changes nothing.
LEMMA LookGrows ==
  ASSUME NEW s \in Scans, NEW i \in Customers, NEW alloc \in Matrices, NEW nd \in Matrices
  PROVE  /\ s.finish \subseteq Look(s, i, alloc, nd).finish
         /\ \/ /\ Look(s, i, alloc, nd) = s
               /\ i \in s.finish \/ ~allLessThanEqual(nd[i], s.work)
            \/ i \notin s.finish /\ i \in Look(s, i, alloc, nd).finish
  BY DEF Look

\* A pass keeps what is finished and what is accounted for; if it finishes
\* nobody more, it changes nothing and there is nobody left it could finish.
LEMMA PassWorks ==
  ASSUME NEW start \in Scans,
         NEW avail \in Vectors, NEW alloc \in Matrices, NEW nd \in Matrices,
         Accounted(start, avail, alloc)
  PROVE  /\ Pass(start, alloc, nd) \in Scans
         /\ Accounted(Pass(start, alloc, nd), avail, alloc)
         /\ start.finish \subseteq Pass(start, alloc, nd).finish
         /\ Pass(start, alloc, nd).finish \subseteq start.finish
              => Pass(start, alloc, nd) = start /\ Stuck(start, nd)
<1>1. PICK s \in [0..N -> Scans] :
        /\ s[0] = start
        /\ \A n \in 1..N : s[n] = Look(s[n-1], n - 1, alloc, nd)
        /\ Pass(start, alloc, nd) = s[N]
  BY PassDef
<1> DEFINE Rejected(n) ==
             \A m \in 1..n : m - 1 \in start.finish \/ ~allLessThanEqual(nd[m-1], start.work)
           S == {n \in 0..N : /\ Accounted(s[n], avail, alloc)
                              /\ start.finish \subseteq s[n].finish
                              /\ \/ s[n] = start /\ Rejected(n)
                                 \/ ~(s[n].finish \subseteq start.finish)}
<1>2. 0 \in S
  BY <1>1, Ends
<1>3. ASSUME NEW n \in 1..N, n - 1 \in S  PROVE n \in S
  <2>1. s[n-1] \in Scans /\ n - 1 \in Customers /\ n \in 0..N /\ n - 1 \in 0..N
    BY Previous
  <2>2. s[n] = Look(s[n-1], n - 1, alloc, nd)
    BY <1>1
  <2>3. /\ Accounted(s[n-1], avail, alloc)
        /\ start.finish \subseteq s[n-1].finish
        /\ \/ s[n-1] = start /\ Rejected(n-1)
           \/ ~(s[n-1].finish \subseteq start.finish)
    BY <1>3
  <2>4. Accounted(s[n], avail, alloc)
    BY <2>1, <2>2, <2>3, LookAccounted
  <2>5. /\ s[n-1].finish \subseteq s[n].finish
        /\ \/ /\ s[n] = s[n-1]
              /\ n - 1 \in s[n-1].finish \/ ~allLessThanEqual(nd[n-1], s[n-1].work)
           \/ n - 1 \notin s[n-1].finish /\ n - 1 \in s[n].finish
    BY <2>1, <2>2, LookGrows
  <2>6. (s[n] = start /\ Rejected(n)) \/ ~(s[n].finish \subseteq start.finish)
    <3>1. CASE ~(s[n-1].finish \subseteq start.finish)
      BY <2>5, <3>1
    <3>2. CASE /\ s[n-1] = start /\ Rejected(n-1) /\ s[n] = s[n-1]
               /\ n - 1 \in start.finish \/ ~allLessThanEqual(nd[n-1], start.work)
      <4>1. \A m \in 1..n : m \in 1..(n-1) \/ m = n
        OBVIOUS
      <4>2. Rejected(n)
        BY <3>2, <4>1
      <4> QED  BY <3>2, <4>2
    <3>3. CASE s[n-1] = start /\ n - 1 \notin start.finish /\ n - 1 \in s[n].finish
      BY <3>3
    <3> QED  BY <2>3, <2>5, <3>1, <3>2, <3>3
  <2> HIDE DEF Rejected
  <2> QED  BY <2>1, <2>3, <2>4, <2>5, <2>6
<1>4. Rejected(N) => Stuck(start, nd)
  <2> SUFFICES ASSUME Rejected(N), NEW c \in Customers \ start.finish
               PROVE  ~allLessThanEqual(nd[c], start.work)
    BY DEF Stuck
  <2>1. c + 1 \in 1..N /\ (c + 1) - 1 = c
    BY CustomersAre, NType
  <2> QED  BY <2>1
<1> HIDE DEF Rejected, S
<1>5. 0..N \subseteq S
  BY <1>2, <1>3, NType, BoundedInduction
<1>6. N \in S /\ s[N] \in Scans
  BY <1>5, Ends
<1> QED  BY <1>1, <1>4, <1>6 DEF S

\* A pass changes nothing if nobody is left that it could finish.
LEMMA StuckPass ==
  ASSUME NEW start \in Scans, NEW alloc \in Matrices, NEW nd \in Matrices, Stuck(start, nd)
  PROVE  Pass(start, alloc, nd) = start
<1>1. PICK s \in [0..N -> Scans] :
        /\ s[0] = start
        /\ \A n \in 1..N : s[n] = Look(s[n-1], n - 1, alloc, nd)
        /\ Pass(start, alloc, nd) = s[N]
  BY PassDef
<1> DEFINE S == {n \in 0..N : s[n] = start}
<1>2. 0 \in S
  BY <1>1, Ends
<1>3. ASSUME NEW n \in 1..N, n - 1 \in S  PROVE n \in S
  <2>1. s[n-1] = start /\ n - 1 \in Customers /\ n \in 0..N
    BY <1>3, Previous
  <2>2. Look(start, n - 1, alloc, nd) = start
    BY <2>1 DEF Stuck, Look
  <2> QED  BY <1>1, <2>1, <2>2
<1> HIDE DEF S
<1>4. 0..N \subseteq S
  BY <1>2, <1>3, NType, BoundedInduction
<1> QED  BY <1>1, <1>4, Ends DEF S

\* Every pass finishes one more customer or there is none left to finish, so after N
\* passes there is none.
LEMMA PassesWork ==
  ASSUME NEW avail \in Vectors, NEW alloc \in Matrices, NEW nd \in Matrices
  PROVE  /\ Passes(avail, alloc, nd) \in Scans
         /\ Accounted(Passes(avail, alloc, nd), avail, alloc)
         /\ Stuck(Passes(avail, alloc, nd), nd)
<1>1. PICK s \in [0..N -> Scans] :
        /\ s[0] = Unscanned(avail)
        /\ \A n \in 1..N : s[n] = Pass(s[n-1], alloc, nd)
        /\ Passes(avail, alloc, nd) = s[N]
  BY PassesDef
<1> DEFINE S == {n \in 0..N : /\ Accounted(s[n], avail, alloc)
                              /\ Stuck(s[n], nd) \/ n <= Cardinality(s[n].finish)}
<1>2. 0 \in S
  <2>1. Accounted(Unscanned(avail), avail, alloc)
    <3>1. \A r \in Resources : avail[r] \in Int /\ Part(alloc, {}, r) = 0
      BY PartEmpty DEF Vectors
    <3> QED  BY <3>1 DEF Accounted, Unscanned
  <2>2. Cardinality(Unscanned(avail).finish) = 0
    BY FS_EmptySet DEF Unscanned
  <2> QED  BY <1>1, <2>1, <2>2, Ends
<1>3. ASSUME NEW n \in 1..N, n - 1 \in S  PROVE n \in S
  <2>1. s[n-1] \in Scans /\ s[n] \in Scans /\ n \in 0..N
    BY Previous
  <2>2. Accounted(s[n-1], avail, alloc) /\ (Stuck(s[n-1], nd) \/ n - 1 <= Cardinality(s[n-1].finish))
    BY <1>3
  <2>3. /\ Accounted(s[n], avail, alloc)
        /\ s[n-1].finish \subseteq s[n].finish
        /\ s[n].finish \subseteq s[n-1].finish => s[n] = s[n-1] /\ Stuck(s[n-1], nd)
    BY <1>1, <2>1, <2>2, PassWorks
  <2>4. CASE s[n].finish \subseteq s[n-1].finish
    BY <2>1, <2>3, <2>4
  <2>5. CASE ~(s[n].finish \subseteq s[n-1].finish)
    <3>0. s[n].finish \in SUBSET Customers /\ s[n-1].finish \in SUBSET s[n].finish
      BY <2>1, <2>3 DEF Scans
    <3>1. IsFiniteSet(s[n].finish)
      BY <3>0, CustomersFinite, FS_Subset
    <3>2. /\ IsFiniteSet(s[n-1].finish)
          /\ Cardinality(s[n-1].finish) <= Cardinality(s[n].finish)
          /\ Cardinality(s[n].finish) = Cardinality(s[n-1].finish) => s[n].finish = s[n-1].finish
      BY <3>0, <3>1, FS_Subset
    <3>3. Cardinality(s[n-1].finish) \in Nat /\ Cardinality(s[n].finish) \in Nat
      BY <3>1, <3>2, FS_CardinalityType
    <3>4. Cardinality(s[n-1].finish) + 1 <= Cardinality(s[n].finish)
      BY <2>5, <3>2, <3>3
    <3>5. CASE n - 1 <= Cardinality(s[n-1].finish)
      BY <2>1, <2>3, <3>3, <3>4, <3>5
    <3>6. CASE Stuck(s[n-1], nd)
      <4>1. Pass(s[n-1], alloc, nd) = s[n-1]
        BY <2>1, <3>6, StuckPass
      <4> QED  BY <1>1, <2>5, <4>1
    <3> QED  BY <2>2, <3>5, <3>6
  <2> QED  BY <2>4, <2>5
<1> HIDE DEF S
<1>4. 0..N \subseteq S
  BY <1>2, <1>3, NType, BoundedInduction
<1>5. N \in S /\ s[N] \in Scans
  BY <1>4, Ends
<1>6. ASSUME N <= Cardinality(s[N].finish)  PROVE Stuck(s[N], nd)
  <2>1. s[N].finish \in SUBSET Customers
    BY <1>5 DEF Scans
  <2>2. /\ IsFiniteSet(s[N].finish) /\ Cardinality(s[N].finish) <= Cardinality(Customers)
        /\ Cardinality(Customers) = Cardinality(s[N].finish) => Customers = s[N].finish
    BY <2>1, CustomersFinite, FS_Subset
  <2>3. Cardinality(s[N].finish) \in Nat
    BY <2>2, FS_CardinalityType
  <2>4. Customers = s[N].finish
    BY <1>6, <2>2, <2>3, CustomersFinite, NType
  <2> QED  BY <2>4 DEF Stuck
<1> QED  BY <1>1, <1>5, <1>6 DEF S

\* The code goes on until a pass finishes nobody more: N passes get there.
THEOREM PassesSuffice ==
  ASSUME NEW avail \in Vectors, NEW alloc \in Matrices, NEW nd \in Matrices
  PROVE  Pass(Passes(avail, alloc, nd), alloc, nd) = Passes(avail, alloc, nd)
  BY PassesWork, StuckPass

\* What is free after m customers of an order.
LEMMA FreeIsPart ==
  ASSUME NEW avail \in Vectors, NEW alloc \in Matrices, NEW order \in Orders
  PROVE  \A m \in 0..N : \A r \in Resources :
           Free(avail, alloc, order)[m][r] = avail[r] + Part(alloc, {order[j] : j \in 1..m}, r)
<1> DEFINE free == Free(avail, alloc, order)
           F(m) == {order[j] : j \in 1..m}
           S == {m \in 0..N : \A r \in Resources : free[m][r] = avail[r] + Part(alloc, F(m), r)}
<1>0. order \in [1..N -> Customers] /\ \A m, n \in 1..N : order[m] = order[n] => m = n
  BY DEF Orders, N
<1>1. 0 \in S
  <2>1. F(0) = {} /\ free[0] = avail
    BY <1>0, FreeDef
  <2>2. \A r \in Resources : avail[r] \in Int /\ Part(alloc, {}, r) = 0
    BY PartEmpty DEF Vectors
  <2> QED  BY <2>1, <2>2, Ends
<1>2. ASSUME NEW m \in 1..N, m - 1 \in S  PROVE m \in S
  <2>1. m \in 0..N /\ order[m] \in Customers
    BY <1>0, Previous
  <2>2. F(m) = F(m-1) \cup {order[m]} /\ order[m] \notin F(m-1)
    <3>1. \A j \in 1..m : j \in 1..(m-1) \/ j = m
      OBVIOUS
    <3>2. \A j \in 1..(m-1) : j \in 1..m /\ j \in 1..N /\ j # m
      BY NType
    <3>3. m \in 1..m
      OBVIOUS
    <3> QED  BY <1>0, <3>1, <3>2, <3>3
  <2>3. free[m] = Plus(free[m-1], alloc[order[m]])
    <3>1. order \in [1..N -> Customers]
      BY <1>0
    <3> QED  BY ZenonT(30), <3>1, FreeDef
  <2>4. ASSUME NEW r \in Resources  PROVE free[m][r] = avail[r] + Part(alloc, F(m), r)
    <3>1. free[m][r] = free[m-1][r] + alloc[order[m]][r]
      BY <2>3 DEF Plus
    <3>2. free[m-1][r] = avail[r] + Part(alloc, F(m-1), r)
      BY <1>2
    <3> HIDE DEF free, F
    <3>3. Part(alloc, F(m), r) = Part(alloc, F(m-1), r) + alloc[order[m]][r]
      BY <2>1, <2>2, PartAdd
    <3>4. avail[r] \in Int /\ alloc[order[m]][r] \in Int /\ Part(alloc, F(m-1), r) \in Int
      BY <2>1, PartInt DEF Vectors, Matrices
    <3> QED  BY <3>1, <3>2, <3>3, <3>4
  <2> QED  BY <2>1, <2>4
<1> HIDE DEF S
<1>3. 0..N \subseteq S
  BY <1>1, <1>2, NType, BoundedInduction
<1> QED  BY <1>3 DEF S

\* Every customer has its turn in an order.
LEMMA OrderCovers ==
  ASSUME NEW order \in Orders
  PROVE  \A c \in Customers : \E m \in 1..N : order[m] = c
<1>1. order \in Injection(1..N, Customers)
  BY DEF Orders, N, Injection, IsInjective
<1>2. Cardinality(1..N) = Cardinality(Customers)
  BY NType, CustomersFinite, FS_Interval
<1>3. order \in Surjection(1..N, Customers)
  BY <1>1, <1>2, CustomersFinite, FS_Injection
<1> QED  BY <1>3 DEF Surjection

\* If there is a safe order, the scan finishes everybody: by induction along the
\* order, each customer finds what it needs when the scan ends, so it is finished.
LEMMA ScanIsComplete ==
  ASSUME NEW avail \in Vectors, NEW alloc \in Matrices, NEW nd \in Matrices,
         SafeByDefinition(avail, alloc, nd)
  PROVE  Safety(avail, alloc, nd)
<1> DEFINE end == Passes(avail, alloc, nd)
<1>1. end \in Scans /\ Accounted(end, avail, alloc) /\ Stuck(end, nd)
  BY PassesWork
<1>2. PICK order \in Orders :
        \A n \in 1..N : allLessThanEqual(nd[order[n]], Free(avail, alloc, order)[n-1])
  BY DEF SafeByDefinition, N
<1> DEFINE S == {m \in 0..N : \A j \in 1..m : order[j] \in end.finish}
<1>3. 0 \in S
  BY Ends
<1>4. ASSUME NEW m \in 1..N, m - 1 \in S  PROVE m \in S
  <2> DEFINE F == {order[j] : j \in 1..(m-1)}
             free == Free(avail, alloc, order)
  <2>1. order[m] \in Customers /\ m \in 0..N /\ m - 1 \in 0..N
    BY Previous DEF Orders, N
  <2>2. F \subseteq end.finish
    BY <1>4
  <2>3. ASSUME NEW r \in Resources  PROVE nd[order[m]][r] <= end.work[r]
    <3>1. free[m-1][r] = avail[r] + Part(alloc, F, r)
      BY <2>1, FreeIsPart
    <3>2. nd[order[m]][r] <= free[m-1][r]
      BY <1>2 DEF allLessThanEqual
    <3> HIDE DEF free, F, end
    <3>3. end.work[r] = avail[r] + Part(alloc, end.finish, r)
      BY <1>1 DEF Accounted
    <3>4. Part(alloc, F, r) <= Part(alloc, end.finish, r)
      BY <2>2, PartLess
    <3>5. /\ avail[r] \in Int /\ nd[order[m]][r] \in Int
          /\ Part(alloc, F, r) \in Int /\ Part(alloc, end.finish, r) \in Int
      BY <2>1, PartInt DEF Vectors, Matrices
    <3> QED  BY <3>1, <3>2, <3>3, <3>4, <3>5
  <2>4. order[m] \in end.finish
    BY <1>1, <2>1, <2>3 DEF Stuck, allLessThanEqual
  <2>5. \A j \in 1..m : j \in 1..(m-1) \/ j = m
    OBVIOUS
  <2> QED  BY <1>4, <2>1, <2>4, <2>5
<1> HIDE DEF S
<1>5. 0..N \subseteq S
  BY <1>3, <1>4, NType, BoundedInduction
<1>6. \A j \in 1..N : order[j] \in end.finish
  BY <1>5, Ends DEF S
<1>7. end.finish = Customers
  BY <1>1, <1>6, OrderCovers DEF Scans
<1> QED  BY <1>7 DEF Safety

-----------------------------------------------------------------------------
(* What the scan answers is right, and the bank stays safe. *)

\* An admissible request leaves no negative amounts.
LEMMA AfterTypes ==
  ASSUME TypeOK, NEW c \in Customers, NEW request \in Amounts, Admissible(c, request)
  PROVE  /\ AvailableAfter(request) \in Vectors
         /\ AllocationAfter(c, request) \in Matrices
         /\ NeedAfter(c, request) \in Matrices
<1>1. \A r \in Resources : request[r] \in Nat /\ request[r] <= available[r] /\ request[r] <= need[c][r]
  BY DEF Amounts, Admissible, anyLessThan, TypeOK
<1>2. AvailableAfter(request) \in Vectors
  BY <1>1 DEF AvailableAfter, Minus, Vectors, TypeOK
<1>3. AllocationAfter(c, request) \in Matrices
  <2>1. Plus(allocation[c], request) \in Vectors
    BY <1>1 DEF Plus, Vectors, TypeOK
  <2> QED  BY <2>1 DEF AllocationAfter, Matrices, Vectors, TypeOK
<1>4. NeedAfter(c, request) \in Matrices
  <2>1. Minus(need[c], request) \in Vectors
    BY <1>1 DEF Minus, Vectors, TypeOK
  <2> QED  BY <2>1 DEF NeedAfter, Matrices, Vectors, TypeOK
<1> QED  BY <1>2, <1>3, <1>4

\* RefusedIffUnsafe holds in every state, reachable or not.
LEMMA RefusalIsRight == TypeOK => RefusedIffUnsafe
<1> SUFFICES ASSUME TypeOK, NEW c \in Customers, NEW request \in Amounts, Admissible(c, request)
             PROVE  SafeAfter(c, request) <=>
                      SafeByDefinition(AvailableAfter(request), AllocationAfter(c, request),
                                       NeedAfter(c, request))
  BY DEF RefusedIffUnsafe
<1> QED  BY AfterTypes, ScanIsSound, ScanIsComplete DEF SafeAfter

\* A request is refused as unsafe exactly if it leaves no order in which all
\* customers can finish.
THEOREM RefusedExactlyIfUnsafe == Spec => []RefusedIffUnsafe
<1>1. Spec => []Conserved
  BY ConservedInit, ConservedNext, PTL DEF Spec
<1>2. Conserved => RefusedIffUnsafe
  BY RefusalIsRight DEF Conserved
<1> QED  BY <1>1, <1>2, PTL

\* The order that was safe before a release is safe after it: the units are free
\* from the start, not only after the customer's turn.
LEMMA SafeAfterRelease ==
  ASSUME NEW avail \in Vectors, NEW alloc \in Matrices, NEW nd \in Matrices,
         NEW c \in Customers, NEW given \in Vectors,
         \A r \in Resources : given[r] <= alloc[c][r],
         SafeByDefinition(avail, alloc, nd)
  PROVE  SafeByDefinition(Plus(avail, given), [alloc EXCEPT ![c] = Minus(alloc[c], given)],
                          [nd EXCEPT ![c] = Plus(nd[c], given)])
<1> DEFINE avail2 == Plus(avail, given)
           alloc2 == [alloc EXCEPT ![c] = Minus(alloc[c], given)]
           nd2    == [nd EXCEPT ![c] = Plus(nd[c], given)]
<1>1. avail2 \in Vectors /\ \A r \in Resources : avail2[r] = avail[r] + given[r]
  BY DEF Plus, Vectors
<1>2. /\ alloc2 \in Matrices
      /\ \A d \in Customers \ {c} : alloc2[d] = alloc[d]
      /\ \A r \in Resources : alloc2[c][r] = alloc[c][r] - given[r]
  <2>1. Minus(alloc[c], given) \in Vectors
    BY DEF Minus, Vectors, Matrices
  <2> QED  BY <2>1 DEF Matrices, Minus
<1>3. /\ \A d \in Customers \ {c} : nd2[d] = nd[d]
      /\ \A r \in Resources : nd2[c][r] = nd[c][r] + given[r]
  BY DEF Plus, Matrices
<1> HIDE DEF avail2, alloc2, nd2
<1>4. PICK order \in Orders :
        \A n \in 1..N : allLessThanEqual(nd[order[n]], Free(avail, alloc, order)[n-1])
  BY DEF SafeByDefinition, N
<1>5. order \in [1..N -> Customers] /\ \A m, n \in 1..N : order[m] = order[n] => m = n
  BY DEF Orders, N
<1>6. ASSUME NEW F, NEW r \in Resources
      PROVE  Part(alloc2, F, r) = Part(alloc, F, r) - (IF c \in F THEN given[r] ELSE 0)
  <2> DEFINE v == [d \in Customers |-> IF d \in F THEN alloc[d][r] ELSE 0]
             w == [d \in Customers |-> IF d \in F THEN alloc2[d][r] ELSE 0]
  <2>1. v \in [Customers -> Int] /\ w \in [Customers -> Int]
    BY <1>2, PartType
  <2>2. \A d \in Customers \ {c} : w[d] = v[d]
    BY <1>2
  <2>3. w[c] - v[c] = 0 - (IF c \in F THEN given[r] ELSE 0)
    <3>1. alloc2[c][r] = alloc[c][r] - given[r] /\ alloc[c][r] \in Int /\ given[r] \in Int
      BY <1>2 DEF Matrices, Vectors
    <3>2. /\ w[c] = IF c \in F THEN alloc2[c][r] ELSE 0
          /\ v[c] = IF c \in F THEN alloc[c][r] ELSE 0
      OBVIOUS
    <3> HIDE DEF v, w
    <3> QED  BY <3>1, <3>2
  <2>4. given[r] \in Int
    BY DEF Vectors
  <2>5. Part(alloc2, F, r) = SumOf(w) /\ Part(alloc, F, r) = SumOf(v)
    BY DEF Part
  <2> HIDE DEF v, w
  <2>6. SumOf(w) = SumOf(v) + (w[c] - v[c]) /\ SumOf(v) \in Int
    BY <2>1, <2>2, SumChange, SumInt
  <2> QED  BY <2>3, <2>4, <2>5, <2>6
<1>7. ASSUME NEW n \in 1..N, NEW r \in Resources
      PROVE  nd2[order[n]][r] <= Free(avail2, alloc2, order)[n-1][r]
  <2> DEFINE F == {order[j] : j \in 1..(n-1)}
             d == order[n]
             old == Free(avail, alloc, order)
             new == Free(avail2, alloc2, order)
  <2>1. d \in Customers /\ n - 1 \in 0..N
    BY <1>5, Previous
  <2>2. /\ old[n-1][r] = avail[r] + Part(alloc, F, r)
        /\ new[n-1][r] = avail2[r] + Part(alloc2, F, r)
    BY <1>1, <1>2, <2>1, FreeIsPart
  <2>3. nd[d][r] <= old[n-1][r]
    BY <1>4 DEF allLessThanEqual
  <2>4. d \notin F
    <3>1. \A j \in 1..(n-1) : j \in 1..N /\ j # n
      BY NType
    <3> QED  BY <1>5, <3>1
  <2> HIDE DEF F, old, new, d
  <2>5. Part(alloc2, F, r) = Part(alloc, F, r) - (IF c \in F THEN given[r] ELSE 0)
    BY <1>6
  <2>6. /\ avail[r] \in Int /\ given[r] \in Nat /\ nd[d][r] \in Int
        /\ Part(alloc, F, r) \in Int /\ avail2[r] = avail[r] + given[r]
    BY <1>1, <2>1, PartInt DEF Vectors, Matrices
  <2>7. new[n-1][r] = old[n-1][r] + (IF c \in F THEN 0 ELSE given[r]) /\ old[n-1][r] \in Int
    BY <2>2, <2>5, <2>6
  <2>8. nd2[d][r] <= new[n-1][r]
    <3>1. CASE d = c
      <4>1. nd2[d][r] = nd[d][r] + given[r] /\ c \notin F
        BY <1>3, <2>4, <3>1
      <4> QED  BY <2>3, <2>6, <2>7, <4>1
    <3>2. CASE d # c
      <4>1. nd2[d][r] = nd[d][r]
        BY <1>3, <2>1, <3>2
      <4> QED  BY <2>3, <2>6, <2>7, <4>1
    <3> QED  BY <3>1, <3>2
  <2> QED  BY <2>8 DEF d, new
<1>8. SafeByDefinition(avail2, alloc2, nd2)
  BY <1>7 DEF SafeByDefinition, allLessThanEqual, N
<1> QED  BY <1>8 DEF avail2, alloc2, nd2

\* A grant is made only if the scan accepts it, which is right by ScanIsSound; a
\* release keeps the order.
LEMMA SafeNext == Conserved /\ AlwaysSafe /\ [Next]_vars => AlwaysSafe'
<1> SUFFICES ASSUME TypeOK, AlwaysSafe, [Next]_vars  PROVE AlwaysSafe'
  BY DEF Conserved
<1>1. CASE UNCHANGED vars
  BY <1>1 DEF vars, AlwaysSafe
<1>2. ASSUME NEW request \in Amounts, NEW c \in Customers, RequestGranted(c, request)
      PROVE  AlwaysSafe'
  <2>1. Admissible(c, request) /\ SafeAfter(c, request)
    BY <1>2 DEF RequestGranted
  <2>2. SafeByDefinition(AvailableAfter(request), AllocationAfter(c, request), NeedAfter(c, request))
    BY <2>1, RefusalIsRight DEF RefusedIffUnsafe
  <2> QED  BY <1>2, <2>2 DEF RequestGranted, AlwaysSafe
<1>3. ASSUME NEW release \in Amounts, NEW c \in Customers, Release(c, release)
      PROVE  AlwaysSafe'
  <2> DEFINE given == Clamp(c, release)
  <2>1. given \in Vectors /\ \A r \in Resources : given[r] <= allocation[c][r]
    BY ClampType
  <2>2. /\ allocation' = [allocation EXCEPT ![c] = Minus(allocation[c], given)]
        /\ need'       = [need EXCEPT ![c] = Plus(need[c], given)]
        /\ available'  = Plus(available, given)
    BY <1>3 DEF Release, TypeOK
  <2> HIDE DEF given
  <2>3. CASE \A d \in Customers : \A r \in Resources : allocation[d][r] = 0
    <3>1. \A r \in Resources : given[r] = 0
      BY <2>1, <2>3 DEF Vectors
    <3>2. \A d \in Customers : \A r \in Resources : allocation'[d][r] = 0
      BY <2>2, <2>3, <3>1 DEF Minus, TypeOK
    <3> QED  BY <3>2 DEF AlwaysSafe
  <2>4. CASE SafeByDefinition(available, allocation, need)
    <3>1. available \in Vectors /\ allocation \in Matrices /\ need \in Matrices
      BY DEF TypeOK, Vectors, Matrices
    <3>2. SafeByDefinition(available', allocation', need')
      BY <2>1, <2>2, <2>4, <3>1, SafeAfterRelease
    <3> QED  BY <3>2 DEF AlwaysSafe
  <2> QED  BY <2>3, <2>4 DEF AlwaysSafe
<1>4. ASSUME NEW request \in Amounts, NEW c \in (-1)..NUMBER_OF_CUSTOMERS, Request(c, request)
      PROVE  AlwaysSafe'
  <2>1. CASE UNCHANGED vars
    BY <1>1, <2>1
  <2>2. CASE c \in Customers /\ RequestGranted(c, request)
    BY <1>2, <2>2
  <2>3. CASE c \in Customers /\ RequestUnsafe(c, request)
    BY <1>1, <2>3, TakenBack
  <2> QED
    BY <1>4, <2>1, <2>2, <2>3 DEF Request, RequestInvalid, RequestAboveClaim,
       RequestAboveAvailable, Refuse, RequestGranted, RequestUnsafe, Admissible
<1> QED  BY <1>1, <1>3, <1>4 DEF Next

\* Once somebody holds something, there is always an order in which all customers
\* can finish.
THEOREM BankStaysSafe == Spec => []AlwaysSafe
<1>1. Init => AlwaysSafe
  BY DEF Init, AlwaysSafe
<1>2. Spec => []Conserved
  BY ConservedInit, ConservedNext, PTL DEF Spec
<1> QED  BY <1>1, <1>2, SafeNext, PTL DEF Spec

-----------------------------------------------------------------------------
(* Allocator. *)

Looks == Len(list) + 1                \* the nodes before TAIL
Finds == [vol : Int, node : Int]      \* what best_fit and worst_fit remember

\* The list is a list of blocks.
LEMMA ListType ==
  ASSUME list \in Seq(Blocks)
  PROVE  /\ Len(list) \in Nat /\ list \in [1..Len(list) -> Blocks]
         /\ \A k \in 1..Len(list) :
              /\ list[k] \in Blocks /\ list[k].base \in 0..MAX
              /\ list[k].limit \in 0..MaxRequest
<1>1. Len(list) \in Nat /\ list \in [1..Len(list) -> Blocks]
  BY LenProperties
<1>2. \A b \in Blocks : b.base \in 0..MAX /\ b.limit \in 0..MaxRequest
  BY DEF Blocks
<1> QED  BY <1>1, <1>2

\* The nodes lie in the memory or, where they do not, the holes show it.
LEMMA HoleType ==
  ASSUME list \in Seq(Blocks), NEW k \in 0..Len(list)
  PROVE  /\ Base(k + 1) \in 0..MAX /\ End(k) \in Nat
         /\ Hole(k) = Base(k + 1) - End(k) /\ Hole(k) \in Int /\ Hole(k) <= MAX
<1>1. MAX \in Nat /\ MaxRequest \in Nat /\ Len(list) \in Nat
  BY AllocatorAssumption, ListType
<1>2. End(k) \in Nat
  BY <1>1, ListType DEF End
<1>3. Base(k + 1) \in 0..MAX
  BY <1>1, ListType DEF Base
<1> QED  BY <1>1, <1>2, <1>3 DEF Hole

\* The k-th look is at node k - 1.
LEMMA LooksType ==
  ASSUME list \in Seq(Blocks)
  PROVE  /\ Looks \in Nat /\ Looks # 0 /\ Looks - 1 = Len(list)
         /\ \A k \in 1..Looks : k - 1 \in 0..Len(list) /\ Hole(k-1) \in Int
<1>1. Len(list) \in Nat
  BY ListType
<1>2. Looks = Len(list) + 1
  BY DEF Looks
<1>3. \A k \in 1..Looks : k - 1 \in 0..Len(list)
  BY <1>1, <1>2
<1> QED  BY <1>1, <1>2, <1>3, HoleType

-----------------------------------------------------------------------------
(* The searches. *)

BestStart  == [vol |-> MAX + 1, node |-> NoHole]
WorstStart == [vol |-> -1, node |-> NoHole]
FirstLook(x, k, memory) ==
  IF x # NoHole THEN x ELSE IF Hole(k) < memory THEN NoHole ELSE k
BestLook(x, k, memory) ==
  IF memory <= Hole(k) /\ Hole(k) < x.vol THEN [vol |-> Hole(k), node |-> k] ELSE x
WorstLook(x, k, memory) ==
  IF memory <= Hole(k) /\ Hole(k) > x.vol THEN [vol |-> Hole(k), node |-> k] ELSE x

\* first_fit looks at the nodes one by one.
LEMMA FirstFitDef ==
  ASSUME list \in Seq(Blocks), NEW memory \in Int
  PROVE  \E s \in [0..Looks -> Int] :
           /\ s[0] = NoHole
           /\ \A k \in 1..Looks : s[k] = FirstLook(s[k-1], k - 1, memory)
           /\ first_fit(memory) = s[Looks]
<1> DEFINE step == [k \in 1..Looks |-> [x \in Int |-> FirstLook(x, k - 1, memory)]]
           g == CHOOSE g : g = [k \in 0..Looks |-> IF k = 0 THEN NoHole
                                                      ELSE FirstLook(g[k-1], k - 1, memory)]
<1>1. /\ Looks \in Nat /\ NoHole \in Int
      /\ \A k \in 1..Looks, x \in Int : FirstLook(x, k - 1, memory) \in Int
  BY LooksType DEF NoHole, FirstLook
<1>2. step \in Steps(Looks, Int)
  BY <1>1 DEF Steps
<1>3. \A k \in 1..Looks, x \in Int : step[k][x] = FirstLook(x, k - 1, memory)
  OBVIOUS
<1> HIDE DEF step
<1>4. PICK s : Recursive(s, Looks, Int, NoHole, step)
  BY <1>1, <1>2, RecursionExists
<1>5. /\ 0 \in 0..Looks /\ Looks \in 0..Looks
      /\ \A k \in 1..Looks : k - 1 \in 0..Looks /\ k \in 0..Looks /\ k # 0
  BY <1>1
<1>6. /\ s \in [0..Looks -> Int] /\ s[0] = NoHole
      /\ \A k \in 1..Looks : s[k-1] \in Int /\ s[k] = FirstLook(s[k-1], k - 1, memory)
  <2>1. /\ s \in [0..Looks -> Int] /\ s[0] = NoHole
        /\ \A k \in 1..Looks : s[k] = step[k][s[k-1]]
    BY <1>4 DEF Recursive
  <2>2. \A k \in 1..Looks : s[k-1] \in Int
    BY <1>5, <2>1
  <2> QED  BY <1>3, <2>1, <2>2
<1>7. s = [k \in 0..Looks |-> IF k = 0 THEN NoHole ELSE FirstLook(s[k-1], k - 1, memory)]
  BY <1>5, <1>6
<1>8. g = [k \in 0..Looks |-> IF k = 0 THEN NoHole ELSE FirstLook(g[k-1], k - 1, memory)]
  BY <1>7
<1>9. first_fit(memory) = g[Looks]
  BY DEF first_fit, Looks, FirstLook
<1> HIDE DEF g
<1>10. g[0] = s[0]
  BY <1>5, <1>6, <1>8
<1>11. \A k \in 1..Looks : g[k-1] = s[k-1] => g[k] = s[k]
  BY <1>5, <1>6, <1>8
<1>12. SameSteps(Looks, g, s)
  BY <1>10, <1>11 DEF SameSteps
<1>13. \A k \in 0..Looks : g[k] = s[k]
  BY <1>1, <1>12, RecursionUnique
<1> QED  BY <1>5, <1>6, <1>9, <1>13

\* best_fit looks at the nodes one by one.
LEMMA BestFitDef ==
  ASSUME list \in Seq(Blocks), NEW memory \in Int
  PROVE  \E s \in [0..Looks -> Finds] :
           /\ s[0] = BestStart
           /\ \A k \in 1..Looks : s[k] = BestLook(s[k-1], k - 1, memory)
           /\ best_fit(memory) = s[Looks].node
<1> DEFINE step == [k \in 1..Looks |-> [x \in Finds |-> BestLook(x, k - 1, memory)]]
           g == CHOOSE g : g = [k \in 0..Looks |-> IF k = 0 THEN BestStart
                                                      ELSE BestLook(g[k-1], k - 1, memory)]
<1>1. /\ Looks \in Nat /\ BestStart \in Finds
      /\ \A k \in 1..Looks, x \in Finds : BestLook(x, k - 1, memory) \in Finds
  BY LooksType, AllocatorAssumption DEF NoHole, Finds, BestLook, BestStart
<1>2. step \in Steps(Looks, Finds)
  BY <1>1 DEF Steps
<1>3. \A k \in 1..Looks, x \in Finds : step[k][x] = BestLook(x, k - 1, memory)
  OBVIOUS
<1> HIDE DEF step
<1>4. PICK s : Recursive(s, Looks, Finds, BestStart, step)
  BY <1>1, <1>2, RecursionExists
<1>5. /\ 0 \in 0..Looks /\ Looks \in 0..Looks
      /\ \A k \in 1..Looks : k - 1 \in 0..Looks /\ k \in 0..Looks /\ k # 0
  BY <1>1
<1>6. /\ s \in [0..Looks -> Finds] /\ s[0] = BestStart
      /\ \A k \in 1..Looks : s[k-1] \in Finds /\ s[k] = BestLook(s[k-1], k - 1, memory)
  <2>1. /\ s \in [0..Looks -> Finds] /\ s[0] = BestStart
        /\ \A k \in 1..Looks : s[k] = step[k][s[k-1]]
    BY <1>4 DEF Recursive
  <2>2. \A k \in 1..Looks : s[k-1] \in Finds
    BY <1>5, <2>1
  <2> QED  BY <1>3, <2>1, <2>2
<1>7. s = [k \in 0..Looks |-> IF k = 0 THEN BestStart ELSE BestLook(s[k-1], k - 1, memory)]
  BY <1>5, <1>6
<1>8. g = [k \in 0..Looks |-> IF k = 0 THEN BestStart ELSE BestLook(g[k-1], k - 1, memory)]
  BY <1>7
<1>9. best_fit(memory) = g[Looks].node
  BY DEF best_fit, Looks, BestLook, BestStart
<1> HIDE DEF g
<1>10. g[0] = s[0]
  BY <1>5, <1>6, <1>8
<1>11. \A k \in 1..Looks : g[k-1] = s[k-1] => g[k] = s[k]
  BY <1>5, <1>6, <1>8
<1>12. SameSteps(Looks, g, s)
  BY <1>10, <1>11 DEF SameSteps
<1>13. \A k \in 0..Looks : g[k] = s[k]
  BY <1>1, <1>12, RecursionUnique
<1> QED  BY <1>5, <1>6, <1>9, <1>13

\* worst_fit looks at the nodes one by one.
LEMMA WorstFitDef ==
  ASSUME list \in Seq(Blocks), NEW memory \in Int
  PROVE  \E s \in [0..Looks -> Finds] :
           /\ s[0] = WorstStart
           /\ \A k \in 1..Looks : s[k] = WorstLook(s[k-1], k - 1, memory)
           /\ worst_fit(memory) = s[Looks].node
<1> DEFINE step == [k \in 1..Looks |-> [x \in Finds |-> WorstLook(x, k - 1, memory)]]
           g == CHOOSE g : g = [k \in 0..Looks |-> IF k = 0 THEN WorstStart
                                                      ELSE WorstLook(g[k-1], k - 1, memory)]
<1>1. /\ Looks \in Nat /\ WorstStart \in Finds
      /\ \A k \in 1..Looks, x \in Finds : WorstLook(x, k - 1, memory) \in Finds
  BY LooksType DEF NoHole, Finds, WorstLook, WorstStart
<1>2. step \in Steps(Looks, Finds)
  BY <1>1 DEF Steps
<1>3. \A k \in 1..Looks, x \in Finds : step[k][x] = WorstLook(x, k - 1, memory)
  OBVIOUS
<1> HIDE DEF step
<1>4. PICK s : Recursive(s, Looks, Finds, WorstStart, step)
  BY <1>1, <1>2, RecursionExists
<1>5. /\ 0 \in 0..Looks /\ Looks \in 0..Looks
      /\ \A k \in 1..Looks : k - 1 \in 0..Looks /\ k \in 0..Looks /\ k # 0
  BY <1>1
<1>6. /\ s \in [0..Looks -> Finds] /\ s[0] = WorstStart
      /\ \A k \in 1..Looks : s[k-1] \in Finds /\ s[k] = WorstLook(s[k-1], k - 1, memory)
  <2>1. /\ s \in [0..Looks -> Finds] /\ s[0] = WorstStart
        /\ \A k \in 1..Looks : s[k] = step[k][s[k-1]]
    BY <1>4 DEF Recursive
  <2>2. \A k \in 1..Looks : s[k-1] \in Finds
    BY <1>5, <2>1
  <2> QED  BY <1>3, <2>1, <2>2
<1>7. s = [k \in 0..Looks |-> IF k = 0 THEN WorstStart ELSE WorstLook(s[k-1], k - 1, memory)]
  BY <1>5, <1>6
<1>8. g = [k \in 0..Looks |-> IF k = 0 THEN WorstStart ELSE WorstLook(g[k-1], k - 1, memory)]
  BY <1>7
<1>9. worst_fit(memory) = g[Looks].node
  BY DEF worst_fit, Looks, WorstLook, WorstStart
<1> HIDE DEF g
<1>10. g[0] = s[0]
  BY <1>5, <1>6, <1>8
<1>11. \A k \in 1..Looks : g[k-1] = s[k-1] => g[k] = s[k]
  BY <1>5, <1>6, <1>8
<1>12. SameSteps(Looks, g, s)
  BY <1>10, <1>11 DEF SameSteps
<1>13. \A k \in 0..Looks : g[k] = s[k]
  BY <1>1, <1>12, RecursionUnique
<1> QED  BY <1>5, <1>6, <1>9, <1>13

\* It finds the first hole that is large enough, if there is one.
LEMMA FirstFitIs ==
  ASSUME list \in Seq(Blocks), NEW memory \in Int
  PROVE  \/ /\ first_fit(memory) = NoHole
            /\ \A k \in 0..Len(list) : Hole(k) < memory
         \/ /\ first_fit(memory) \in 0..Len(list) /\ Hole(first_fit(memory)) >= memory
            /\ \A k \in 0..Len(list) : Hole(k) >= memory => first_fit(memory) <= k
<1>1. PICK s \in [0..Looks -> Int] :
        /\ s[0] = NoHole
        /\ \A k \in 1..Looks : s[k] = FirstLook(s[k-1], k - 1, memory)
        /\ first_fit(memory) = s[Looks]
  BY FirstFitDef
<1> DEFINE Found(x, j) ==
             \/ x = NoHole /\ \A k \in 0..(j-1) : Hole(k) < memory
             \/ /\ x \in 0..(j-1) /\ Hole(x) >= memory
                /\ \A k \in 0..(j-1) : Hole(k) >= memory => x <= k
           S == {j \in 0..Looks : Found(s[j], j)}
<1>2. 0 \in S
  BY <1>1, LooksType
<1>3. ASSUME NEW j \in 1..Looks, j - 1 \in S  PROVE j \in S
  <2>1. /\ Found(s[j-1], j - 1) /\ j \in 0..Looks /\ j \in Nat /\ j - 1 \in Nat
        /\ Hole(j-1) \in Int
    BY <1>3, LooksType
  <2>2. s[j] = (IF s[j-1] # NoHole THEN s[j-1] ELSE IF Hole(j-1) < memory THEN NoHole ELSE j - 1)
    <3>1. s[j] = FirstLook(s[j-1], j - 1, memory)
      BY <1>1
    <3> QED  BY <3>1 DEF FirstLook
  <2>3. 0..(j-1) = 0..((j-1)-1) \cup {j - 1} /\ j - 1 \in 0..(j-1) /\ ~(j - 1 \in 0..((j-1)-1))
    BY <2>1
  <2>4. Found(s[j], j)
    <3>1. CASE s[j-1] # NoHole
      BY <2>1, <2>2, <2>3, <3>1
    <3>2. CASE s[j-1] = NoHole /\ Hole(j-1) < memory
      BY <2>1, <2>2, <2>3, <3>2 DEF NoHole
    <3>3. CASE s[j-1] = NoHole /\ ~(Hole(j-1) < memory)
      <4>1. \A k \in 0..((j-1)-1) : Hole(k) < memory
        BY <2>1, <3>3 DEF NoHole
      <4>2. s[j] = j - 1 /\ Hole(j-1) >= memory
        BY <2>1, <2>2, <3>3
      <4>3. \A k \in 0..(j-1) : Hole(k) >= memory => j - 1 <= k
        <5> TAKE k \in 0..(j-1)
        <5>1. CASE k = j - 1
          BY <2>1, <5>1
        <5>2. CASE k \in 0..((j-1)-1)
          <6>1. k \in 0..Len(list) /\ Hole(k) < memory
            BY <4>1, <5>2, LooksType
          <6> QED  BY <6>1, HoleType
        <5> QED  BY <2>3, <5>1, <5>2
      <4> QED  BY <2>3, <4>2, <4>3
    <3> QED  BY <3>1, <3>2, <3>3
  <2> QED  BY <2>1, <2>4
<1> HIDE DEF S
<1>4. 0..Looks \subseteq S
  BY <1>2, <1>3, LooksType, BoundedInduction
<1>5. Looks \in 0..Looks /\ 0..(Looks-1) = 0..Len(list)
  BY LooksType
<1> QED  BY <1>1, <1>4, <1>5 DEF S

\* It finds the first of the smallest holes that are large enough, if there is one.
LEMMA BestFitIs ==
  ASSUME list \in Seq(Blocks), NEW memory \in Int
  PROVE  \/ /\ best_fit(memory) = NoHole
            /\ \A k \in 0..Len(list) : Hole(k) < memory
         \/ /\ best_fit(memory) \in 0..Len(list) /\ Hole(best_fit(memory)) >= memory
            /\ \A k \in 0..Len(list) : Hole(k) >= memory =>
                 /\ Hole(best_fit(memory)) <= Hole(k)
                 /\ Hole(best_fit(memory)) = Hole(k) => best_fit(memory) <= k
<1>1. PICK s \in [0..Looks -> Finds] :
        /\ s[0] = BestStart
        /\ \A k \in 1..Looks : s[k] = BestLook(s[k-1], k - 1, memory)
        /\ best_fit(memory) = s[Looks].node
  BY BestFitDef
<1> DEFINE Found(x, v, j) ==
             \/ x = NoHole /\ v = MAX + 1 /\ \A k \in 0..(j-1) : Hole(k) < memory
             \/ /\ x \in 0..(j-1) /\ v = Hole(x) /\ Hole(x) >= memory
                /\ \A k \in 0..(j-1) : Hole(k) >= memory =>
                     Hole(x) <= Hole(k) /\ (Hole(x) = Hole(k) => x <= k)
           S == {j \in 0..Looks : Found(s[j].node, s[j].vol, j)}
<1>2. 0 \in S
  BY <1>1, LooksType DEF BestStart
<1>3. ASSUME NEW j \in 1..Looks, j - 1 \in S  PROVE j \in S
  <2> DEFINE x == s[j-1].node
             v == s[j-1].vol
  <2>1. /\ Found(x, v, j - 1) /\ j \in 0..Looks /\ j \in Nat /\ j - 1 \in Nat
        /\ Hole(j-1) \in Int /\ Hole(j-1) <= MAX /\ MAX \in Nat /\ x \in Int /\ v \in Int
    <3>1. Found(x, v, j - 1) /\ j \in 0..Looks /\ j \in Nat /\ j - 1 \in Nat /\ j - 1 \in 0..Looks
      BY <1>3, LooksType
    <3>2. x \in Int /\ v \in Int
      BY <3>1 DEF Finds
    <3>3. j - 1 \in 0..Len(list)
      BY LooksType
    <3> QED  BY <3>1, <3>2, <3>3, HoleType, AllocatorAssumption
  <2>2. IF memory <= Hole(j-1) /\ Hole(j-1) < v
        THEN s[j].node = j - 1 /\ s[j].vol = Hole(j-1)
        ELSE s[j].node = x /\ s[j].vol = v
    <3>1. s[j] = BestLook(s[j-1], j - 1, memory)
      BY <1>1
    <3> QED  BY <3>1 DEF BestLook
  <2> HIDE DEF x, v
  <2>3. /\ 0..(j-1) = 0..((j-1)-1) \cup {j - 1} /\ j - 1 \in 0..(j-1)
        /\ \A k \in 0..((j-1)-1) : k \in Int /\ k < j - 1 /\ k \in 0..(j-1) /\ Hole(k) \in Int
    <3>1. /\ 0..(j-1) = 0..((j-1)-1) \cup {j - 1} /\ j - 1 \in 0..(j-1)
          /\ \A k \in 0..((j-1)-1) : k \in Int /\ k < j - 1 /\ k \in 0..(j-1)
      BY <2>1
    <3>2. \A k \in 0..((j-1)-1) : k \in 0..Len(list)
      BY <2>1, LooksType
    <3> QED  BY <3>1, <3>2, HoleType
  <2>4. Found(s[j].node, s[j].vol, j)
    <3>1. CASE ~(memory <= Hole(j-1))
      <4>1. s[j].node = x /\ s[j].vol = v /\ Hole(j-1) < memory
        BY <2>1, <2>2, <3>1
      <4>2. CASE x = NoHole /\ v = MAX + 1 /\ \A k \in 0..((j-1)-1) : Hole(k) < memory
        BY <2>3, <4>1, <4>2
      <4>3. CASE x # NoHole \/ v # MAX + 1 \/ ~\A k \in 0..((j-1)-1) : Hole(k) < memory
        <5>1. /\ x \in 0..((j-1)-1) /\ v = Hole(x) /\ Hole(x) >= memory
              /\ \A k \in 0..((j-1)-1) : Hole(k) >= memory =>
                     Hole(x) <= Hole(k) /\ (Hole(x) = Hole(k) => x <= k)
          BY <2>1, <4>3
        <5>2. \A k \in 0..(j-1) : Hole(k) >= memory =>
                     Hole(x) <= Hole(k) /\ (Hole(x) = Hole(k) => x <= k)
          BY <2>1, <2>3, <3>1, <5>1
        <5> QED  BY <2>3, <4>1, <5>1, <5>2
      <4> QED  BY <4>2, <4>3
    <3>2. CASE memory <= Hole(j-1) /\ Hole(j-1) < v
      <4>1. s[j].node = j - 1 /\ s[j].vol = Hole(j-1)
        BY <2>2, <3>2
      <4>2. \A k \in 0..((j-1)-1) : Hole(k) >= memory => Hole(j-1) < Hole(k)
        BY <2>1, <2>3, <3>2
      <4>3. \A k \in 0..(j-1) : Hole(k) >= memory =>
              Hole(j-1) <= Hole(k) /\ (Hole(j-1) = Hole(k) => j - 1 <= k)
        <5> TAKE k \in 0..(j-1)
        <5>1. CASE k = j - 1
          BY <2>1, <5>1
        <5>2. CASE k \in 0..((j-1)-1)
          BY <2>1, <2>3, <4>2, <5>2
        <5> QED  BY <2>3, <5>1, <5>2
      <4> QED  BY <2>1, <2>3, <3>2, <4>1, <4>3
    <3>3. CASE memory <= Hole(j-1) /\ ~(Hole(j-1) < v)
      <4>1. s[j].node = x /\ s[j].vol = v /\ v # MAX + 1
        BY <2>1, <2>2, <3>3
      <4>2. /\ x \in 0..((j-1)-1) /\ v = Hole(x) /\ Hole(x) >= memory
            /\ \A k \in 0..((j-1)-1) : Hole(k) >= memory =>
                     Hole(x) <= Hole(k) /\ (Hole(x) = Hole(k) => x <= k)
        BY <2>1, <4>1
      <4>3. Hole(x) <= Hole(j-1) /\ x <= j - 1
        BY <2>1, <2>3, <3>3, <4>2
      <4>4. \A k \in 0..(j-1) : Hole(k) >= memory =>
              Hole(x) <= Hole(k) /\ (Hole(x) = Hole(k) => x <= k)
        BY <2>3, <4>2, <4>3
      <4> QED  BY <2>3, <4>1, <4>2, <4>4
    <3> QED  BY <3>1, <3>2, <3>3
  <2> QED  BY <2>1, <2>4
<1> HIDE DEF S
<1>4. 0..Looks \subseteq S
  BY <1>2, <1>3, LooksType, BoundedInduction
<1>5. Looks \in 0..Looks /\ 0..(Looks-1) = 0..Len(list)
  BY LooksType
<1>6. Found(s[Looks].node, s[Looks].vol, Looks)
  BY <1>4, <1>5 DEF S
<1> QED  BY <1>1, <1>5, <1>6

\* It finds the first of the largest holes that are large enough, if there is one.
LEMMA WorstFitIs ==
  ASSUME list \in Seq(Blocks), NEW memory \in Nat
  PROVE  \/ /\ worst_fit(memory) = NoHole
            /\ \A k \in 0..Len(list) : Hole(k) < memory
         \/ /\ worst_fit(memory) \in 0..Len(list) /\ Hole(worst_fit(memory)) >= memory
            /\ \A k \in 0..Len(list) : Hole(k) >= memory =>
                 /\ Hole(worst_fit(memory)) >= Hole(k)
                 /\ Hole(worst_fit(memory)) = Hole(k) => worst_fit(memory) <= k
<1>1. PICK s \in [0..Looks -> Finds] :
        /\ s[0] = WorstStart
        /\ \A k \in 1..Looks : s[k] = WorstLook(s[k-1], k - 1, memory)
        /\ worst_fit(memory) = s[Looks].node
  <2>1. memory \in Int
    OBVIOUS
  <2> QED  BY <2>1, WorstFitDef
<1> DEFINE Found(x, v, j) ==
             \/ x = NoHole /\ v = -1 /\ \A k \in 0..(j-1) : Hole(k) < memory
             \/ /\ x \in 0..(j-1) /\ v = Hole(x) /\ Hole(x) >= memory
                /\ \A k \in 0..(j-1) : Hole(k) >= memory =>
                     Hole(x) >= Hole(k) /\ (Hole(x) = Hole(k) => x <= k)
           S == {j \in 0..Looks : Found(s[j].node, s[j].vol, j)}
<1>2. 0 \in S
  BY <1>1, LooksType DEF WorstStart
<1>3. ASSUME NEW j \in 1..Looks, j - 1 \in S  PROVE j \in S
  <2> DEFINE x == s[j-1].node
             v == s[j-1].vol
  <2>1. /\ Found(x, v, j - 1) /\ j \in 0..Looks /\ j \in Nat /\ j - 1 \in Nat
        /\ Hole(j-1) \in Int /\ Hole(j-1) <= MAX /\ MAX \in Nat /\ x \in Int /\ v \in Int
    <3>1. Found(x, v, j - 1) /\ j \in 0..Looks /\ j \in Nat /\ j - 1 \in Nat /\ j - 1 \in 0..Looks
      BY <1>3, LooksType
    <3>2. x \in Int /\ v \in Int
      BY <3>1 DEF Finds
    <3>3. j - 1 \in 0..Len(list)
      BY LooksType
    <3> QED  BY <3>1, <3>2, <3>3, HoleType, AllocatorAssumption
  <2>2. IF memory <= Hole(j-1) /\ Hole(j-1) > v
        THEN s[j].node = j - 1 /\ s[j].vol = Hole(j-1)
        ELSE s[j].node = x /\ s[j].vol = v
    <3>1. s[j] = WorstLook(s[j-1], j - 1, memory)
      BY <1>1
    <3> QED  BY <3>1 DEF WorstLook
  <2> HIDE DEF x, v
  <2>3. /\ 0..(j-1) = 0..((j-1)-1) \cup {j - 1} /\ j - 1 \in 0..(j-1)
        /\ \A k \in 0..((j-1)-1) : k \in Int /\ k < j - 1 /\ k \in 0..(j-1) /\ Hole(k) \in Int
    <3>1. /\ 0..(j-1) = 0..((j-1)-1) \cup {j - 1} /\ j - 1 \in 0..(j-1)
          /\ \A k \in 0..((j-1)-1) : k \in Int /\ k < j - 1 /\ k \in 0..(j-1)
      BY <2>1
    <3>2. \A k \in 0..((j-1)-1) : k \in 0..Len(list)
      BY <2>1, LooksType
    <3> QED  BY <3>1, <3>2, HoleType
  <2>4. Found(s[j].node, s[j].vol, j)
    <3>1. CASE ~(memory <= Hole(j-1))
      <4>1. s[j].node = x /\ s[j].vol = v /\ Hole(j-1) < memory
        BY <2>1, <2>2, <3>1
      <4>2. CASE x = NoHole /\ v = -1 /\ \A k \in 0..((j-1)-1) : Hole(k) < memory
        BY <2>3, <4>1, <4>2
      <4>3. CASE x # NoHole \/ v # -1 \/ ~\A k \in 0..((j-1)-1) : Hole(k) < memory
        <5>1. /\ x \in 0..((j-1)-1) /\ v = Hole(x) /\ Hole(x) >= memory
              /\ \A k \in 0..((j-1)-1) : Hole(k) >= memory =>
                     Hole(x) >= Hole(k) /\ (Hole(x) = Hole(k) => x <= k)
          BY <2>1, <4>3
        <5>2. \A k \in 0..(j-1) : Hole(k) >= memory =>
                     Hole(x) >= Hole(k) /\ (Hole(x) = Hole(k) => x <= k)
          BY <2>1, <2>3, <3>1, <5>1
        <5> QED  BY <2>3, <4>1, <5>1, <5>2
      <4> QED  BY <4>2, <4>3
    <3>2. CASE memory <= Hole(j-1) /\ Hole(j-1) > v
      <4>1. s[j].node = j - 1 /\ s[j].vol = Hole(j-1)
        BY <2>2, <3>2
      <4>2. \A k \in 0..((j-1)-1) : Hole(k) >= memory => Hole(j-1) > Hole(k)
        BY <2>1, <2>3, <3>2
      <4>3. \A k \in 0..(j-1) : Hole(k) >= memory =>
              Hole(j-1) >= Hole(k) /\ (Hole(j-1) = Hole(k) => j - 1 <= k)
        <5> TAKE k \in 0..(j-1)
        <5>1. CASE k = j - 1
          BY <2>1, <5>1
        <5>2. CASE k \in 0..((j-1)-1)
          BY <2>1, <2>3, <4>2, <5>2
        <5> QED  BY <2>3, <5>1, <5>2
      <4> QED  BY <2>1, <2>3, <3>2, <4>1, <4>3
    <3>3. CASE memory <= Hole(j-1) /\ ~(Hole(j-1) > v)
      <4>1. s[j].node = x /\ s[j].vol = v /\ v # -1
        BY <2>1, <2>2, <3>3
      <4>2. /\ x \in 0..((j-1)-1) /\ v = Hole(x) /\ Hole(x) >= memory
            /\ \A k \in 0..((j-1)-1) : Hole(k) >= memory =>
                     Hole(x) >= Hole(k) /\ (Hole(x) = Hole(k) => x <= k)
        BY <2>1, <4>1
      <4>3. Hole(x) >= Hole(j-1) /\ x <= j - 1
        BY <2>1, <2>3, <3>3, <4>2
      <4>4. \A k \in 0..(j-1) : Hole(k) >= memory =>
              Hole(x) >= Hole(k) /\ (Hole(x) = Hole(k) => x <= k)
        BY <2>3, <4>2, <4>3
      <4> QED  BY <2>3, <4>1, <4>2, <4>4
    <3> QED  BY <3>1, <3>2, <3>3
  <2> QED  BY <2>1, <2>4
<1> HIDE DEF S
<1>4. 0..Looks \subseteq S
  BY <1>2, <1>3, LooksType, BoundedInduction
<1>5. Looks \in 0..Looks /\ 0..(Looks-1) = 0..Len(list)
  BY LooksType
<1>6. Found(s[Looks].node, s[Looks].vol, Looks)
  BY <1>4, <1>5 DEF S
<1> QED  BY <1>1, <1>5, <1>6

\* A least element is the one `lowest` chooses.
LEMMA LowestIs ==
  ASSUME NEW T, T \subseteq Int, NEW k \in T, \A m \in T : k <= m
  PROVE  (CHOOSE i \in T : \A m \in T : i <= m) = k
<1>1. \A i \in T : (\A m \in T : i <= m) => i = k
  OBVIOUS
<1> QED  BY <1>1

\* The searches do what their names say, whatever the list.
LEMMA FitsHold ==
  ASSUME list \in Seq(Blocks)
  PROVE  FitsAreRight
<1> DEFINE enough(memory) == {k \in 0..Len(list) : Hole(k) >= memory}
           lowest(T) == CHOOSE k \in T : \A m \in T : k <= m
<1> SUFFICES ASSUME NEW memory \in 0..MaxRequest
             PROVE  IF enough(memory) = {}
                    THEN \A mode \in Modes : ~Granted(mode, memory)
                    ELSE /\ first_fit(memory) = lowest(enough(memory))
                         /\ best_fit(memory) = lowest({k \in enough(memory) :
                              \A m \in enough(memory) : Hole(k) <= Hole(m)})
                         /\ worst_fit(memory) = lowest({k \in enough(memory) :
                              \A m \in enough(memory) : Hole(k) >= Hole(m)})
  BY DEF FitsAreRight
<1>1. memory \in Nat /\ memory \in Int
  BY AllocatorAssumption
<1>2. \A k \in 0..Len(list) : k \in Int /\ Hole(k) \in Int
  BY HoleType, ListType
<1> DEFINE E == enough(memory)
           low  == {k \in E : \A m \in E : Hole(k) <= Hole(m)}
           high == {k \in E : \A m \in E : Hole(k) >= Hole(m)}
<1>3. CASE E = {}
  <2>1. \A k \in 0..Len(list) : ~(Hole(k) >= memory)
    BY <1>3
  <2>2. first_fit(memory) = NoHole
    BY <1>1, <2>1, FirstFitIs
  <2>3. best_fit(memory) = NoHole
    BY <1>1, <2>1, BestFitIs
  <2>4. worst_fit(memory) = NoHole
    BY <1>1, <2>1, WorstFitIs
  <2> QED  BY <1>3, <2>2, <2>3, <2>4 DEF Granted, Search, Modes
<1>4. CASE E # {}
  <2>1. E \subseteq Int /\ low \subseteq Int /\ high \subseteq Int
    BY <1>2
  <2>2. ~\A k \in 0..Len(list) : Hole(k) < memory
    BY <1>1, <1>2, <1>4
  <2>3. first_fit(memory) = lowest(E)
    <3>1. first_fit(memory) \in E /\ \A m \in E : first_fit(memory) <= m
      BY <1>1, <2>2, FirstFitIs
    <3> HIDE DEF E
    <3> QED  BY <2>1, <3>1, LowestIs
  <2>4. best_fit(memory) = lowest(low)
    <3> DEFINE b == best_fit(memory)
    <3>1. /\ b \in 0..Len(list) /\ Hole(b) >= memory
          /\ \A k \in 0..Len(list) : Hole(k) >= memory =>
               Hole(b) <= Hole(k) /\ (Hole(b) = Hole(k) => b <= k)
      BY <1>1, <2>2, BestFitIs
    <3> HIDE DEF b
    <3>2. b \in E /\ \A m \in E : Hole(b) <= Hole(m)
      BY <3>1
    <3>3. ASSUME NEW m \in low  PROVE b <= m
      <4>1. Hole(m) <= Hole(b) /\ Hole(b) <= Hole(m)
        BY <3>2
      <4>2. Hole(b) = Hole(m)
        BY <1>2, <3>1, <4>1
      <4> QED  BY <3>1, <4>2
    <3>4. b \in low
      BY <3>2
    <3> HIDE DEF E, low
    <3>5. lowest(low) = b
      BY <2>1, <3>3, <3>4, LowestIs
    <3> QED  BY <3>5 DEF b
  <2>5. worst_fit(memory) = lowest(high)
    <3> DEFINE b == worst_fit(memory)
    <3>1. /\ b \in 0..Len(list) /\ Hole(b) >= memory
          /\ \A k \in 0..Len(list) : Hole(k) >= memory =>
               Hole(b) >= Hole(k) /\ (Hole(b) = Hole(k) => b <= k)
      BY <1>1, <2>2, WorstFitIs
    <3> HIDE DEF b
    <3>2. b \in E /\ \A m \in E : Hole(b) >= Hole(m)
      BY <3>1
    <3>3. ASSUME NEW m \in high  PROVE b <= m
      <4>1. Hole(m) >= Hole(b) /\ Hole(b) >= Hole(m)
        BY <3>2
      <4>2. Hole(b) = Hole(m)
        BY <1>2, <3>1, <4>1
      <4> QED  BY <3>1, <4>2
    <3>4. b \in high
      BY <3>2
    <3> HIDE DEF E, high
    <3>5. lowest(high) = b
      BY <2>1, <3>3, <3>4, LowestIs
    <3> QED  BY <3>5 DEF b
  <2> QED  BY <1>4, <2>3, <2>4, <2>5
<1> QED  BY <1>3, <1>4

-----------------------------------------------------------------------------
(* The processes stay apart. *)

BaseIn(s, k) == IF k = 0 THEN 0 ELSE IF k > Len(s) THEN MAX ELSE s[k].base
EndIn(s, k)  == IF k = 0 THEN 0 ELSE s[k].base + s[k].limit

\* Each process starts where the one before it ends, or later; the last one ends
\* in the memory.
Chained(s) == \A k \in 1..Len(s) : EndIn(s, k - 1) <= s[k].base
Apart(s)   == Chained(s) /\ EndIn(s, Len(s)) <= MAX

\* What is known of the elements of a sequence of blocks.
LEMMA BlocksType ==
  ASSUME NEW s \in Seq(Blocks)
  PROVE  /\ Len(s) \in Nat /\ MAX \in Nat
         /\ \A k \in 1..Len(s) :
              /\ s[k] \in Blocks /\ s[k].base \in Nat /\ s[k].base <= MAX
              /\ s[k].limit \in Nat /\ EndIn(s, k) = s[k].base + s[k].limit
         /\ EndIn(s, 0) = 0 /\ \A k \in 0..Len(s) : EndIn(s, k) \in Nat
<1>1. Len(s) \in Nat /\ MAX \in Nat /\ MaxRequest \in Nat
  BY AllocatorAssumption, LenProperties
<1>2. \A b \in Blocks : b.base \in Nat /\ b.base <= MAX /\ b.limit \in Nat
  BY <1>1 DEF Blocks
<1>3. \A k \in 1..Len(s) : s[k] \in Blocks
  BY ElementOfSeq
<1>4. \A k \in 1..Len(s) : k # 0
  BY <1>1
<1>5. \A k \in 0..Len(s) : k = 0 \/ k \in 1..Len(s)
  BY <1>1
<1> QED  BY <1>1, <1>2, <1>3, <1>4, <1>5 DEF EndIn

\* That is what NoOverlap says, hole by hole.
LEMMA HolesAre ==
  ASSUME NEW s \in Seq(Blocks)
  PROVE  (\A k \in 0..Len(s) : BaseIn(s, k + 1) - EndIn(s, k) >= 0) <=> Apart(s)
<1>1. Len(s) \in Nat
  BY BlocksType
<1>2. \A k \in 1..Len(s) : (k - 1) + 1 = k /\ k - 1 \in 0..Len(s) /\ BaseIn(s, k) = s[k].base
  BY <1>1 DEF BaseIn
<1>3. BaseIn(s, Len(s) + 1) = MAX /\ Len(s) \in 0..Len(s)
  BY <1>1 DEF BaseIn
<1>4. \A k \in 0..Len(s) : k = Len(s) \/ (k + 1 \in 1..Len(s) /\ (k + 1) - 1 = k)
  BY <1>1
<1>5. ASSUME \A k \in 0..Len(s) : BaseIn(s, k + 1) - EndIn(s, k) >= 0
      PROVE  Apart(s)
  <2>1. ASSUME NEW k \in 1..Len(s)  PROVE EndIn(s, k - 1) <= s[k].base
    <3>1. s[k].base - EndIn(s, k - 1) >= 0
      BY <1>2, <1>5
    <3> QED  BY <1>2, <3>1, BlocksType
  <2>2. MAX - EndIn(s, Len(s)) >= 0
    BY <1>3, <1>5
  <2>3. EndIn(s, Len(s)) <= MAX
    BY <1>3, <2>2, BlocksType
  <2> QED  BY <2>1, <2>3 DEF Apart, Chained
<1>6. ASSUME Apart(s), NEW k \in 0..Len(s)
      PROVE  BaseIn(s, k + 1) - EndIn(s, k) >= 0
  <2>1. CASE k = Len(s)
    BY <1>3, <1>6, <2>1, BlocksType DEF Apart
  <2>2. CASE k + 1 \in 1..Len(s) /\ (k + 1) - 1 = k
    <3>1. EndIn(s, k) <= s[k+1].base /\ BaseIn(s, k + 1) = s[k+1].base
      BY <1>2, <1>6, <2>2 DEF Apart, Chained
    <3>2. EndIn(s, k) \in Nat /\ s[k+1].base \in Nat
      BY <2>2, BlocksType
    <3> QED  BY <3>1, <3>2
  <2> QED  BY <1>4, <2>1, <2>2
<1> QED  BY <1>5, <1>6

\* So it says now ...
LEMMA NoOverlapIs ==
  ASSUME list \in Seq(Blocks)
  PROVE  NoOverlap <=> Apart(list)
<1>1. NoOverlap <=> \A k \in 0..Len(list) : BaseIn(list, k + 1) - EndIn(list, k) >= 0
  BY DEF NoOverlap, Hole, Base, End, BaseIn, EndIn
<1> QED  BY <1>1, HolesAre

\* ... and after the step.
LEMMA NoOverlapNext ==
  ASSUME list' \in Seq(Blocks)
  PROVE  NoOverlap' <=> Apart(list')
<1>1. NoOverlap' <=> \A k \in 0..Len(list') : BaseIn(list', k + 1) - EndIn(list', k) >= 0
  BY DEF NoOverlap, Hole, Base, End, BaseIn, EndIn
<1> QED  BY <1>1, HolesAre

\* t is s with e inserted at place i.
Inserted(t, s, i, e) ==
  /\ Len(t) = Len(s) + 1
  /\ \A k \in 1..(Len(s) + 1) : t[k] = IF k < i THEN s[k] ELSE IF k = i THEN e ELSE s[k-1]

\* InsertAt does that.
LEMMA InsertAtIs ==
  ASSUME NEW S, NEW s \in Seq(S), NEW i \in 1..(Len(s) + 1), NEW e \in S
  PROVE  InsertAt(s, i, e) \in Seq(S) /\ Inserted(InsertAt(s, i, e), s, i, e)
<1> DEFINE a == SubSeq(s, 1, i - 1)
           m == <<e>>
           c == SubSeq(s, i, Len(s))
<1>1. Len(s) \in Nat /\ i \in Nat /\ i >= 1 /\ i <= Len(s) + 1 /\ \A k \in 1..Len(s) : s[k] \in S
  BY LenProperties
<1>2. a \in Seq(S) /\ Len(a) = i - 1 /\ \A k \in 1..(i-1) : a[k] = s[k]
  <2>1. 1 \in Int /\ i - 1 \in Int /\ \A k \in 1..(i-1) : s[k] \in S
    BY <1>1
  <2>2. /\ a \in Seq(S) /\ Len(a) = (IF 1 <= i - 1 THEN (i - 1) - 1 + 1 ELSE 0)
        /\ \A k \in 1..((i - 1) - 1 + 1) : a[k] = s[1+k-1]
    BY <2>1, SubSeqProperties
  <2> HIDE DEF a
  <2> QED  BY <1>1, <2>2
<1>3. m \in Seq(S) /\ Len(m) = 1 /\ m[1] = e
  OBVIOUS
<1>4. c \in Seq(S) /\ Len(c) = Len(s) - i + 1 /\ \A k \in 1..(Len(s) - i + 1) : c[k] = s[i+k-1]
  <2>1. i \in Int /\ Len(s) \in Int /\ \A k \in i..Len(s) : s[k] \in S
    BY <1>1
  <2>2. /\ c \in Seq(S) /\ Len(c) = (IF i <= Len(s) THEN Len(s) - i + 1 ELSE 0)
        /\ \A k \in 1..(Len(s) - i + 1) : c[k] = s[i+k-1]
    BY <2>1, SubSeqProperties
  <2> HIDE DEF c
  <2> QED  BY <1>1, <2>2
<1>5. InsertAt(s, i, e) = (a \o m) \o c
  BY DEF InsertAt
<1> HIDE DEF a, m, c
<1>6. /\ a \o m \in Seq(S) /\ Len(a \o m) = i
      /\ \A k \in 1..i : (a \o m)[k] = IF k <= i - 1 THEN a[k] ELSE m[k - (i - 1)]
  <2>1. /\ a \o m \in Seq(S) /\ Len(a \o m) = Len(a) + Len(m)
        /\ \A k \in 1..(Len(a) + Len(m)) : (a \o m)[k] = IF k <= Len(a) THEN a[k] ELSE m[k - Len(a)]
    BY <1>2, <1>3, ConcatProperties
  <2>2. Len(a) + Len(m) = i /\ Len(a) = i - 1
    BY <1>1, <1>2, <1>3
  <2> QED  BY <2>1, <2>2
<1>7. /\ (a \o m) \o c \in Seq(S) /\ Len((a \o m) \o c) = Len(s) + 1
      /\ \A k \in 1..(Len(s) + 1) : ((a \o m) \o c)[k] = IF k <= i THEN (a \o m)[k] ELSE c[k - i]
  <2>1. /\ (a \o m) \o c \in Seq(S) /\ Len((a \o m) \o c) = Len(a \o m) + Len(c)
        /\ \A k \in 1..(Len(a \o m) + Len(c)) :
             ((a \o m) \o c)[k] = IF k <= Len(a \o m) THEN (a \o m)[k] ELSE c[k - Len(a \o m)]
    BY <1>4, <1>6, ConcatProperties
  <2>2. Len(a \o m) + Len(c) = Len(s) + 1 /\ Len(a \o m) = i
    BY <1>1, <1>4, <1>6
  <2> QED  BY <2>1, <2>2
<1>8. ASSUME NEW k \in 1..(Len(s) + 1)
      PROVE  ((a \o m) \o c)[k] = IF k < i THEN s[k] ELSE IF k = i THEN e ELSE s[k-1]
  <2>1. CASE k < i
    <3>1. k \in 1..i /\ k <= i - 1 /\ k <= i /\ k \in 1..(i-1)
      BY <1>1, <2>1
    <3> QED  BY <1>2, <1>6, <1>7, <2>1, <3>1
  <2>2. CASE k = i
    <3>1. k \in 1..i /\ ~(k <= i - 1) /\ k <= i /\ k - (i - 1) = 1 /\ ~(k < i)
      BY <1>1, <2>2
    <3> QED  BY <1>3, <1>6, <1>7, <2>2, <3>1
  <2>3. CASE k > i
    <3>1. k - i \in 1..(Len(s) - i + 1) /\ ~(k <= i) /\ ~(k < i) /\ k # i /\ i + (k - i) - 1 = k - 1
      BY <1>1, <2>3
    <3> QED  BY <1>4, <1>7, <3>1
  <2>4. k < i \/ k = i \/ k > i
    BY <1>1
  <2> QED  BY <2>1, <2>2, <2>3, <2>4
<1> QED  BY <1>5, <1>7, <1>8 DEF Inserted

\* A block put into a hole that is large enough keeps the processes apart.
LEMMA InsertKeeps ==
  ASSUME NEW s \in Seq(Blocks), Apart(s), NEW k \in 0..Len(s), NEW b \in Blocks,
         b.base = EndIn(s, k), b.base + b.limit <= BaseIn(s, k + 1)
  PROVE  InsertAt(s, k + 1, b) \in Seq(Blocks) /\ Apart(InsertAt(s, k + 1, b))
<1> DEFINE t == InsertAt(s, k + 1, b)
<1>1. /\ Len(s) \in Nat /\ k \in Nat /\ k <= Len(s) /\ k + 1 \in 1..(Len(s) + 1) /\ MAX \in Nat
      /\ b.base \in Nat /\ b.limit \in Nat
  <2>1. b.base \in Nat /\ b.limit \in Nat
    BY AllocatorAssumption DEF Blocks
  <2> QED  BY <2>1, BlocksType
<1>2. /\ t \in Seq(Blocks) /\ Len(t) = Len(s) + 1
      /\ \A j \in 1..(Len(s) + 1) :
           t[j] = IF j < k + 1 THEN s[j] ELSE IF j = k + 1 THEN b ELSE s[j-1]
  <2>1. t \in Seq(Blocks) /\ Inserted(t, s, k + 1, b)
    BY <1>1, InsertAtIs
  <2> QED  BY <2>1 DEF Inserted
<1> HIDE DEF t
<1>3. /\ \A j \in 0..k : EndIn(t, j) = EndIn(s, j)
      /\ EndIn(t, k + 1) = b.base + b.limit
      /\ \A j \in (k+2)..(Len(s)+1) : EndIn(t, j) = EndIn(s, j - 1)
  <2>1. ASSUME NEW j \in 0..k  PROVE EndIn(t, j) = EndIn(s, j)
    <3>1. CASE j = 0
      BY <3>1 DEF EndIn
    <3>2. CASE j # 0
      <4>1. t[j] = s[j]
        BY <1>1, <1>2, <3>2
      <4> QED  BY <3>2, <4>1 DEF EndIn
    <3> QED  BY <3>1, <3>2
  <2>2. EndIn(t, k + 1) = b.base + b.limit
    <3>1. t[k+1] = b /\ k + 1 # 0
      BY <1>1, <1>2
    <3> QED  BY <3>1 DEF EndIn
  <2>3. ASSUME NEW j \in (k+2)..(Len(s)+1)  PROVE EndIn(t, j) = EndIn(s, j - 1)
    <3>1. t[j] = s[j-1] /\ j # 0 /\ j - 1 # 0
      BY <1>1, <1>2
    <3> QED  BY <3>1 DEF EndIn
  <2> QED  BY <2>1, <2>2, <2>3
<1>4. ASSUME NEW j \in 1..Len(t)  PROVE EndIn(t, j - 1) <= t[j].base
  <2>1. CASE j < k + 1
    <3>1. j \in 1..Len(s) /\ j - 1 \in 0..k /\ t[j] = s[j]
      BY <1>1, <1>2, <2>1
    <3> QED  BY <1>3, <3>1 DEF Apart, Chained
  <2>2. CASE j = k + 1
    <3>1. t[j] = b /\ j - 1 = k /\ k \in 0..k
      BY <1>1, <1>2, <2>2
    <3> QED  BY <1>1, <1>3, <3>1
  <2>3. CASE j = k + 2
    <3>1. /\ t[j] = s[k+1] /\ j - 1 = k + 1 /\ k + 1 \in 1..Len(s)
      BY <1>1, <1>2, <2>3
    <3>2. BaseIn(s, k + 1) = s[k+1].base
      BY <1>1, <3>1 DEF BaseIn
    <3> QED  BY <1>3, <3>1, <3>2
  <2>4. CASE j > k + 2
    <3>1. t[j] = s[j-1] /\ j - 1 \in 1..Len(s) /\ j - 1 \in (k+2)..(Len(s)+1)
      BY <1>1, <1>2, <2>4
    <3> QED  BY <1>3, <3>1 DEF Apart, Chained
  <2> QED  BY <1>1, <1>2, <2>1, <2>2, <2>3, <2>4
<1>5. EndIn(t, Len(t)) <= MAX
  <2>1. CASE k = Len(s)
    <3>1. BaseIn(s, k + 1) = MAX
      BY <1>1, <2>1 DEF BaseIn
    <3> QED  BY <1>2, <1>3, <2>1, <3>1
  <2>2. CASE k # Len(s)
    <3>1. Len(t) \in (k+2)..(Len(s)+1) /\ Len(t) - 1 = Len(s)
      BY <1>1, <1>2, <2>2
    <3> QED  BY <1>3, <3>1 DEF Apart
  <2> QED  BY <2>1, <2>2
<1>6. Chained(t)
  BY <1>4 DEF Chained
<1> QED  BY <1>2, <1>5, <1>6 DEF Apart, t

\* What a search finds is a hole that is large enough.
LEMMA SearchFinds ==
  ASSUME list \in Seq(Blocks), NEW memory \in Nat, NEW mode, Granted(mode, memory)
  PROVE  Search(mode, memory) \in 0..Len(list) /\ Hole(Search(mode, memory)) >= memory
<1>1. Search(mode, memory) # NoHole
  BY DEF Granted
<1>2. Search(mode, memory) \in {first_fit(memory), best_fit(memory), worst_fit(memory), NoHole}
  BY DEF Search
<1>3. memory \in Int
  OBVIOUS
<1>4. CASE Search(mode, memory) = first_fit(memory)
  BY <1>1, <1>3, <1>4, FirstFitIs
<1>5. CASE Search(mode, memory) = best_fit(memory)
  BY <1>1, <1>3, <1>5, BestFitIs
<1>6. CASE Search(mode, memory) = worst_fit(memory)
  BY <1>1, <1>6, WorstFitIs
<1> QED  BY <1>1, <1>2, <1>4, <1>5, <1>6

\* A request keeps the processes apart.
LEMMA AllocateKeeps ==
  ASSUME list \in Seq(Blocks), Apart(list), NEW pid \in Pids,
         NEW memory \in 0..MaxRequest, NEW mode,
         Allocate(pid, memory, mode)
  PROVE  list' \in Seq(Blocks) /\ Apart(list')
<1> DEFINE k == Search(mode, memory)
           b == [base |-> End(k), limit |-> memory, pid |-> pid]
<1>1. memory \in Nat /\ Len(list) \in Nat /\ MAX \in Nat
  BY AllocatorAssumption, ListType
<1>2. Granted(mode, memory) /\ list' = InsertAt(list, k + 1, b)
  BY DEF Allocate
<1>3. k \in 0..Len(list) /\ Hole(k) >= memory
  BY <1>1, <1>2, SearchFinds
<1> HIDE DEF k
<1>4. Base(k + 1) \in 0..MAX /\ End(k) \in Nat /\ Hole(k) = Base(k + 1) - End(k)
  BY <1>3, HoleType
<1>5. End(k) + memory <= Base(k + 1) /\ End(k) \in 0..MAX
  BY <1>1, <1>3, <1>4
<1>6. b \in Blocks /\ b.base = End(k) /\ b.limit = memory
  BY <1>5 DEF Blocks
<1>7. EndIn(list, k) = End(k) /\ BaseIn(list, k + 1) = Base(k + 1)
  BY DEF EndIn, BaseIn, End, Base
<1> HIDE DEF b
<1> QED  BY <1>2, <1>3, <1>5, <1>6, <1>7, InsertKeeps

Keep(x, k, pid) == IF list[k].pid = pid THEN x ELSE Append(x, list[k])

\* release_memory goes through the processes one by one.
LEMMA KeptDef ==
  ASSUME list \in Seq(Blocks), NEW pid, ReleaseMemory(pid)
  PROVE  \E s \in [0..Len(list) -> Seq(Blocks)] :
           /\ s[0] = <<>>
           /\ \A k \in 1..Len(list) : s[k] = Keep(s[k-1], k, pid)
           /\ list' = s[Len(list)]
<1> DEFINE step == [k \in 1..Len(list) |-> [x \in Seq(Blocks) |-> Keep(x, k, pid)]]
           g == CHOOSE g : g = [k \in 0..Len(list) |-> IF k = 0 THEN <<>>
                                                      ELSE Keep(g[k-1], k, pid)]
<1>1. /\ Len(list) \in Nat /\ <<>> \in Seq(Blocks)
      /\ \A k \in 1..Len(list), x \in Seq(Blocks) : Keep(x, k, pid) \in Seq(Blocks)
  BY ListType DEF Keep
<1>2. step \in Steps(Len(list), Seq(Blocks))
  BY <1>1 DEF Steps
<1>3. \A k \in 1..Len(list), x \in Seq(Blocks) : step[k][x] = Keep(x, k, pid)
  OBVIOUS
<1> HIDE DEF step
<1>4. PICK s : Recursive(s, Len(list), Seq(Blocks), <<>>, step)
  BY <1>1, <1>2, RecursionExists
<1>5. /\ 0 \in 0..Len(list) /\ Len(list) \in 0..Len(list)
      /\ \A k \in 1..Len(list) : k - 1 \in 0..Len(list) /\ k \in 0..Len(list) /\ k # 0
  BY <1>1
<1>6. /\ s \in [0..Len(list) -> Seq(Blocks)] /\ s[0] = <<>>
      /\ \A k \in 1..Len(list) : s[k-1] \in Seq(Blocks) /\ s[k] = Keep(s[k-1], k, pid)
  <2>1. /\ s \in [0..Len(list) -> Seq(Blocks)] /\ s[0] = <<>>
        /\ \A k \in 1..Len(list) : s[k] = step[k][s[k-1]]
    BY <1>4 DEF Recursive
  <2>2. \A k \in 1..Len(list) : s[k-1] \in Seq(Blocks)
    BY <1>5, <2>1
  <2> QED  BY <1>3, <2>1, <2>2
<1>7. s = [k \in 0..Len(list) |-> IF k = 0 THEN <<>> ELSE Keep(s[k-1], k, pid)]
  BY <1>5, <1>6
<1>8. g = [k \in 0..Len(list) |-> IF k = 0 THEN <<>> ELSE Keep(g[k-1], k, pid)]
  BY <1>7
<1>9. list' = g[Len(list)]
  BY DEF ReleaseMemory, Keep
<1> HIDE DEF g
<1>10. g[0] = s[0]
  BY <1>5, <1>6, <1>8
<1>11. \A k \in 1..Len(list) : g[k-1] = s[k-1] => g[k] = s[k]
  BY <1>5, <1>6, <1>8
<1>12. SameSteps(Len(list), g, s)
  BY <1>10, <1>11 DEF SameSteps
<1>13. \A k \in 0..Len(list) : g[k] = s[k]
  BY <1>1, <1>12, RecursionUnique
<1> QED  BY <1>5, <1>6, <1>9, <1>13

\* compaction goes through the processes one by one.
LEMMA EndsDef ==
  ASSUME list \in Seq(Blocks), Compaction
  PROVE  \E s \in [0..Len(list) -> Nat] :
           /\ s[0] = 0
           /\ \A k \in 1..Len(list) : s[k] = (s[k-1] + list[k].limit)
           /\ list' = [k \in 1..Len(list) |-> [list[k] EXCEPT !.base = s[k-1]]]
<1> DEFINE step == [k \in 1..Len(list) |-> [x \in Nat |-> (x + list[k].limit)]]
           g == CHOOSE g : g = [k \in 0..Len(list) |-> IF k = 0 THEN 0
                                                      ELSE (g[k-1] + list[k].limit)]
<1>1. /\ Len(list) \in Nat /\ 0 \in Nat
      /\ \A k \in 1..Len(list), x \in Nat : (x + list[k].limit) \in Nat
  BY ListType
<1>2. step \in Steps(Len(list), Nat)
  BY <1>1 DEF Steps
<1>3. \A k \in 1..Len(list), x \in Nat : step[k][x] = (x + list[k].limit)
  OBVIOUS
<1> HIDE DEF step
<1>4. PICK s : Recursive(s, Len(list), Nat, 0, step)
  BY <1>1, <1>2, RecursionExists
<1>5. /\ 0 \in 0..Len(list) /\ Len(list) \in 0..Len(list)
      /\ \A k \in 1..Len(list) : k - 1 \in 0..Len(list) /\ k \in 0..Len(list) /\ k # 0
  BY <1>1
<1>6. /\ s \in [0..Len(list) -> Nat] /\ s[0] = 0
      /\ \A k \in 1..Len(list) : s[k-1] \in Nat /\ s[k] = (s[k-1] + list[k].limit)
  <2>1. /\ s \in [0..Len(list) -> Nat] /\ s[0] = 0
        /\ \A k \in 1..Len(list) : s[k] = step[k][s[k-1]]
    BY <1>4 DEF Recursive
  <2>2. \A k \in 1..Len(list) : s[k-1] \in Nat
    BY <1>5, <2>1
  <2> QED  BY <1>3, <2>1, <2>2
<1>7. s = [k \in 0..Len(list) |-> IF k = 0 THEN 0 ELSE (s[k-1] + list[k].limit)]
  BY <1>5, <1>6
<1>8. g = [k \in 0..Len(list) |-> IF k = 0 THEN 0 ELSE (g[k-1] + list[k].limit)]
  BY <1>7
<1>9. list' = [k \in 1..Len(list) |-> [list[k] EXCEPT !.base = g[k-1]]]
  BY DEF Compaction
<1> HIDE DEF g
<1>10. g[0] = s[0]
  BY <1>5, <1>6, <1>8
<1>11. \A k \in 1..Len(list) : g[k-1] = s[k-1] => g[k] = s[k]
  BY <1>5, <1>6, <1>8
<1>12. SameSteps(Len(list), g, s)
  BY <1>10, <1>11 DEF SameSteps
<1>13. \A k \in 0..Len(list) : g[k] = s[k]
  BY <1>1, <1>12, RecursionUnique
<1>14. \A k \in 1..Len(list) : s[k-1] = g[k-1]
  BY <1>5, <1>13
<1>15. list' = [k \in 1..Len(list) |-> [list[k] EXCEPT !.base = s[k-1]]]
  BY <1>9, <1>14
<1> QED  BY <1>6, <1>15

\* Appending a block that starts where the last one ends, or later.
LEMMA AppendKeeps ==
  ASSUME NEW s \in Seq(Blocks), Chained(s), NEW b \in Blocks, EndIn(s, Len(s)) <= b.base
  PROVE  /\ Append(s, b) \in Seq(Blocks) /\ Chained(Append(s, b))
         /\ EndIn(Append(s, b), Len(Append(s, b))) = b.base + b.limit
<1> DEFINE t == Append(s, b)
<1>1. /\ t \in Seq(Blocks) /\ Len(t) = Len(s) + 1 /\ Len(s) \in Nat
      /\ t[Len(s)+1] = b /\ \A k \in 1..Len(s) : t[k] = s[k]
  OBVIOUS
<1> HIDE DEF t
<1>2. \A k \in 0..Len(s) : EndIn(t, k) = EndIn(s, k)
  BY <1>1 DEF EndIn
<1>3. ASSUME NEW k \in 1..Len(t)  PROVE EndIn(t, k - 1) <= t[k].base
  <2>1. CASE k = Len(s) + 1
    BY <1>1, <1>2, <2>1
  <2>2. CASE k \in 1..Len(s)
    BY <1>1, <1>2, <2>2 DEF Chained
  <2> QED  BY <1>1, <2>1, <2>2
<1>4. EndIn(t, Len(t)) = b.base + b.limit
  BY <1>1 DEF EndIn
<1> QED  BY <1>1, <1>3, <1>4 DEF Chained, t

\* A release keeps the processes apart.
LEMMA ReleaseKeeps ==
  ASSUME list \in Seq(Blocks), Apart(list), NEW pid, ReleaseMemory(pid)
  PROVE  list' \in Seq(Blocks) /\ Apart(list')
<1>1. PICK s \in [0..Len(list) -> Seq(Blocks)] :
        /\ s[0] = <<>>
        /\ \A k \in 1..Len(list) : s[k] = Keep(s[k-1], k, pid)
        /\ list' = s[Len(list)]
  BY KeptDef
<1> DEFINE Right(t, k) == Chained(t) /\ EndIn(t, Len(t)) <= EndIn(list, k)
           S == {k \in 0..Len(list) : Right(s[k], k)}
<1>2. 0 \in S
  <2>1. Len(list) \in Nat /\ EndIn(list, 0) = 0
    BY BlocksType
  <2>2. Chained(<<>>) /\ EndIn(<<>>, Len(<<>>)) = 0
    BY DEF Chained, EndIn
  <2> QED  BY <1>1, <2>1, <2>2
<1>3. ASSUME NEW k \in 1..Len(list), k - 1 \in S  PROVE k \in S
  <2>1. /\ k \in 0..Len(list) /\ k - 1 \in 0..Len(list) /\ s[k-1] \in Seq(Blocks)
        /\ Right(s[k-1], k - 1)
    <3>1. Len(list) \in Nat
      BY BlocksType
    <3>2. k \in 0..Len(list) /\ k - 1 \in 0..Len(list)
      BY <3>1
    <3>3. s[k-1] \in Seq(Blocks)
      BY <3>2
    <3> QED  BY <1>3, <3>2, <3>3
  <2>2. /\ list[k] \in Blocks /\ list[k].base \in Nat /\ list[k].limit \in Nat
        /\ EndIn(list, k) = list[k].base + list[k].limit /\ EndIn(list, k - 1) \in Nat
        /\ EndIn(list, k - 1) <= list[k].base
    BY <2>1, BlocksType DEF Apart, Chained
  <2>3. EndIn(s[k-1], Len(s[k-1])) \in Nat
    <3>1. Len(s[k-1]) \in 0..Len(s[k-1])
      BY <2>1
    <3> QED  BY <2>1, <3>1, BlocksType
  <2>4. Chained(s[k-1]) /\ EndIn(s[k-1], Len(s[k-1])) <= list[k].base
    BY <2>1, <2>2, <2>3
  <2>5. CASE list[k].pid = pid
    <3>1. s[k] = s[k-1]
      BY <1>1, <2>5 DEF Keep
    <3>2. EndIn(s[k-1], Len(s[k-1])) <= EndIn(list, k)
      BY <2>2, <2>3, <2>4
    <3> QED  BY <2>1, <2>4, <3>1, <3>2
  <2>6. CASE list[k].pid # pid
    <3>1. s[k] = Append(s[k-1], list[k])
      BY <1>1, <2>6 DEF Keep
    <3>2. Chained(s[k]) /\ EndIn(s[k], Len(s[k])) = EndIn(list, k)
      BY <2>1, <2>2, <2>4, <3>1, AppendKeeps
    <3> QED  BY <2>1, <2>2, <3>2
  <2> QED  BY <2>5, <2>6
<1> HIDE DEF S
<1>4. Len(list) \in Nat /\ 0..Len(list) \subseteq S
  BY <1>2, <1>3, BlocksType, BoundedInduction
<1>5. Len(list) \in 0..Len(list)
  BY <1>4
<1>6. list' \in Seq(Blocks) /\ Right(list', Len(list))
  BY <1>1, <1>4, <1>5 DEF S
<1>7. EndIn(list', Len(list')) \in Nat /\ EndIn(list, Len(list)) \in Nat /\ MAX \in Nat
  <2>1. Len(list') \in 0..Len(list')
    BY <1>6
  <2> QED  BY <1>5, <1>6, <2>1, BlocksType
<1> QED  BY <1>6, <1>7 DEF Apart

\* Compaction moves every process down to where the one before it ends; none
\* ends higher than before.
LEMMA CompactionMoves ==
  ASSUME list \in Seq(Blocks), Apart(list), Compaction
  PROVE  /\ list' \in Seq(Blocks) /\ Len(list') = Len(list)
         /\ \A k \in 1..Len(list) :
              /\ list'[k].pid = list[k].pid /\ list'[k].limit = list[k].limit
              /\ list'[k].base <= list[k].base /\ list'[k].base = EndIn(list', k - 1)
         /\ EndIn(list', Len(list')) <= EndIn(list, Len(list))
<1>1. PICK s \in [0..Len(list) -> Nat] :
        /\ s[0] = 0
        /\ \A k \in 1..Len(list) : s[k] = (s[k-1] + list[k].limit)
        /\ list' = [k \in 1..Len(list) |-> [list[k] EXCEPT !.base = s[k-1]]]
  BY EndsDef
<1>2. Len(list) \in Nat /\ MAX \in Nat
  BY BlocksType
<1> DEFINE S == {k \in 0..Len(list) : s[k] <= EndIn(list, k)}
<1>3. 0 \in S
  BY <1>1, <1>2, BlocksType
<1>4. \A k \in 1..Len(list) : k \in 0..Len(list) /\ k - 1 \in 0..Len(list) /\ k # 0
  BY <1>2
<1>5. \A k \in 1..Len(list) :
        /\ list[k] \in Blocks /\ list[k].base \in Nat /\ list[k].base <= MAX /\ list[k].limit \in Nat
        /\ EndIn(list, k) = list[k].base + list[k].limit /\ EndIn(list, k - 1) \in Nat
        /\ EndIn(list, k - 1) <= list[k].base /\ s[k-1] \in Nat
  BY <1>4, BlocksType DEF Apart, Chained
<1>6. ASSUME NEW k \in 1..Len(list), k - 1 \in S  PROVE k \in S
  <2>1. s[k-1] <= EndIn(list, k - 1)
    BY <1>6
  <2>2. s[k] <= EndIn(list, k)
    BY SMTT(30), <1>1, <1>5, <2>1
  <2> QED  BY <1>4, <2>2
<1> HIDE DEF S
<1>7. 0..Len(list) \subseteq S
  BY <1>2, <1>3, <1>6, BoundedInduction
<1>8. \A k \in 1..Len(list) : s[k-1] <= list[k].base /\ s[k-1] \in 0..MAX
  <2> TAKE k \in 1..Len(list)
  <2>1. s[k-1] <= EndIn(list, k - 1)
    BY <1>4, <1>7 DEF S
  <2> QED  BY <1>2, <1>5, <2>1
<1>9. \A k \in 1..Len(list) :
        /\ list'[k] \in Blocks /\ list'[k].base = s[k-1]
        /\ list'[k].pid = list[k].pid /\ list'[k].limit = list[k].limit
  <2> TAKE k \in 1..Len(list)
  <2>1. list'[k] = [list[k] EXCEPT !.base = s[k-1]]
    BY <1>1
  <2> QED  BY <1>5, <1>8, <2>1 DEF Blocks
<1>10. list' \in Seq(Blocks) /\ Len(list') = Len(list)
  <2>1. list' \in [1..Len(list) -> Blocks]
    BY <1>1, <1>9
  <2> QED  BY <1>2, <2>1
<1>11. \A k \in 0..Len(list) : EndIn(list', k) = s[k]
  <2> TAKE k \in 0..Len(list)
  <2>1. CASE k = 0
    BY <1>1, <2>1 DEF EndIn
  <2>2. CASE k \in 1..Len(list)
    <3>1. EndIn(list', k) = s[k-1] + list[k].limit
      BY <1>4, <1>9, <2>2 DEF EndIn
    <3> QED  BY <1>1, <2>2, <3>1
  <2> QED  BY <1>2, <2>1, <2>2
<1>12. Len(list) \in 0..Len(list)
  BY <1>2
<1>13. EndIn(list', Len(list')) <= EndIn(list, Len(list))
  BY <1>7, <1>10, <1>11, <1>12 DEF S
<1>14. \A k \in 1..Len(list) :
         list'[k].base <= list[k].base /\ list'[k].base = EndIn(list', k - 1)
  BY <1>4, <1>8, <1>9, <1>11
<1> QED  BY <1>9, <1>10, <1>13, <1>14

\* So compaction keeps the processes apart.
LEMMA CompactionKeeps ==
  ASSUME list \in Seq(Blocks), Apart(list), Compaction
  PROVE  list' \in Seq(Blocks) /\ Apart(list')
<1>1. /\ list' \in Seq(Blocks) /\ Len(list') = Len(list)
      /\ \A k \in 1..Len(list) : list'[k].base = EndIn(list', k - 1)
      /\ EndIn(list', Len(list')) <= EndIn(list, Len(list))
  BY CompactionMoves
<1>2. \A k \in 1..Len(list') : list'[k].base \in Nat
  BY <1>1, BlocksType
<1>3. Chained(list')
  <2> SUFFICES ASSUME NEW k \in 1..Len(list')  PROVE EndIn(list', k - 1) <= list'[k].base
    BY DEF Chained
  <2>1. list'[k].base = EndIn(list', k - 1)
    BY <1>1
  <2> QED  BY <1>2, <2>1
<1>4. EndIn(list, Len(list)) <= MAX
  BY DEF Apart
<1>5. EndIn(list', Len(list')) \in Nat /\ EndIn(list, Len(list)) \in Nat /\ MAX \in Nat
  <2>1. Len(list') \in 0..Len(list') /\ Len(list) \in 0..Len(list)
    BY <1>1
  <2> QED  BY <1>1, <2>1, BlocksType
<1> QED  BY <1>1, <1>3, <1>4, <1>5 DEF Apart

-----------------------------------------------------------------------------
(* show_status. *)

Reports == [start : Nat, unused : SUBSET (Nat \X Int), used : SUBSET (Nat \X Int \X Pids)]
ReportStart == [start |-> 0, unused |-> {}, used |-> {}]
ReportLook(before, k) ==
  LET limit == IF k > Len(list) THEN 0 ELSE list[k].limit
  IN [start  |-> IF limit # 0 THEN Base(k) + limit ELSE before.start,
      unused |-> IF Base(k) # before.start
                 THEN before.unused \cup {<<before.start, Base(k) - 1>>}
                 ELSE before.unused,
      used   |-> IF limit # 0
                 THEN before.used \cup {<<Base(k), Base(k) + limit - 1, list[k].pid>>}
                 ELSE before.used]

\* A look leaves a report.
LEMMA ReportLookType ==
  ASSUME list \in Seq(Blocks), NEW k \in 1..Looks, NEW x \in Reports
  PROVE  ReportLook(x, k) \in Reports
<1> DEFINE limit == IF k > Len(list) THEN 0 ELSE list[k].limit
<1>1. Len(list) \in Nat /\ k \in Nat /\ k # 0 /\ MAX \in Nat /\ MaxRequest \in Nat
  BY LooksType, ListType, AllocatorAssumption
<1>2. /\ Base(k) \in Nat /\ limit \in Nat
      /\ limit # 0 => list[k].pid \in Pids
  <2>1. CASE k > Len(list)
    BY <1>1, <2>1 DEF Base
  <2>2. CASE k \in 1..Len(list)
    <3>1. list[k].base \in Nat /\ list[k].limit \in Nat /\ list[k].pid \in Pids
      BY <1>1, <2>2, ListType DEF Blocks
    <3> QED  BY <1>1, <2>2, <3>1 DEF Base
  <2> QED  BY <1>1, <2>1, <2>2
<1>3. x.start \in Nat /\ x.unused \in SUBSET (Nat \X Int) /\ x.used \in SUBSET (Nat \X Int \X Pids)
  BY DEF Reports
<1>4. ReportLook(x, k) =
        [start  |-> IF limit # 0 THEN Base(k) + limit ELSE x.start,
         unused |-> IF Base(k) # x.start
                    THEN x.unused \cup {<<x.start, Base(k) - 1>>} ELSE x.unused,
         used   |-> IF limit # 0
                    THEN x.used \cup {<<Base(k), Base(k) + limit - 1, list[k].pid>>}
                    ELSE x.used]
  BY DEF ReportLook
<1> HIDE DEF limit
<1>5. (IF limit # 0 THEN Base(k) + limit ELSE x.start) \in Nat
  BY <1>2, <1>3
<1>6. (IF Base(k) # x.start THEN x.unused \cup {<<x.start, Base(k) - 1>>} ELSE x.unused)
        \in SUBSET (Nat \X Int)
  BY <1>2, <1>3
<1>7. (IF limit # 0 THEN x.used \cup {<<Base(k), Base(k) + limit - 1, list[k].pid>>} ELSE x.used)
        \in SUBSET (Nat \X Int \X Pids)
  <2>1. limit # 0 => <<Base(k), Base(k) + limit - 1, list[k].pid>> \in Nat \X Int \X Pids
    BY <1>2
  <2> QED  BY <1>3, <2>1
<1> QED  BY <1>4, <1>5, <1>6, <1>7 DEF Reports

\* show_status goes through the nodes after HEAD one by one.
LEMMA ReportDef ==
  ASSUME list \in Seq(Blocks)
  PROVE  \E s \in [0..Looks -> Reports] :
           /\ s[0] = ReportStart
           /\ \A k \in 1..Looks : s[k] = ReportLook(s[k-1], k)
           /\ Report = s[Looks]
<1> DEFINE step == [k \in 1..Looks |-> [x \in Reports |-> ReportLook(x, k)]]
           g == CHOOSE g : g = [k \in 0..Looks |-> IF k = 0 THEN ReportStart
                                                      ELSE ReportLook(g[k-1], k)]
<1>1. /\ Looks \in Nat /\ ReportStart \in Reports
      /\ \A k \in 1..Looks, x \in Reports : ReportLook(x, k) \in Reports
  BY LooksType, ReportLookType DEF Reports, ReportStart
<1>2. step \in Steps(Looks, Reports)
  BY <1>1 DEF Steps
<1>3. \A k \in 1..Looks, x \in Reports : step[k][x] = ReportLook(x, k)
  OBVIOUS
<1> HIDE DEF step
<1>4. PICK s : Recursive(s, Looks, Reports, ReportStart, step)
  BY <1>1, <1>2, RecursionExists
<1>5. /\ 0 \in 0..Looks /\ Looks \in 0..Looks
      /\ \A k \in 1..Looks : k - 1 \in 0..Looks /\ k \in 0..Looks /\ k # 0
  BY <1>1
<1>6. /\ s \in [0..Looks -> Reports] /\ s[0] = ReportStart
      /\ \A k \in 1..Looks : s[k-1] \in Reports /\ s[k] = ReportLook(s[k-1], k)
  <2>1. /\ s \in [0..Looks -> Reports] /\ s[0] = ReportStart
        /\ \A k \in 1..Looks : s[k] = step[k][s[k-1]]
    BY <1>4 DEF Recursive
  <2>2. \A k \in 1..Looks : s[k-1] \in Reports
    BY <1>5, <2>1
  <2> QED  BY <1>3, <2>1, <2>2
<1>7. s = [k \in 0..Looks |-> IF k = 0 THEN ReportStart ELSE ReportLook(s[k-1], k)]
  BY <1>5, <1>6
<1>8. g = [k \in 0..Looks |-> IF k = 0 THEN ReportStart ELSE ReportLook(g[k-1], k)]
  BY <1>7
<1>9. Report = g[Looks]
  BY DEF Report, Looks, ReportLook, ReportStart
<1> HIDE DEF g
<1>10. g[0] = s[0]
  BY <1>5, <1>6, <1>8
<1>11. \A k \in 1..Looks : g[k-1] = s[k-1] => g[k] = s[k]
  BY <1>5, <1>6, <1>8
<1>12. SameSteps(Looks, g, s)
  BY <1>10, <1>11 DEF SameSteps
<1>13. \A k \in 0..Looks : g[k] = s[k]
  BY <1>1, <1>12, RecursionUnique
<1> QED  BY <1>5, <1>6, <1>9, <1>13

\* The intervals of T that an address lies in.
Around(T, address) == {i \in T : i[1] <= address /\ address <= i[2]}

\* T and U are finite and together account for the addresses below n once, for
\* no other.
Told(T, U, n) ==
  /\ IsFiniteSet(T) /\ IsFiniteSet(U)
  /\ \A i \in T \cup U : i[2] \in Int /\ i[2] < n
  /\ \A a \in Nat : Cardinality(Around(T, a)) + Cardinality(Around(U, a)) = IF a < n THEN 1 ELSE 0

\* One interval more.
LEMMA AroundMore ==
  ASSUME NEW T, IsFiniteSet(T), NEW e, e \notin T, NEW a
  PROVE  /\ Cardinality(Around(T, a)) \in Nat
         /\ Cardinality(Around(T \cup {e}, a)) =
              Cardinality(Around(T, a)) + IF e[1] <= a /\ a <= e[2] THEN 1 ELSE 0
<1> DEFINE A == Around(T, a)
<1>1. IsFiniteSet(A)
  BY FS_Subset DEF Around
<1>2. Cardinality(A) \in Nat
  BY <1>1, FS_CardinalityType
<1>3. e \notin A
  BY DEF Around
<1>4. Around(T \cup {e}, a) = IF e[1] <= a /\ a <= e[2] THEN A \cup {e} ELSE A
  BY DEF Around
<1> HIDE DEF A
<1>5. Cardinality(A \cup {e}) = Cardinality(A) + 1
  BY <1>1, <1>3, FS_AddElement
<1> QED  BY <1>2, <1>4, <1>5 DEF A

\* The next interval, up to before m.
LEMMA ToldMore ==
  ASSUME NEW T, NEW U, NEW n \in Nat, Told(T, U, n), NEW m \in Nat, n < m,
         NEW e, e[1] = n, e[2] = m - 1
  PROVE  Told(T \cup {e}, U, m)
<1>1. e \notin T
  BY DEF Told
<1>2. IsFiniteSet(T) /\ IsFiniteSet(U) /\ IsFiniteSet(T \cup {e})
  BY FS_AddElement DEF Told
<1>3. \A i \in (T \cup {e}) \cup U : i[2] \in Int /\ i[2] < m
  BY DEF Told
<1>4. ASSUME NEW a \in Nat
      PROVE  Cardinality(Around(T \cup {e}, a)) + Cardinality(Around(U, a)) = IF a < m THEN 1 ELSE 0
  <2> DEFINE c == Cardinality(Around(T, a))
             d == Cardinality(Around(U, a))
  <2>1. /\ c \in Nat
        /\ Cardinality(Around(T \cup {e}, a)) = c + IF e[1] <= a /\ a <= e[2] THEN 1 ELSE 0
    BY <1>1, <1>2, AroundMore
  <2>2. d \in Nat
    BY <1>2, FS_Subset, FS_CardinalityType DEF Around
  <2>3. c + d = IF a < n THEN 1 ELSE 0
    BY DEF Told
  <2>4. (e[1] <= a /\ a <= e[2]) <=> (n <= a /\ a < m)
    OBVIOUS
  <2> HIDE DEF c, d
  <2>5. Cardinality(Around(T \cup {e}, a)) = c + IF n <= a /\ a < m THEN 1 ELSE 0
    BY <2>1, <2>4
  <2>6. c + (IF n <= a /\ a < m THEN 1 ELSE 0) + d = IF a < m THEN 1 ELSE 0
    BY <2>1, <2>2, <2>3
  <2>7. Cardinality(Around(T \cup {e}, a)) + d = IF a < m THEN 1 ELSE 0
    BY <2>5, <2>6
  <2> QED  BY <2>7 DEF d
<1> QED  BY <1>2, <1>3, <1>4 DEF Told

\* The two sets are alike in this.
LEMMA ToldSwap ==
  ASSUME NEW T, NEW U, NEW n, Told(T, U, n)
  PROVE  Told(U, T, n)
<1>1. \A a \in Nat : Cardinality(Around(T, a)) \in Nat /\ Cardinality(Around(U, a)) \in Nat
  BY FS_Subset, FS_CardinalityType DEF Told, Around
<1>2. \A a \in Nat : Cardinality(Around(U, a)) + Cardinality(Around(T, a)) = IF a < n THEN 1 ELSE 0
  BY <1>1 DEF Told
<1> QED  BY <1>2 DEF Told

\* show_status accounts for every address once, if every process has a size.
LEMMA StatusHolds ==
  ASSUME list \in Seq(Blocks), Apart(list), \A k \in 1..Len(list) : list[k].limit > 0
  PROVE  \A a \in 0..(MAX - 1) :
           Cardinality(Around(Report.used, a)) + Cardinality(Around(Report.unused, a)) = 1
<1>1. PICK s \in [0..Looks -> Reports] :
        /\ s[0] = ReportStart
        /\ \A k \in 1..Looks : s[k] = ReportLook(s[k-1], k)
        /\ Report = s[Looks]
  BY ReportDef
<1> DEFINE n == Len(list)
           Right(x, k) == x.start = EndIn(list, k) /\ Told(x.used, x.unused, EndIn(list, k))
           S == {k \in 0..n : Right(s[k], k)}
<1>2. n \in Nat /\ MAX \in Nat /\ Looks = n + 1 /\ Looks \in Nat
  BY BlocksType, LooksType
<1>3. \A k \in 0..n : EndIn(list, k) \in Nat /\ k \in 0..Looks
  BY <1>2, BlocksType
<1>4. 0 \in S
  <2>1. EndIn(list, 0) = 0
    BY BlocksType
  <2>2. IsFiniteSet({}) /\ Cardinality({}) = 0
    BY FS_EmptySet
  <2>3. \A a \in Nat : Around({}, a) = {}
    BY DEF Around
  <2>4. Told({}, {}, 0)
    <3>1. ASSUME NEW a \in Nat  PROVE Cardinality(Around({}, a)) = 0 /\ ~(a < 0)
      <4>1. Around({}, a) = {}
        BY <2>3
      <4>2. Cardinality(Around({}, a)) = 0
        BY <2>2, <4>1
      <4> QED  BY <4>2
    <3> QED  BY <2>2, <3>1 DEF Told
  <2>5. s[0].start = 0 /\ s[0].used = {} /\ s[0].unused = {}
    BY <1>1 DEF ReportStart
  <2>6. Right(s[0], 0)
    BY <2>1, <2>4, <2>5
  <2> QED  BY <1>2, <2>6
\* What a look at a node does, the hole in front of it and then the process.
<1>5. ASSUME NEW x \in Reports, NEW k \in 1..Looks, Right(x, k - 1)
      PROVE  /\ Told(x.used, ReportLook(x, k).unused, Base(k))
             /\ k = Looks => ReportLook(x, k).used = x.used
  <2>1. k - 1 \in 0..n /\ k # 0
    BY <1>2
  <2>2. Base(k) \in Nat /\ EndIn(list, k - 1) <= Base(k)
    <3>1. CASE k = Looks
      BY <1>2, <3>1 DEF Base, Apart
    <3>2. CASE k \in 1..n
      BY <1>2, <2>1, <3>2, BlocksType DEF Base, Apart, Chained
    <3> QED  BY <1>2, <3>1, <3>2
  <2>3. /\ EndIn(list, k - 1) \in Nat /\ x.start = EndIn(list, k - 1)
        /\ Told(x.used, x.unused, EndIn(list, k - 1))
    BY <1>3, <1>5, <2>1
  <2>4. ReportLook(x, k).unused = IF Base(k) # x.start
                                  THEN x.unused \cup {<<x.start, Base(k) - 1>>} ELSE x.unused
    BY DEF ReportLook
  <2>5. Told(x.used, ReportLook(x, k).unused, Base(k))
    <3>1. CASE Base(k) = x.start
      BY <2>3, <2>4, <3>1
    <3>2. CASE Base(k) # x.start
      <4> DEFINE e == <<x.start, Base(k) - 1>>
      <4>1. e[1] = EndIn(list, k - 1) /\ e[2] = Base(k) - 1
        BY <2>3
      <4>2. EndIn(list, k - 1) < Base(k)
        BY <2>2, <2>3, <3>2
      <4>3. ReportLook(x, k).unused = x.unused \cup {e}
        BY <2>4, <3>2
      <4> HIDE DEF e
      <4>4. Told(x.unused, x.used, EndIn(list, k - 1))
        BY <2>3, ToldSwap
      <4>5. Told(x.unused \cup {e}, x.used, Base(k))
        BY <2>2, <2>3, <4>1, <4>2, <4>4, ToldMore
      <4> QED  BY <4>3, <4>5, ToldSwap
    <3> QED  BY <3>1, <3>2
  <2>6. k = Looks => ReportLook(x, k).used = x.used
    BY <1>2 DEF ReportLook
  <2> QED  BY <2>5, <2>6
<1>6. ASSUME NEW k \in 1..n, k - 1 \in S  PROVE k \in S
  <2> DEFINE x == s[k-1]
             y == ReportLook(x, k)
             e == <<Base(k), Base(k) + list[k].limit - 1, list[k].pid>>
  <2>1. k \in 1..Looks /\ k - 1 \in 0..Looks /\ k \in 0..n /\ ~(k > n) /\ k # 0
    BY <1>2
  <2>2. x \in Reports /\ Right(x, k - 1) /\ s[k] = y
    <3>1. x \in Reports
      BY <2>1
    <3> QED  BY <1>1, <1>6, <2>1, <3>1
  <2>3. /\ Base(k) = list[k].base /\ list[k].base \in Nat /\ list[k].limit \in Nat
        /\ list[k].limit > 0 /\ EndIn(list, k) = list[k].base + list[k].limit
    <3>1. list[k].limit > 0
      OBVIOUS
    <3> QED  BY <2>1, <3>1, BlocksType DEF Base
  <2>4. y.start = Base(k) + list[k].limit /\ y.used = x.used \cup {e}
    BY <2>1, <2>3 DEF ReportLook
  <2>5. Told(x.used, y.unused, Base(k))
    BY <1>5, <2>1, <2>2
  <2>6. e[1] = Base(k) /\ e[2] = EndIn(list, k) - 1
    BY <2>3
  <2>7. Base(k) \in Nat /\ EndIn(list, k) \in Nat /\ Base(k) < EndIn(list, k)
    BY <2>3
  <2> HIDE DEF e, x, y
  <2>8. Told(x.used \cup {e}, y.unused, EndIn(list, k))
    BY <2>5, <2>6, <2>7, ToldMore
  <2>9. Right(y, k)
    BY <2>3, <2>4, <2>8
  <2> QED  BY <2>1, <2>2, <2>9
<1> HIDE DEF S
<1>7. 0..n \subseteq S
  BY <1>2, <1>4, <1>6, BoundedInduction
<1>8. Told(Report.used, Report.unused, MAX)
  <2>1. n \in 0..n /\ Looks \in 1..Looks /\ Looks - 1 = n /\ n \in 0..Looks
    BY <1>2
  <2>2. Right(s[n], n) /\ s[n] \in Reports /\ Report = ReportLook(s[n], Looks)
    <3>1. Right(s[n], n)
      BY <1>7, <2>1 DEF S
    <3> QED  BY <1>1, <2>1, <3>1
  <2>3. Base(Looks) = MAX
    BY <1>2 DEF Base
  <2> HIDE DEF Right, n
  <2>4. Right(s[n], Looks - 1)
    BY <2>1, <2>2
  <2> USE DEF Right
  <2> QED  BY <1>5, <2>1, <2>2, <2>3, <2>4
<1>9. ASSUME NEW a \in 0..(MAX - 1)
      PROVE  Cardinality(Around(Report.used, a)) + Cardinality(Around(Report.unused, a)) = 1
  <2>1. a \in Nat /\ a < MAX
    BY <1>2
  <2> QED  BY <1>8, <2>1 DEF Told
<1> QED  BY <1>9

-----------------------------------------------------------------------------
(* The theorems. *)

IInv == ListTypeOK /\ NoOverlap

\* At the start there is no process.
LEMMA InitHolds == MemoryInit => IInv
<1> SUFFICES ASSUME MemoryInit  PROVE IInv
  OBVIOUS
<1>1. list = <<>> /\ <<>> \in Seq(Blocks) /\ Len(<<>>) = 0
  BY EmptySeq DEF MemoryInit
<1>2. Apart(list)
  <2>1. MAX \in Nat
    BY AllocatorAssumption
  <2> QED  BY <1>1, <2>1 DEF Apart, Chained, EndIn
<1> QED  BY <1>1, <1>2, NoOverlapIs DEF IInv, ListTypeOK

\* Every command keeps the processes apart.
LEMMA StepHolds == IInv /\ [MemoryNext]_list => IInv'
<1> SUFFICES ASSUME IInv, [MemoryNext]_list  PROVE IInv'
  OBVIOUS
<1>1. list \in Seq(Blocks) /\ Apart(list)
  BY NoOverlapIs DEF IInv, ListTypeOK
<1>2. list' \in Seq(Blocks) /\ Apart(list')
  <2>1. CASE UNCHANGED list
    BY <1>1, <2>1
  <2>2. ASSUME NEW pid \in Pids, NEW memory \in 0..MaxRequest, NEW mode \in Modes,
               Allocate(pid, memory, mode)
        PROVE  list' \in Seq(Blocks) /\ Apart(list')
    BY <1>1, <2>2, AllocateKeeps
  <2>3. ASSUME NEW memory, NEW mode, Reject(memory, mode)
        PROVE  list' \in Seq(Blocks) /\ Apart(list')
    BY <1>1, <2>3 DEF Reject
  <2>4. ASSUME NEW pid \in Pids, ReleaseMemory(pid)
        PROVE  list' \in Seq(Blocks) /\ Apart(list')
    BY <1>1, <2>4, ReleaseKeeps
  <2>5. CASE Compaction
    BY <1>1, <2>5, CompactionKeeps
  <2> QED  BY <2>1, <2>2, <2>3, <2>4, <2>5 DEF MemoryNext
<1> QED  BY <1>2, NoOverlapNext DEF IInv, ListTypeOK

\* The list stays a list of processes that do not overlap.
THEOREM Invariance == MemorySpec => []IInv
<1> QED  BY InitHolds, StepHolds, PTL DEF MemorySpec

\* No two processes overlap and none leaves the memory, whatever is requested,
\* released and compacted.
THEOREM ProcessesStayApart == MemorySpec => []NoOverlap
<1>1. IInv => NoOverlap
  BY DEF IInv
<1> QED  BY <1>1, Invariance, PTL

\* The three searches find what their names say, and a request is rejected only
\* if no hole is large enough, in every state.
THEOREM SearchesAreRight == MemorySpec => []FitsAreRight
<1>1. IInv => FitsAreRight
  BY FitsHold DEF IInv, ListTypeOK
<1> QED  BY <1>1, Invariance, PTL

\* Compaction keeps the processes and their order, moves none up and leaves one
\* hole, at the end.
THEOREM CompactionIsRight == MemorySpec => CompactionGathers
<1> DEFINE Gathers == Compaction =>
        /\ Len(list') = Len(list)
        /\ \A k \in 1..Len(list) :
             /\ list'[k].pid = list[k].pid /\ list'[k].limit = list[k].limit
             /\ list'[k].base <= list[k].base
        /\ \A k \in 1..Len(list) : list'[k].base = End(k - 1)'
<1>1. IInv /\ [MemoryNext]_list => [Gathers]_list
  <2> SUFFICES ASSUME IInv, Compaction  PROVE Gathers
    OBVIOUS
  <2>1. list \in Seq(Blocks) /\ Apart(list)
    BY NoOverlapIs DEF IInv, ListTypeOK
  <2>2. /\ Len(list') = Len(list)
        /\ \A k \in 1..Len(list) :
              /\ list'[k].pid = list[k].pid /\ list'[k].limit = list[k].limit
              /\ list'[k].base <= list[k].base /\ list'[k].base = EndIn(list', k - 1)
    BY <2>1, CompactionMoves
  <2>3. \A k \in 1..Len(list) : End(k - 1)' = EndIn(list', k - 1)
    BY DEF End, EndIn
  <2> QED  BY <2>2, <2>3
<1>2. CompactionGathers <=> [][Gathers]_list
  BY DEF CompactionGathers
<1> HIDE DEF Gathers
<1> QED  BY <1>1, <1>2, Invariance, PTL DEF MemorySpec

\* show_status accounts for every address exactly once, as long as every process
\* has a size.
THEOREM StatusIsComplete == MemorySpec => []StatusCoversMemory
<1>1. IInv => StatusCoversMemory
  <2> SUFFICES ASSUME IInv, \A k \in 1..Len(list) : list[k].limit > 0, NEW a \in 0..(MAX - 1)
               PROVE  Cardinality({i \in Report.used : i[1] <= a /\ a <= i[2]})
                        + Cardinality({i \in Report.unused : i[1] <= a /\ a <= i[2]}) = 1
    BY DEF StatusCoversMemory
  <2>1. list \in Seq(Blocks) /\ Apart(list)
    BY NoOverlapIs DEF IInv, ListTypeOK
  <2>2. Cardinality(Around(Report.used, a)) + Cardinality(Around(Report.unused, a)) = 1
    BY <2>1, StatusHolds
  <2> QED  BY <2>2 DEF Around
<1> QED  BY <1>1, Invariance, PTL
=============================================================================
