----------------------------- MODULE ProofLemmas ------------------------------
(***************************************************************************)
(* Facts the proofs of several modules need.                               *)
(*                                                                         *)
(* Induction is stated for sets, not for predicates: the set of the        *)
(* numbers with the property to be proved.  It follows from the fact that  *)
(* a set of natural numbers that is not empty has a least element.         *)
(***************************************************************************)
EXTENDS Integers, FiniteSets, Sequences, FiniteSetTheorems, FunctionTheorems,
        SequenceTheorems, WellFoundedInduction, TLAPS

\* A set of natural numbers that is not empty has a least element.
LEMMA LeastNumber ==
  ASSUME NEW T, T \subseteq Nat, T # {}
  PROVE  \E x \in T : \A y \in T : x <= y
<1> DEFINE R == OpToRel(<, Nat)
<1>1. IsWellFoundedOn(R, Nat)
  BY NatLessThanWellFounded
<1>2. \A x, y \in Nat : <<y, x>> \in R <=> y < x
  BY DEF OpToRel
<1> HIDE DEF R
<1>3. PICK x \in T : \A y \in T : ~(<<y, x>> \in R)
  BY <1>1, WFMin
<1>4. ASSUME NEW y \in T  PROVE x <= y
  <2>1. x \in Nat /\ y \in Nat /\ ~(y < x)
    BY <1>2, <1>3
  <2> QED  BY <2>1
<1> QED  BY <1>4

\* A set that holds 0 and with every number the next holds all of them.
LEMMA Induction ==
  ASSUME NEW S, 0 \in S, \A n \in Nat : n \in S => n + 1 \in S
  PROVE  Nat \subseteq S
<1> SUFFICES ASSUME Nat \ S # {}  PROVE FALSE
  OBVIOUS
<1>1. PICK m \in Nat \ S : \A y \in Nat \ S : m <= y
  BY LeastNumber
<1>2. m - 1 \in Nat /\ m - 1 \in S
  BY <1>1
<1> QED  BY <1>1, <1>2

\* The same, up to a bound.
LEMMA BoundedInduction ==
  ASSUME NEW N \in Nat, NEW S, 0 \in S, \A n \in 1..N : n - 1 \in S => n \in S
  PROVE  0..N \subseteq S
<1> DEFINE T == {n \in Nat : n <= N => n \in S}
<1>1. 0 \in T
  OBVIOUS
<1>2. ASSUME NEW n \in Nat, n \in T  PROVE n + 1 \in T
  BY <1>2, n + 1 <= N => n + 1 \in 1..N
<1> HIDE DEF T
<1>3. Nat \subseteq T
  BY <1>1, <1>2, Induction
<1> QED  BY <1>3 DEF T

-----------------------------------------------------------------------------
(* Recursive functions on 0..N. *)

\* f starts with base and goes on with step.  These two definitions are not
\* expanded where the lemma is cited: the provers can then instantiate it.
Steps(N, S) == [1..N -> [S -> S]]
Recursive(f, N, S, base, step) ==
  /\ f \in [0..N -> S] /\ f[0] = base
  /\ \A n \in 1..N : f[n] = step[n][f[n-1]]

\* There is such a function.
LEMMA RecursionExists ==
  ASSUME NEW N \in Nat, NEW S, NEW base \in S, NEW step \in Steps(N, S)
  PROVE  \E f : Recursive(f, N, S, base, step)
<1> DEFINE Upto(k) == \E f \in [0..k -> S] :
                        f[0] = base /\ \A n \in 1..k : f[n] = step[n][f[n-1]]
           T == {k \in 0..N : Upto(k)}
<1>1. 0 \in T
  <2> DEFINE f == [n \in 0..0 |-> base]
  <2>1. f \in [0..0 -> S] /\ f[0] = base /\ \A n \in 1..0 : f[n] = step[n][f[n-1]]
    OBVIOUS
  <2> HIDE DEF f
  <2>2. Upto(0)
    BY <2>1
  <2> QED  BY <2>2
<1>2. ASSUME NEW m \in 1..N, m - 1 \in T  PROVE m \in T
  <2>1. PICK f \in [0..(m-1) -> S] :
          f[0] = base /\ \A n \in 1..(m-1) : f[n] = step[n][f[n-1]]
    BY <1>2
  <2> DEFINE g == [n \in 0..m |-> IF n = m THEN step[m][f[m-1]] ELSE f[n]]
  <2>2. f[m-1] \in S /\ step[m][f[m-1]] \in S
    BY DEF Steps
  <2>3. g \in [0..m -> S]
    BY <2>2
  <2>4. g[m] = step[m][f[m-1]] /\ \A n \in 0..(m-1) : g[n] = f[n]
    OBVIOUS
  <2> HIDE DEF g
  <2>5. \A n \in 1..m : g[n] = step[n][g[n-1]]
    <3> TAKE n \in 1..m
    <3>1. n - 1 \in 0..(m-1) /\ (n # m => n \in 1..(m-1) /\ n \in 0..(m-1))
      OBVIOUS
    <3> QED  BY <3>1, <2>1, <2>4
  <2>6. Upto(m)
    BY <2>1, <2>3, <2>4, <2>5
  <2> QED  BY <2>6
<1> HIDE DEF T
<1>3. 0..N \subseteq T
  BY <1>1, <1>2, BoundedInduction
<1>4. N \in T
  BY <1>3
<1> QED  BY <1>4 DEF T, Recursive

\* f and g start alike and go on alike as long as they agree.
SameSteps(N, f, g) ==
  f[0] = g[0] /\ \A n \in 1..N : f[n-1] = g[n-1] => f[n] = g[n]

\* Such functions are equal.
LEMMA RecursionUnique ==
  ASSUME NEW N \in Nat, NEW f, NEW g, SameSteps(N, f, g)
  PROVE  \A n \in 0..N : f[n] = g[n]
<1> DEFINE T == {n \in 0..N : f[n] = g[n]}
<1>1. 0 \in T
  BY DEF SameSteps
<1>2. \A n \in 1..N : n - 1 \in T => n \in T
  BY DEF SameSteps
<1> HIDE DEF T
<1>3. 0..N \subseteq T
  BY <1>1, <1>2, BoundedInduction
<1> QED  BY <1>3 DEF T
-----------------------------------------------------------------------------
(* Remainders, near zero. *)

LEMMA ModInside == ASSUME NEW n \in Nat, NEW a \in 0..(n-1)  PROVE a % n = a
  OBVIOUS

LEMMA ModAbove ==
  ASSUME NEW n \in Nat, NEW a \in 0..(n-1)  PROVE (a + n) % n = a
  OBVIOUS

LEMMA ModBelow ==
  ASSUME NEW n \in Nat, NEW a \in 0..(n-1)  PROVE (a - n) % n = a
  OBVIOUS

-----------------------------------------------------------------------------
(* Rings: the places 0..(n-1), in a circle. *)

After(n, k)   == (k + 1) % n
Dist(n, h, r) == (r - h) % n    \* the places from h to before r

\* The next place, without the modulus.
LEMMA AfterIs ==
  ASSUME NEW n \in Nat \ {0}, NEW k \in 0..(n-1)
  PROVE  After(n, k) = (IF k = n - 1 THEN 0 ELSE k + 1) /\ After(n, k) \in 0..(n-1)
<1>1. CASE k = n - 1
  <2>1. k + 1 = 0 + n /\ 0 \in 0..(n-1)
    BY <1>1
  <2>2. (k + 1) % n = 0
    BY <2>1, ModAbove
  <2> QED  BY <1>1, <2>1, <2>2 DEF After
<1>2. CASE k # n - 1
  <2>1. k + 1 \in 0..(n-1)
    BY <1>2
  <2>2. (k + 1) % n = k + 1
    BY <2>1, ModInside
  <2> QED  BY <1>2, <2>1, <2>2 DEF After
<1> QED  BY <1>1, <1>2

\* The distance, without the modulus.
LEMMA DistIs ==
  ASSUME NEW n \in Nat \ {0}, NEW h \in 0..(n-1), NEW r \in 0..(n-1)
  PROVE  Dist(n, h, r) = (IF h <= r THEN r - h ELSE r - h + n)
<1>1. CASE h <= r
  <2>1. r - h \in 0..(n-1)
    BY <1>1
  <2>2. (r - h) % n = r - h
    BY <2>1, ModInside
  <2> QED  BY <1>1, <2>2 DEF Dist
<1>2. CASE ~(h <= r)
  <2>1. r - h + n \in 0..(n-1) /\ (r - h + n) - n = r - h
    BY <1>2
  <2>2. ((r - h + n) - n) % n = r - h + n
    BY <2>1, ModBelow
  <2> QED  BY <1>2, <2>1, <2>2 DEF Dist
<1> QED  BY <1>1, <1>2

\* It is 0 at the same place and n - 1 at the place before; a move of one place
\* changes it by one.
LEMMA DistMoves ==
  ASSUME NEW n \in Nat \ {0}, NEW h \in 0..(n-1), NEW r \in 0..(n-1)
  PROVE  /\ Dist(n, h, r) \in 0..(n-1)
         /\ After(n, r) = h <=> Dist(n, h, r) = n - 1
         /\ h = r <=> Dist(n, h, r) = 0
         /\ After(n, r) # h => Dist(n, h, After(n, r)) = Dist(n, h, r) + 1
         /\ h # r => Dist(n, After(n, h), r) = Dist(n, h, r) - 1
<1>1. /\ After(n, r) = (IF r = n - 1 THEN 0 ELSE r + 1) /\ After(n, r) \in 0..(n-1)
      /\ After(n, h) = (IF h = n - 1 THEN 0 ELSE h + 1) /\ After(n, h) \in 0..(n-1)
  BY AfterIs
<1>2. Dist(n, h, r) = (IF h <= r THEN r - h ELSE r - h + n)
  BY DistIs
<1>3. Dist(n, h, After(n, r))
        = (IF h <= After(n, r) THEN After(n, r) - h ELSE After(n, r) - h + n)
  BY <1>1, DistIs
<1>4. Dist(n, After(n, h), r)
        = (IF After(n, h) <= r THEN r - After(n, h) ELSE r - After(n, h) + n)
  BY <1>1, DistIs
<1> QED  BY <1>1, <1>2, <1>3, <1>4

\* The place d places after h is at distance d from it, and the only one.
LEMMA DistInverse ==
  ASSUME NEW n \in Nat \ {0}, NEW h \in 0..(n-1), NEW d \in 0..(n-1)
  PROVE  /\ (h + d) % n \in 0..(n-1)
         /\ \A r \in 0..(n-1) : (h + d) % n = r <=> Dist(n, h, r) = d
<1>1. (h + d) % n = IF h + d < n THEN h + d ELSE h + d - n
  <2>1. CASE h + d < n
    <3>1. h + d \in 0..(n-1)
      BY <2>1
    <3>2. (h + d) % n = h + d
      BY <3>1, ModInside
    <3> QED  BY <2>1, <3>2
  <2>2. CASE ~(h + d < n)
    <3>1. h + d - n \in 0..(n-1) /\ (h + d - n) + n = h + d
      BY <2>2
    <3>2. ((h + d - n) + n) % n = h + d - n
      BY <3>1, ModAbove
    <3> QED  BY <2>2, <3>1, <3>2
  <2> QED  BY <2>1, <2>2
<1>2. \A r \in 0..(n-1) : Dist(n, h, r) = (IF h <= r THEN r - h ELSE r - h + n)
  BY DistIs
<1> QED  BY <1>1, <1>2

\* What the slots from h to before r hold, in order.
Contents(n, b, h, r) == [k \in 1..Dist(n, h, r) |-> b[(h + k - 1) % n]]

\* The k-th of them.
LEMMA NthSlot ==
  ASSUME NEW n \in Nat \ {0}, NEW h \in 0..(n-1), NEW k \in 1..n
  PROVE  (h + k - 1) % n = (IF h + k - 1 < n THEN h + k - 1 ELSE h + k - 1 - n)
<1>1. n \in Nat /\ n >= 1 /\ h \in 0..(n-1) /\ k \in Int
  OBVIOUS
<1>2. CASE h + k - 1 < n
  <2>1. h + k - 1 \in 0..(n-1)
    BY <1>1, <1>2
  <2> QED  BY <1>1, <1>2, <2>1, ModInside
<1>3. CASE ~(h + k - 1 < n)
  <2>1. h + k - 1 - n \in 0..(n-1) /\ (h + k - 1 - n) + n = h + k - 1
    BY <1>1, <1>3
  <2>2. ((h + k - 1 - n) + n) % n = h + k - 1 - n
    BY <1>1, <2>1, ModAbove
  <2> QED  BY <1>3, <2>1, <2>2
<1> QED  BY <1>2, <1>3

\* Between equal indices there is nothing.
LEMMA ContentsEmpty == ASSUME NEW n \in Nat \ {0}, NEW b, NEW h \in 0..(n-1)  PROVE Contents(n, b, h, h) = <<>>
<1>1. Dist(n, h, h) = 0
  BY DistMoves
<1> QED  BY <1>1 DEF Contents

\* The slot at r is none of them.
LEMMA ContentsSame ==
  ASSUME NEW n \in Nat \ {0}, NEW b, NEW c, NEW h \in 0..(n-1), NEW r \in 0..(n-1),
         \A k \in (0..(n-1)) \ {r} : c[k] = b[k]
  PROVE  Contents(n, c, h, r) = Contents(n, b, h, r)
<1>1. n \in Nat /\ n >= 1 /\ h \in 0..(n-1) /\ r \in 0..(n-1) /\ Dist(n, h, r) \in 0..(n-1)
  BY DistMoves
<1>2. ASSUME NEW k \in 1..Dist(n, h, r)  PROVE (h + k - 1) % n \in (0..(n-1)) \ {r}
  <2>1. k \in 1..n
    BY <1>1
  <2>2. (h + k - 1) % n = (IF h + k - 1 < n THEN h + k - 1 ELSE h + k - 1 - n)
    BY <2>1, NthSlot
  <2>3. Dist(n, h, r) = (IF h <= r THEN r - h ELSE r - h + n)
    BY DistIs
  <2> QED  BY <1>1, <2>1, <2>2, <2>3
<1> QED  BY <1>2 DEF Contents

\* Moving r on appends what the slot at r holds.
LEMMA ContentsAppend ==
  ASSUME NEW n \in Nat \ {0}, NEW V, NEW b \in [0..(n-1) -> V], NEW h \in 0..(n-1), NEW r \in 0..(n-1), After(n, r) # h
  PROVE  /\ Contents(n, b, h, After(n, r)) = Append(Contents(n, b, h, r), b[r])
         /\ Len(Contents(n, b, h, r)) < n - 1
<1> DEFINE d == Dist(n, h, r)
           s == Contents(n, b, h, r)
<1>1. n \in Nat /\ n >= 1 /\ h \in 0..(n-1) /\ r \in 0..(n-1) /\ d \in 0..(n-2)
  <2>1. Dist(n, h, r) \in 0..(n-1) /\ Dist(n, h, r) # n - 1
    BY DistMoves
  <2> QED  BY <2>1
<1>2. Dist(n, h, After(n, r)) = d + 1
  BY DistMoves
<1>3. \A k \in 1..n : (h + k - 1) % n \in 0..(n-1)
  BY <1>1, NthSlot
<1>4. s \in Seq(V) /\ Len(s) = d
  <2>1. s = [k \in 1..d |-> b[(h + k - 1) % n]]
    BY DEF Contents
  <2> HIDE DEF s, d
  <2>2. \A k \in 1..d : k \in 1..n
    BY <1>1
  <2>3. \A k \in 1..d : b[(h + k - 1) % n] \in V
    BY <1>3, <2>2
  <2>4. s \in [1..d -> V]
    BY <2>1, <2>3
  <2>5. d \in Nat
    BY <1>1
  <2> QED  BY <2>4, <2>5
<1>5. (h + (d + 1) - 1) % n = r
  <2>1. d + 1 \in 1..n
    BY <1>1
  <2>2. (h + (d + 1) - 1) % n = (IF h + (d + 1) - 1 < n THEN h + (d + 1) - 1 ELSE h + (d + 1) - 1 - n)
    BY <2>1, NthSlot
  <2>3. d = (IF h <= r THEN r - h ELSE r - h + n)
    BY DistIs
  <2> HIDE DEF d
  <2> QED  BY <1>1, <2>2, <2>3
<1>6. Contents(n, b, h, After(n, r)) = [k \in 1..(d+1) |-> b[(h + k - 1) % n]]
  BY <1>2 DEF Contents
<1>7. \A k \in 1..d : s[k] = b[(h + k - 1) % n]
  BY DEF Contents
<1> HIDE DEF d, s
<1>8. d \in Nat
  BY <1>1
<1>9. Append(s, b[r]) = [k \in 1..(d+1) |-> IF k <= d THEN s[k] ELSE b[r]]
  <2>1. b[r] \in V
    OBVIOUS
  <2> QED  BY <1>4, <1>8, <2>1
<1>10. \A k \in 1..(d+1) : b[(h + k - 1) % n] = IF k <= d THEN s[k] ELSE b[r]
  <2> TAKE k \in 1..(d+1)
  <2>1. CASE k <= d
    BY <1>7, <1>8, <2>1
  <2>2. CASE ~(k <= d)
    <3>1. k = d + 1
      BY <1>8, <2>2
    <3> QED  BY <1>5, <2>2, <3>1
  <2> QED  BY <2>1, <2>2
<1>11. Contents(n, b, h, After(n, r)) = Append(s, b[r])
  BY <1>6, <1>9, <1>10
<1> QED  BY <1>1, <1>4, <1>11 DEF s

\* Moving h on takes away the first, which is what the slot at h holds.
LEMMA ContentsTail ==
  ASSUME NEW n \in Nat \ {0}, NEW V, NEW b \in [0..(n-1) -> V], NEW h \in 0..(n-1), NEW r \in 0..(n-1), h # r
  PROVE  /\ Contents(n, b, h, r) # <<>>
         /\ Head(Contents(n, b, h, r)) = b[h]
         /\ Contents(n, b, After(n, h), r) = Tail(Contents(n, b, h, r))
<1> DEFINE d == Dist(n, h, r)
           s == Contents(n, b, h, r)
           h2 == After(n, h)
<1>1. n \in Nat /\ n >= 1 /\ h \in 0..(n-1) /\ r \in 0..(n-1) /\ d \in 1..(n-1)
  <2>1. Dist(n, h, r) \in 0..(n-1) /\ Dist(n, h, r) # 0
    BY DistMoves
  <2> QED  BY <2>1
<1>2. Dist(n, h2, r) = d - 1
  BY DistMoves
<1>3. \A k \in 1..n : (h + k - 1) % n \in 0..(n-1)
  BY <1>1, NthSlot
<1>4. s \in Seq(V) /\ Len(s) = d
  <2>1. s = [k \in 1..d |-> b[(h + k - 1) % n]]
    BY DEF Contents
  <2> HIDE DEF s, d
  <2>2. \A k \in 1..d : k \in 1..n
    BY <1>1
  <2>3. \A k \in 1..d : b[(h + k - 1) % n] \in V
    BY <1>3, <2>2
  <2>4. s \in [1..d -> V]
    BY <2>1, <2>3
  <2>5. d \in Nat
    BY <1>1
  <2> QED  BY <2>4, <2>5
<1>5. \A k \in 1..d : s[k] = b[(h + k - 1) % n]
  BY DEF Contents
<1>6. Contents(n, b, h2, r) = [k \in 1..(d-1) |-> b[(h2 + k - 1) % n]]
  BY <1>2 DEF Contents
<1>7. \A k \in 1..(d-1) : (h2 + k - 1) % n = (h + (k + 1) - 1) % n
  <2> TAKE k \in 1..(d-1)
  <2>1. k \in 1..n /\ k + 1 \in 1..n
    BY <1>1
  <2>2. h2 = (IF h = n - 1 THEN 0 ELSE h + 1) /\ h2 \in 0..(n-1)
    BY AfterIs
  <2> HIDE DEF h2, d
  <2>3. (h2 + k - 1) % n = (IF h2 + k - 1 < n THEN h2 + k - 1 ELSE h2 + k - 1 - n)
    BY <2>1, <2>2, NthSlot
  <2>4. (h + (k + 1) - 1) % n
          = (IF h + (k + 1) - 1 < n THEN h + (k + 1) - 1 ELSE h + (k + 1) - 1 - n)
    BY <2>1, NthSlot
  <2> QED  BY <1>1, <2>1, <2>2, <2>3, <2>4
<1>8. (h + 1 - 1) % n = h
  <2>1. 1 \in 1..n
    BY <1>1
  <2>2. (h + 1 - 1) % n = (IF h + 1 - 1 < n THEN h + 1 - 1 ELSE h + 1 - 1 - n)
    BY <2>1, NthSlot
  <2> QED  BY <1>1, <2>2
<1> HIDE DEF d, s, h2
<1>9. d \in Nat /\ d >= 1 /\ 1 \in 1..d
  BY <1>1
<1>10. s # <<>> /\ Head(s) = s[1] /\ Tail(s) = [k \in 1..(d-1) |-> s[k+1]]
  <2>1. s # <<>> /\ Head(s) = s[1]
    BY <1>4, <1>9
  <2>2. /\ Tail(s) \in Seq(V) /\ Len(Tail(s)) = d - 1
        /\ \A k \in 1..Len(Tail(s)) : Tail(s)[k] = s[k+1]
    BY <1>4, <2>1, HeadTailProperties
  <2>3. Tail(s) = [k \in 1..(d-1) |-> Tail(s)[k]]
    BY <2>2, LenProperties
  <2> QED  BY <2>1, <2>2, <2>3
<1>11. Head(s) = b[h]
  BY <1>5, <1>8, <1>9, <1>10
<1>12. \A k \in 1..(d-1) : b[(h2 + k - 1) % n] = s[k+1]
  <2> TAKE k \in 1..(d-1)
  <2>1. k + 1 \in 1..d
    BY <1>9
  <2>2. s[k+1] = b[(h + (k + 1) - 1) % n]
    BY <1>5, <2>1
  <2> QED  BY <1>7, <2>2
<1>13. Contents(n, b, h2, r) = Tail(s)
  BY <1>6, <1>10, <1>12
<1> QED  BY <1>10, <1>11, <1>13 DEF s, h2

-----------------------------------------------------------------------------
(* How many members of a set have a value among given ones. *)

Number(T, f, P) == Cardinality({t \in T : f[t] \in P})

\* It is a number, and positive if there is such a member.
LEMMA NumberType ==
  ASSUME NEW T, IsFiniteSet(T), NEW f, NEW P
  PROVE  /\ Number(T, f, P) \in Nat
         /\ \A u \in T : f[u] \in P => Number(T, f, P) >= 1
<1> DEFINE A == {t \in T : f[t] \in P}
<1>1. IsFiniteSet(A)
  BY FS_Subset
<1>2. Cardinality(A) \in Nat /\ (A # {} => Cardinality(A) # 0)
  BY <1>1, FS_CardinalityType, FS_EmptySet
<1>3. \A u \in T : f[u] \in P => u \in A
  OBVIOUS
<1>4. Number(T, f, P) = Cardinality(A)
  BY DEF Number
<1> HIDE DEF A
<1> QED  BY <1>2, <1>3, <1>4

\* It is at most the number of all members.
LEMMA NumberBound ==
  ASSUME NEW T, IsFiniteSet(T), NEW f, NEW P
  PROVE  Number(T, f, P) <= Cardinality(T)
<1>1. {t \in T : f[t] \in P} \in SUBSET T
  OBVIOUS
<1> QED  BY <1>1, FS_Subset DEF Number

\* No member, no number.
LEMMA NumberZero ==
  ASSUME NEW T, NEW f, NEW P, \A t \in T : f[t] \notin P
  PROVE  Number(T, f, P) = 0
<1>1. {t \in T : f[t] \in P} = {}
  OBVIOUS
<1> QED  BY <1>1, FS_EmptySet DEF Number

\* Only u's value changes from f to g.
SameBut(T, u, f, g) == \A t \in T \ {u} : g[t] = f[t]

\* Then the number changes by what u contributes.
LEMMA NumberStep ==
  ASSUME NEW T, IsFiniteSet(T), NEW f, NEW g, NEW P, NEW u, SameBut(T, u, f, g)
  PROVE  Number(T, g, P) = Number(T, f, P)
           + (IF u \in T /\ g[u] \in P THEN 1 ELSE 0) - (IF u \in T /\ f[u] \in P THEN 1 ELSE 0)
<1> DEFINE A == {t \in T : f[t] \in P}
           B == {t \in T : g[t] \in P}
           C == {t \in T \ {u} : f[t] \in P}
<1>1. IsFiniteSet(C)
  BY FS_Subset
<1>2. Cardinality(C) \in Nat
  BY <1>1, FS_CardinalityType
<1>3. Cardinality(C \cup {u}) = Cardinality(C) + 1
  <2>1. u \notin C
    OBVIOUS
  <2> HIDE DEF C
  <2> QED  BY <1>1, <2>1, FS_AddElement
<1>4. A = IF u \in T /\ f[u] \in P THEN C \cup {u} ELSE C
  OBVIOUS
<1>5. B = IF u \in T /\ g[u] \in P THEN C \cup {u} ELSE C
  BY DEF SameBut
<1>6. Number(T, f, P) = Cardinality(A) /\ Number(T, g, P) = Cardinality(B)
  BY DEF Number
<1> HIDE DEF A, B, C
<1>7. Cardinality(A) = Cardinality(C) + (IF u \in T /\ f[u] \in P THEN 1 ELSE 0)
  BY <1>2, <1>3, <1>4
<1>8. Cardinality(B) = Cardinality(C) + (IF u \in T /\ g[u] \in P THEN 1 ELSE 0)
  BY <1>2, <1>3, <1>5
<1> QED  BY <1>2, <1>6, <1>7, <1>8


-----------------------------------------------------------------------------
(* Functions defined by recursion on a measure. *)

\* step[x] looks at its function only where the measure is smaller.
LooksBelow(S, T, m, step) ==
  \A x \in S, f, g \in [S -> T] :
    (\A y \in S : m[y] < m[x] => f[y] = g[y]) => step[x][f] = step[x][g]

Measured(S, T, N, m, default, step) ==
  /\ N \in Nat /\ m \in [S -> 0..N] /\ default \in T
  /\ step \in [S -> [[S -> T] -> T]] /\ LooksBelow(S, T, m, step)

\* Then there is a function whose values are what step says.
LEMMA MeasureRecursion ==
  ASSUME NEW S, NEW T, NEW N, NEW m, NEW default, NEW step, Measured(S, T, N, m, default, step)
  PROVE  \E f \in [S -> T] : \A x \in S : f[x] = step[x][f]
<1>0. /\ N \in Nat /\ m \in [S -> 0..N] /\ default \in T
      /\ step \in [S -> [[S -> T] -> T]] /\ LooksBelow(S, T, m, step)
  BY DEF Measured
<1> DEFINE F == [S -> T]
           Next1(f) == [x \in S |-> step[x][f]]
           next == [n \in 1..(N + 2) |-> [f \in F |-> Next1(f)]]
           start == [x \in S |-> default]
<1>1. N + 2 \in Nat /\ N + 1 \in Nat /\ start \in F /\ \A f \in F : Next1(f) \in F
  BY <1>0
<1>2. next \in Steps(N + 2, F) /\ \A n \in 1..(N + 2), f \in F : next[n][f] = Next1(f)
  BY <1>1 DEF Steps
<1>3. \A f \in F, x \in S : Next1(f)[x] = step[x][f]
  OBVIOUS
<1> HIDE DEF start, next, Next1, F
<1>4. PICK h : Recursive(h, N + 2, F, start, next)
  BY <1>1, <1>2, RecursionExists
<1>5. h \in [0..(N + 2) -> F] /\ \A n \in 1..(N + 2) : h[n] = next[n][h[n-1]]
  BY <1>4 DEF Recursive
<1>6. ASSUME NEW n \in 1..(N + 2), NEW x \in S  PROVE h[n-1] \in F /\ h[n][x] = step[x][h[n-1]]
  <2>1. n - 1 \in 0..(N + 2)
    BY <1>0
  <2>2. h[n-1] \in F /\ h[n] = Next1(h[n-1])
    BY <1>2, <1>5, <2>1
  <2> QED  BY <1>3, <2>2
<1> DEFINE Stable(n) == \A x \in S : m[x] < n => h[n+1][x] = h[n][x]
           A == {n \in 0..(N + 1) : Stable(n)}
<1>7. 0 \in A
  <2>1. \A x \in S : m[x] \in 0..N
    BY <1>0
  <2>2. \A x \in S : ~(m[x] < 0)
    BY <1>0, <2>1
  <2> QED  BY <1>0, <2>2
<1>8. ASSUME NEW n \in 1..(N + 1), n - 1 \in A  PROVE n \in A
  <2>1. Stable(n - 1)
    BY <1>8
  <2>2. ASSUME NEW x \in S, m[x] < n  PROVE h[n+1][x] = h[n][x]
    <3>1. n \in 1..(N + 2) /\ n + 1 \in 1..(N + 2) /\ (n + 1) - 1 = n /\ (n - 1) + 1 = n
      BY <1>0
    <3>2. h[n+1][x] = step[x][h[n]] /\ h[n] \in F
      <4>1. h[(n+1)-1] \in F /\ h[n+1][x] = step[x][h[(n+1)-1]]
        BY <1>6, <3>1
      <4> QED  BY <3>1, <4>1
    <3>3. h[n][x] = step[x][h[n-1]] /\ h[n-1] \in F
      BY <1>6, <3>1
    <3>4. ASSUME NEW y \in S, m[y] < m[x]  PROVE h[n][y] = h[n-1][y]
      <4>1. m[x] \in Int /\ m[y] \in Int
        BY <1>0
      <4>2. m[y] < n - 1
        BY <1>0, <2>2, <3>4, <4>1
      <4>3. h[(n-1)+1][y] = h[n-1][y]
        BY <2>1, <4>2
      <4> QED  BY <3>1, <4>3
    <3>5. step[x][h[n]] = step[x][h[n-1]]
      BY <1>0, <3>2, <3>3, <3>4 DEF LooksBelow, F
    <3> QED  BY <3>2, <3>3, <3>5
  <2>3. n \in 0..(N + 1)
    BY <1>0
  <2> QED  BY <2>2, <2>3
<1> HIDE DEF A
<1>9. 0..(N + 1) \subseteq A
  BY <1>1, <1>7, <1>8, BoundedInduction
<1>10. Stable(N + 1)
  BY <1>1, <1>9 DEF A
<1>11. N + 2 \in 1..(N + 2) /\ (N + 2) - 1 = N + 1 /\ (N + 1) + 1 = N + 2
  BY <1>0
<1>12. ASSUME NEW x \in S  PROVE h[N+1][x] = step[x][h[N+1]] /\ h[N+1] \in F
  <2>1. h[(N+2)-1] \in F /\ h[N+2][x] = step[x][h[(N+2)-1]]
    BY <1>6, <1>11
  <2>2. m[x] < N + 1
    <3>1. m[x] \in 0..N
      BY <1>0
    <3> QED  BY <1>0, <3>1
  <2>3. h[(N+1)+1][x] = h[N+1][x]
    BY <1>10, <2>2
  <2> QED  BY <1>11, <2>1, <2>3
<1>13. h[N+1] \in F
  <2>1. N + 1 \in 0..(N + 2)
    BY <1>0
  <2> QED  BY <1>5, <2>1
<1> QED  BY <1>12, <1>13 DEF F
=============================================================================
