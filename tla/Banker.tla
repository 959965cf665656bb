------------------------------- MODULE Banker -------------------------------
(***************************************************************************)
(* project6/banker/main.c: the banker's algorithm, driven by the commands  *)
(* RQ (request) and RL (release).  A command runs to its end before the    *)
(* next one is read, so each outcome of a command is one action.           *)
(*                                                                         *)
(* Quantities are natural numbers: the program's own inputs are.           *)
(***************************************************************************)
EXTENDS Integers, FiniteSets

CONSTANTS
  NUMBER_OF_CUSTOMERS, NUMBER_OF_RESOURCES,
  MaxUnits,         \* bound: units of each resource, on the command line
  MaxClaim          \* bound: units a customer claims or a command names

ASSUME BankerAssumption ==
  /\ NUMBER_OF_CUSTOMERS \in Nat \ {0} /\ NUMBER_OF_RESOURCES \in Nat \ {0}
  /\ MaxUnits \in Nat /\ MaxClaim \in Nat

Customers == 0..(NUMBER_OF_CUSTOMERS - 1)
Resources == 0..(NUMBER_OF_RESOURCES - 1)
Amounts   == [Resources -> 0..MaxClaim]

VARIABLES
  available, maximum, allocation, need,
  total             \* history: the units the bank started with

vars == <<available, maximum, allocation, need, total>>

allLessThanEqual(a, b) == \A r \in Resources : a[r] <= b[r]
anyLessThan(a, b)      == \E r \in Resources : a[r] < b[r]
Plus(a, b)  == [r \in Resources |-> a[r] + b[r]]
Minus(a, b) == [r \in Resources |-> a[r] - b[r]]

-----------------------------------------------------------------------------
\* safety(), on the matrices it reads: work is what the customers in finish
\* have given back.  A pass looks at each customer once.
Look(before, i, alloc, nd) ==
  IF i \notin before.finish /\ allLessThanEqual(nd[i], before.work)
  THEN [work   |-> Plus(before.work, alloc[i]),
        finish |-> before.finish \cup {i}]
  ELSE before

Pass(start, alloc, nd) ==
  LET scan[i \in 0..NUMBER_OF_CUSTOMERS] ==
        IF i = 0 THEN start ELSE Look(scan[i-1], i - 1, alloc, nd)
  IN scan[NUMBER_OF_CUSTOMERS]

Unscanned(avail) == [work |-> avail, finish |-> {}]

\* Mutant: only one pass over the customers.
SafetyOnePass(avail, alloc, nd) ==
  Pass(Unscanned(avail), alloc, nd).finish = Customers

\* The code makes passes until one adds nobody.  Every pass before that one adds
\* somebody, so there are at most NUMBER_OF_CUSTOMERS of them; further passes
\* change nothing (ResourceProofs!PassesSuffice).
Passes(avail, alloc, nd) ==
  LET passes[p \in 0..NUMBER_OF_CUSTOMERS] ==
        IF p = 0 THEN Unscanned(avail) ELSE Pass(passes[p-1], alloc, nd)
  IN passes[NUMBER_OF_CUSTOMERS]

Safety(avail, alloc, nd) == Passes(avail, alloc, nd).finish = Customers

Init ==
  /\ available \in [Resources -> 0..MaxUnits]
  /\ maximum \in [Customers -> Amounts]
  /\ allocation = [c \in Customers |-> [r \in Resources |-> 0]]
  /\ need = maximum
  /\ total = available

-----------------------------------------------------------------------------
\* request_resources(c, request); c is whatever number the user has typed.
Refuse == UNCHANGED vars      \* a warning is printed

RequestInvalid(c) == c \notin Customers /\ Refuse

RequestAboveClaim(c, request) ==
  /\ c \in Customers
  /\ anyLessThan(need[c], request)
  /\ Refuse

RequestAboveAvailable(c, request) ==
  /\ c \in Customers
  /\ ~anyLessThan(need[c], request)
  /\ anyLessThan(available, request)
  /\ Refuse

\* "Assume granted", then ask safety().
AvailableAfter(request)     == Minus(available, request)
AllocationAfter(c, request) == [allocation EXCEPT ![c] = Plus(@, request)]
NeedAfter(c, request)       == [need EXCEPT ![c] = Minus(@, request)]

Admissible(c, request) ==
  /\ c \in Customers
  /\ ~anyLessThan(need[c], request)
  /\ ~anyLessThan(available, request)

\* Mutant: the safety test is forgotten.
SafeAfterUnasked(c, request) == TRUE

SafeAfter(c, request) ==
  Safety(AvailableAfter(request), AllocationAfter(c, request), NeedAfter(c, request))

RequestGranted(c, request) ==
  /\ Admissible(c, request)
  /\ SafeAfter(c, request)
  /\ available'  = AvailableAfter(request)
  /\ allocation' = AllocationAfter(c, request)
  /\ need'       = NeedAfter(c, request)
  /\ UNCHANGED <<maximum, total>>

\* Mutant: the assumption is not taken back in `need`.
RequestUnsafeKeepsNeed(c, request) ==
  /\ Admissible(c, request)
  /\ ~SafeAfter(c, request)
  /\ available'  = Plus(AvailableAfter(request), request)
  /\ allocation' = [AllocationAfter(c, request) EXCEPT ![c] = Minus(@, request)]
  /\ need'       = NeedAfter(c, request)
  /\ UNCHANGED <<maximum, total>>

\* The assumption is taken back.
RequestUnsafe(c, request) ==
  /\ Admissible(c, request)
  /\ ~SafeAfter(c, request)
  /\ available'  = Plus(AvailableAfter(request), request)
  /\ allocation' = [AllocationAfter(c, request) EXCEPT ![c] = Minus(@, request)]
  /\ need'       = [NeedAfter(c, request) EXCEPT ![c] = Plus(@, request)]
  /\ UNCHANGED <<maximum, total>>

\* release_resources: what exceeds the allocation is cut off.
Clamp(c, release) ==
  [r \in Resources |-> IF allocation[c][r] < release[r] THEN allocation[c][r]
                       ELSE release[r]]

Release(c, release) ==
  LET given == Clamp(c, release)
  IN /\ allocation' = [allocation EXCEPT ![c] = Minus(@, given)]
     /\ need'       = [need EXCEPT ![c] = Plus(@, given)]
     /\ available'  = Plus(available, given)
     /\ UNCHANGED <<maximum, total>>

Request(c, amount) ==
  \/ RequestInvalid(c)
  \/ RequestAboveClaim(c, amount) \/ RequestAboveAvailable(c, amount)
  \/ RequestGranted(c, amount) \/ RequestUnsafe(c, amount)

Next ==
  \E amount \in Amounts :
    \/ \E c \in (-1)..NUMBER_OF_CUSTOMERS : Request(c, amount)
    \/ \E c \in Customers : Release(c, amount)

Spec == Init /\ [][Next]_vars

-----------------------------------------------------------------------------
TypeOK ==
  /\ available \in [Resources -> Nat]
  /\ maximum \in [Customers -> Amounts]
  /\ allocation \in [Customers -> [Resources -> Nat]]
  /\ need \in [Customers -> [Resources -> Nat]]
  /\ total \in [Resources -> 0..MaxUnits]

\* Nothing is created, lost or owed: what the customers hold and what is available
\* add up to what there was, claim = held + needed for every customer, and nobody
\* has given back more than it held.
SumOf(amount) ==
  LET sum[n \in 0..NUMBER_OF_CUSTOMERS] ==
        IF n = 0 THEN 0 ELSE sum[n-1] + amount[n-1]
  IN sum[NUMBER_OF_CUSTOMERS]
Held(r) == SumOf([c \in Customers |-> allocation[c][r]])
UnitsConserved ==
  \A r \in Resources :
    /\ available[r] + Held(r) = total[r]
    /\ \A c \in Customers :
         /\ need[c][r] + allocation[c][r] = maximum[c][r]
         /\ allocation[c][r] >= 0 /\ need[c][r] >= 0

\* The textbook definition of a safe state: there is an order in which every
\* customer can get all it needs from what is available and what those before
\* it have given back.
Orders == {f \in [1..NUMBER_OF_CUSTOMERS -> Customers] :
             \A m, n \in 1..NUMBER_OF_CUSTOMERS : f[m] = f[n] => m = n}
Free(avail, alloc, order) ==
  LET free[n \in 0..NUMBER_OF_CUSTOMERS] ==
        IF n = 0 THEN avail ELSE Plus(free[n-1], alloc[order[n]])
  IN free
SafeByDefinition(avail, alloc, nd) ==
  \E order \in Orders :
    \A n \in 1..NUMBER_OF_CUSTOMERS :
      allLessThanEqual(nd[order[n]], Free(avail, alloc, order)[n-1])

\* Whatever has been requested and released, once somebody holds something the
\* customers can all still finish.
AlwaysSafe ==
  \/ \A c \in Customers : \A r \in Resources : allocation[c][r] = 0
  \/ SafeByDefinition(available, allocation, need)

\* A request is refused as unsafe only if it really leaves no such order: the
\* scan gives up on no safe state, and accepts no unsafe one.
RefusedIffUnsafe ==
  \A c \in Customers, request \in Amounts :
    Admissible(c, request) =>
      (SafeAfter(c, request) <=>
         SafeByDefinition(AvailableAfter(request), AllocationAfter(c, request),
                          NeedAfter(c, request)))
=============================================================================
