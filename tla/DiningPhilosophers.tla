------------------------- MODULE DiningPhilosophers -------------------------
(***************************************************************************)
(* project5/project5_3/diningPhilosopher.c: N philosopher threads, the     *)
(* shared array state[], a semaphore `mutex` (initially 1) that guards it  *)
(* and one private semaphore S[i] per philosopher (initially 0).           *)
(*                                                                         *)
(* Every read and write of state[] is a step of its own: test() reads the  *)
(* three cells in one step and writes EATING in a later one, so nothing    *)
(* but the mutex keeps two tests apart.  The sleeps carry no state and are *)
(* left out: a thread may pause before any step.                           *)
(***************************************************************************)
EXTENDS Integers

CONSTANT N       \* number of philosophers (5 in the code)

ASSUME NAssumption == N \in Nat /\ N >= 2

VARIABLES
  mutex,         \* value of the semaphore that guards state[]
  S,             \* S[i]: value of philosopher i's private semaphore
  state,         \* state[i]: THINKING, HUNGRY or EATING
  pc             \* pc[i]: where thread i stands

vars == <<mutex, S, state, pc>>

THINKING == 0
HUNGRY   == 1
EATING   == 2

Phil == 0..(N-1)

\* The code writes LEFT as (ph_num+4)%N: the 4 is N-1.
Left(i)  == (i + (N-1)) % N
Right(i) == (i + 1) % N

TakePC == {"hungry", "testSelf", "setSelf", "postTake"}
PutPC  == {"putting", "testLeft", "setLeft", "testRight", "setRight", "postPut"}
Inside == TakePC \cup PutPC                \* between sem_wait and sem_post
PCs    == Inside \cup {"thinking", "waiting", "eating", "gone"}

Init ==
  /\ mutex = 1
  /\ S     = [i \in Phil |-> 0]
  /\ state = [i \in Phil |-> THINKING]
  /\ pc    = [i \in Phil |-> "thinking"]

Goto(i, from, to) ==
  /\ pc[i] = from
  /\ pc' = [pc EXCEPT ![i] = to]

\* Mutants: one neighbour not looked at; any neighbour may be woken.
CanEatOneSided(j) == state[j] = HUNGRY /\ state[Left(j)] # EATING
CanEatNotHungry(j) == state[Left(j)] # EATING /\ state[Right(j)] # EATING

\* The condition of test(j).
CanEat(j) ==
  /\ state[j] = HUNGRY
  /\ state[Left(j)]  # EATING
  /\ state[Right(j)] # EATING

\* test(j), first half: thread i evaluates the condition ...
Check(i, j, from, set, next) ==
  /\ Goto(i, from, IF CanEat(j) THEN set ELSE next)
  /\ UNCHANGED <<mutex, S, state>>

\* ... and, where it held, marks j as eating and posts S[j].
Grant(i, j, set, next) ==
  /\ Goto(i, set, next)
  /\ state' = [state EXCEPT ![j] = EATING]
  /\ S'     = [S EXCEPT ![j] = @ + 1]
  /\ UNCHANGED mutex

Lock(i, from, to) ==
  /\ mutex > 0
  /\ Goto(i, from, to)
  /\ mutex' = mutex - 1
  /\ UNCHANGED <<S, state>>

Unlock(i, from, to) ==
  /\ Goto(i, from, to)
  /\ mutex' = mutex + 1
  /\ UNCHANGED <<S, state>>

-----------------------------------------------------------------------------
\* take_fork(i)
TakeLock(i) == Lock(i, "thinking", "hungry")

BecomeHungry(i) ==
  /\ Goto(i, "hungry", "testSelf")
  /\ state' = [state EXCEPT ![i] = HUNGRY]
  /\ UNCHANGED <<mutex, S>>

TestSelf(i)   == Check(i, i, "testSelf", "setSelf", "postTake")
GrantSelf(i)  == Grant(i, i, "setSelf", "postTake")
TakeUnlock(i) == Unlock(i, "postTake", "waiting")

AwaitForks(i) ==
  /\ S[i] > 0
  /\ Goto(i, "waiting", "eating")
  /\ S' = [S EXCEPT ![i] = @ - 1]
  /\ UNCHANGED <<mutex, state>>

\* put_fork(i), which ends the thread
PutLock(i) == Lock(i, "eating", "putting")

BecomeThinking(i) ==
  /\ Goto(i, "putting", "testLeft")
  /\ state' = [state EXCEPT ![i] = THINKING]
  /\ UNCHANGED <<mutex, S>>

\* Mutant: put_fork does not look at the right neighbour.
TestRightSkipped(i) ==
  /\ Goto(i, "testRight", "postPut")
  /\ UNCHANGED <<mutex, S, state>>

\* Mutant: the thread does not end, the philosopher dines again.
PutUnlockAgain(i) == Unlock(i, "postPut", "thinking")

TestLeft(i)   == Check(i, Left(i), "testLeft", "setLeft", "testRight")
GrantLeft(i)  == Grant(i, Left(i), "setLeft", "testRight")
TestRight(i)  == Check(i, Right(i), "testRight", "setRight", "postPut")
GrantRight(i) == Grant(i, Right(i), "setRight", "postPut")
PutUnlock(i)  == Unlock(i, "postPut", "gone")

Philosopher(i) ==
  \/ TakeLock(i) \/ BecomeHungry(i) \/ TestSelf(i) \/ GrantSelf(i)
  \/ TakeUnlock(i) \/ AwaitForks(i)
  \/ PutLock(i) \/ BecomeThinking(i) \/ TestLeft(i) \/ GrantLeft(i)
  \/ TestRight(i) \/ GrantRight(i) \/ PutUnlock(i)

\* main has joined every thread.
Joined ==
  /\ \A i \in Phil : pc[i] = "gone"
  /\ UNCHANGED vars

Next == Joined \/ \E i \in Phil : Philosopher(i)

\* The kernel keeps running every thread that is not blocked.  sem_wait on
\* the mutex needs no more: a thread asks for it twice in its whole life.
Fairness == \A i \in Phil : WF_vars(Philosopher(i))

Spec     == Init /\ [][Next]_vars
FairSpec == Spec /\ Fairness

-----------------------------------------------------------------------------
\* Every semaphore of the program is binary.
TypeOK ==
  /\ mutex \in {0, 1}
  /\ S     \in [Phil -> {0, 1}]
  /\ state \in [Phil -> {THINKING, HUNGRY, EATING}]
  /\ pc    \in [Phil -> PCs]

\* A philosopher holds its forks from the moment test() posts its semaphore
\* until put_fork has the mutex and writes THINKING.
HoldsForks(i) ==
  \/ pc[i] \in {"eating", "putting"}
  \/ S[i] = 1

\* Two neighbours never hold their forks at the same time: a post of S[i] that
\* has not been consumed counts, and so does an eater waiting to put them down.
NeighboursExclude ==
  \A i \in Phil : ~ (HoldsForks(i) /\ HoldsForks(Right(i)))

\* No wake-up is lost: once nobody is inside take_fork or put_fork, every
\* hungry philosopher has a neighbour that is eating and will test it.
NoLostWakeup ==
  mutex = 1 =>
    \A i \in Phil : state[i] = HUNGRY =>
       \/ state[Left(i)]  = EATING
       \/ state[Right(i)] = EATING

\* Every philosopher gets to eat and leaves, whatever the interleaving.
EveryoneEats == \A i \in Phil : <>(pc[i] = "eating") /\ <>(pc[i] = "gone")
=============================================================================
