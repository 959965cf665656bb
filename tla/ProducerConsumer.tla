-------------------------- MODULE ProducerConsumer --------------------------
(***************************************************************************)
(* project5/project5_4/producer-consumer: buffer.c, a circular buffer      *)
(* guarded by a mutex and by two semaphores, and main.c, which creates the *)
(* producers and consumers, sleeps, cancels all of them and joins them.    *)
(*                                                                         *)
(* The semaphores are NAMED (sem_open): they belong to the system, not to  *)
(* the process.  Nothing closes or unlinks them, so their values survive   *)
(* the program's end and its next run opens them as it left them, while    *)
(* the buffer, its indices and the mutex start afresh.  The model          *)
(* therefore runs the program up to MaxRuns times, and each run may be     *)
(* killed at any moment.                                                   *)
(*                                                                         *)
(* Cancellation is deferred: a cancelled thread ends where it next sleeps, *)
(* prints or waits for a semaphore, never in pthread_mutex_lock.           *)
(***************************************************************************)
EXTENDS Integers, FiniteSets

CONSTANTS
  Producers, Consumers,   \* the threads (num_producer, num_consumer)
  Items,                  \* the values a producer may produce
  BUFFER_SIZE,
  MaxRuns,                \* bound: how often the program is started
  NoItem,                 \* an uninitialised buffer_item
  Nobody                  \* nobody holds the mutex

Threads == Producers \cup Consumers

ASSUME BufferAssumption == BUFFER_SIZE \in Nat /\ BUFFER_SIZE >= 2
ASSUME ThreadAssumption ==
  /\ IsFiniteSet(Threads)
  /\ Producers \cap Consumers = {}
  /\ Nobody \notin Threads
ASSUME ValueAssumption == NoItem \notin Items
ASSUME RunsAssumption == MaxRuns \in Nat \ {0}

VARIABLES
  full, empty,            \* the named semaphores (persistent)
  buffer, head, rear,     \* the circular buffer
  mutex,                  \* the thread that holds the mutex, or Nobody
  pc, item,               \* of each thread: position, local variable `item`
  cancelled,              \* threads pthread_cancel has been called for
  main,                   \* where the main thread stands
  run                     \* which run of the program this is

vars == <<full, empty, buffer, head, rear, mutex, pc, item, cancelled, main, run>>

\* The value that stands for a named semaphore that does not exist yet.
NoSem == -1

Slots == 0..(BUFFER_SIZE - 1)
Succ(k) == (k + 1) % BUFFER_SIZE

IsFull  == Succ(rear) = head
IsEmpty == head = rear

\* "idle": sleeping, printing, or about to call sem_wait; "waiting": inside
\* sem_wait; "lock": inside pthread_mutex_lock; "body": the mutex is held.
PCs == {"none", "idle", "waiting", "lock", "body", "stored", "loaded",
        "error", "post", "exited"}
MainPCs == {"start", "opening", "sleeping", "joining", "done"}

\* The globals of a process that has just been started.
FreshProcess ==
  /\ buffer' = [k \in Slots |-> 0]
  /\ head' = 0 /\ rear' = 0
  /\ mutex' = Nobody
  /\ pc' = [t \in Threads |-> "none"]
  /\ item' = [t \in Threads |-> NoItem]
  /\ cancelled' = {}

Init ==
  /\ full = NoSem /\ empty = NoSem
  /\ buffer = [k \in Slots |-> 0]
  /\ head = 0 /\ rear = 0
  /\ mutex = Nobody
  /\ pc = [t \in Threads |-> "none"]
  /\ item = [t \in Threads |-> NoItem]
  /\ cancelled = {}
  /\ main = "start"
  /\ run = 1

\* sem_open(name, O_CREAT, mode, value): `value` counts only when the
\* semaphore did not exist.
SemOpen(sem, value) == IF sem = NoSem THEN value ELSE sem

\* Mutants: the initial values the two sem_open calls ask for.
OpenedEmptyTooLarge == SemOpen(empty, BUFFER_SIZE)
OpenedFull  == SemOpen(full, 0)
OpenedEmpty == SemOpen(empty, BUFFER_SIZE - 1)

-----------------------------------------------------------------------------
\* The main thread.

\* initialize_buffer, up to the first sem_open ...
InitializeBuffer ==
  /\ main = "start"
  /\ main' = "opening"
  /\ head' = 0 /\ rear' = 0
  /\ mutex' = Nobody
  /\ full' = OpenedFull
  /\ UNCHANGED <<empty, buffer, pc, item, cancelled, run>>

\* ... and the second, after which main creates every thread.  A thread that
\* has not been created yet is one that has not taken its first step.
CreateThreads ==
  /\ main = "opening"
  /\ main' = "sleeping"
  /\ empty' = OpenedEmpty
  /\ pc' = [t \in Threads |-> "idle"]
  /\ UNCHANGED <<full, buffer, head, rear, mutex, item, cancelled, run>>

\* The sleep is over: main cancels all producers, then all consumers.
Cancel(t) ==
  /\ main = "sleeping"
  /\ t \notin cancelled
  /\ t \in Consumers => Producers \subseteq cancelled
  /\ cancelled' = cancelled \cup {t}
  /\ main' = IF cancelled' = Threads THEN "joining" ELSE "sleeping"
  /\ UNCHANGED <<full, empty, buffer, head, rear, mutex, pc, item, run>>

Join ==
  /\ main = "joining"
  /\ \A t \in Threads : pc[t] = "exited"
  /\ main' = "done"
  /\ UNCHANGED <<full, empty, buffer, head, rear, mutex, pc, item, cancelled, run>>

\* A signal ends the process, wherever its threads stand.
Kill ==
  /\ main # "done"
  /\ main' = "done"
  /\ FreshProcess
  /\ UNCHANGED <<full, empty, run>>

\* The program is started again.
Restart ==
  /\ main = "done"
  /\ run < MaxRuns
  /\ run' = run + 1
  /\ main' = "start"
  /\ FreshProcess
  /\ UNCHANGED <<full, empty>>

Main == InitializeBuffer \/ CreateThreads \/ (\E t \in Threads : Cancel(t)) \/ Join

-----------------------------------------------------------------------------
\* The threads.
Goto(t, from, to) ==
  /\ pc[t] = from
  /\ pc' = [pc EXCEPT ![t] = to]

\* A thread enters insert_item with a new item, or remove_item.
CallInsert(p, x) ==
  /\ p \notin cancelled
  /\ Goto(p, "idle", "waiting")
  /\ item' = [item EXCEPT ![p] = x]
  /\ UNCHANGED <<full, empty, buffer, head, rear, mutex, cancelled, main, run>>

CallRemove(c) ==
  /\ c \notin cancelled
  /\ Goto(c, "idle", "waiting")
  /\ UNCHANGED <<full, empty, buffer, head, rear, mutex, item, cancelled, main, run>>

\* Mutant: no wait for the mutex.
LockSkipped(t) ==
  /\ Goto(t, "lock", "body")
  /\ mutex' = t
  /\ UNCHANGED <<full, empty, buffer, head, rear, item, cancelled, main, run>>

\* sem_wait.  A request that arrives once the thread is inside sem_wait may
\* end it there or find it gone with the semaphore.
WaitEmpty(p) ==
  /\ empty > 0
  /\ Goto(p, "waiting", "lock")
  /\ empty' = empty - 1
  /\ UNCHANGED <<full, buffer, head, rear, mutex, item, cancelled, main, run>>

WaitFull(c) ==
  /\ full > 0
  /\ Goto(c, "waiting", "lock")
  /\ full' = full - 1
  /\ UNCHANGED <<empty, buffer, head, rear, mutex, item, cancelled, main, run>>

Lock(t) ==
  /\ mutex = Nobody
  /\ Goto(t, "lock", "body")
  /\ mutex' = t
  /\ UNCHANGED <<full, empty, buffer, head, rear, item, cancelled, main, run>>

\* The else branch of insert_item: store the item ...
StoreItem(p) ==
  /\ ~IsFull
  /\ Goto(p, "body", "stored")
  /\ buffer' = [buffer EXCEPT ![rear] = item[p]]
  /\ UNCHANGED <<full, empty, head, rear, mutex, item, cancelled, main, run>>

\* Mutant: the unlock is missing.
AdvanceRearKeepsMutex(p) ==
  /\ Goto(p, "stored", "post")
  /\ rear' = Succ(rear)
  /\ UNCHANGED <<full, empty, buffer, head, mutex, item, cancelled, main, run>>

\* ... advance rear and unlock.
AdvanceRear(p) ==
  /\ Goto(p, "stored", "post")
  /\ rear' = Succ(rear)
  /\ mutex' = Nobody
  /\ UNCHANGED <<full, empty, buffer, head, item, cancelled, main, run>>

\* The else branch of remove_item: copy the item ...
LoadItem(c) ==
  /\ ~IsEmpty
  /\ Goto(c, "body", "loaded")
  /\ item' = [item EXCEPT ![c] = buffer[head]]
  /\ UNCHANGED <<full, empty, buffer, head, rear, mutex, cancelled, main, run>>

\* ... advance head and unlock.
AdvanceHead(c) ==
  /\ Goto(c, "loaded", "post")
  /\ head' = Succ(head)
  /\ mutex' = Nobody
  /\ UNCHANGED <<full, empty, buffer, rear, item, cancelled, main, run>>

\* The branch that prints "[error] ...", with the mutex held.
Refuse(t) ==
  /\ IF t \in Producers THEN IsFull ELSE IsEmpty
  /\ Goto(t, "body", "error")
  /\ UNCHANGED <<full, empty, buffer, head, rear, mutex, item, cancelled, main, run>>

\* return 1: the semaphore the thread has taken is not given back.
ErrorReturn(t) ==
  /\ Goto(t, "error", "idle")
  /\ mutex' = Nobody
  /\ UNCHANGED <<full, empty, buffer, head, rear, item, cancelled, main, run>>

\* Mutant: a producer posts the semaphore it has waited for.
PostEmptyInstead(p) ==
  /\ Goto(p, "post", "idle")
  /\ empty' = empty + 1
  /\ UNCHANGED <<full, buffer, head, rear, mutex, item, cancelled, main, run>>

PostFull(p) ==
  /\ Goto(p, "post", "idle")
  /\ full' = full + 1
  /\ UNCHANGED <<empty, buffer, head, rear, mutex, item, cancelled, main, run>>

PostEmpty(c) ==
  /\ Goto(c, "post", "idle")
  /\ empty' = empty + 1
  /\ UNCHANGED <<full, buffer, head, rear, mutex, item, cancelled, main, run>>

\* A cancelled thread ends at a cancellation point; in the error branch that
\* is the printf, and the mutex stays locked.
Exit(t) ==
  /\ t \in cancelled
  /\ pc[t] \in {"idle", "waiting", "error"}
  /\ pc' = [pc EXCEPT ![t] = "exited"]
  /\ UNCHANGED <<full, empty, buffer, head, rear, mutex, item, cancelled, main, run>>

Producer(p) ==
  \/ \E x \in Items : CallInsert(p, x)
  \/ WaitEmpty(p) \/ StoreItem(p) \/ AdvanceRear(p) \/ PostFull(p)

Consumer(c) ==
  \/ CallRemove(c)
  \/ WaitFull(c) \/ LoadItem(c) \/ AdvanceHead(c) \/ PostEmpty(c)

Thread(t) ==
  \/ t \in Producers /\ Producer(t)
  \/ t \in Consumers /\ Consumer(t)
  \/ Lock(t) \/ Refuse(t) \/ ErrorReturn(t) \/ Exit(t)

Finished ==
  /\ main = "done" /\ run = MaxRuns
  /\ UNCHANGED vars

Next ==
  \/ Main \/ Kill \/ Restart \/ Finished
  \/ \E t \in Threads : Thread(t)

\* Main and every thread are scheduled; nobody has to kill or restart.
Fairness ==
  /\ WF_vars(Main)
  /\ \A t \in Threads : WF_vars(Thread(t))

Spec     == Init /\ [][Next]_vars
FairSpec == Spec /\ Fairness

-----------------------------------------------------------------------------
Count == (rear - head) % BUFFER_SIZE
At(T, pcs) == Cardinality({t \in T : pc[t] \in pcs})
Opened == main \in {"sleeping", "joining"}

TypeOK ==
  /\ full \in 0..(BUFFER_SIZE-1) \cup {NoSem}
  /\ empty \in 0..(BUFFER_SIZE-1) \cup {NoSem}
  /\ buffer \in [Slots -> Items \cup {0}]
  /\ head \in Slots /\ rear \in Slots
  /\ mutex \in Threads \cup {Nobody}
  /\ pc \in [Threads -> PCs]
  /\ item \in [Threads -> Items \cup {NoItem}]
  /\ cancelled \in SUBSET Threads
  /\ main \in MainPCs
  /\ run \in 1..MaxRuns

\* In the first run every slot is accounted for by exactly one of: a unit of
\* `empty`, a producer that took one, a stored item, a consumer that owes one;
\* and every stored item by `full` and the threads in between.
TokensExact ==
  (Opened /\ run = 1) =>
    /\ Count + empty + At(Producers, {"lock", "body", "stored"}) + At(Consumers, {"post"})
         = BUFFER_SIZE - 1
    /\ full + At(Consumers, {"lock", "body", "loaded"}) + At(Producers, {"post"}) = Count

\* In every run, also one that inherits the semaphores of a run that was
\* cancelled or killed halfway: units of `empty` never outnumber free slots,
\* so a producer that holds one finds room.
NeverOverfills ==
  Opened =>
    /\ Count + empty + At(Producers, {"lock", "body", "stored"}) + At(Consumers, {"post"})
         <= BUFFER_SIZE - 1
    /\ \A p \in Producers : pc[p] = "body" => ~IsFull

\* In the first run the threads never all wait for one another.  Until main
\* starts to cancel, some producer or consumer can go on; and as long as main
\* has somebody to join, some thread can take another step towards its end (a
\* cancelled thread has finitely many left), so the joins return.
CanGoOn(t) ==
  \/ pc[t] \in {"idle", "body", "stored", "loaded", "error", "post"}
  \/ pc[t] = "lock" /\ mutex = Nobody
  \/ pc[t] = "waiting" /\ (t \in cancelled \/ (IF t \in Producers THEN empty ELSE full) > 0)
NoStall ==
  run = 1 =>
    /\ (main = "sleeping" /\ cancelled = {}) => \E t \in Threads : CanGoOn(t)
    /\ main = "joining" =>
         (\A t \in Threads : pc[t] = "exited") \/ (\E t \in Threads : CanGoOn(t))

\* Whatever was stored is delivered once, in order, and never more than
\* BUFFER_SIZE - 1 items at a time; in every run.
\* An item a consumer has just copied is no longer stored.
LiveHead == IF \E c \in Consumers : pc[c] = "loaded" THEN Succ(head) ELSE head
Stored == [k \in 1..((rear - LiveHead) % BUFFER_SIZE) |->
             buffer[(LiveHead + k - 1) % BUFFER_SIZE]]
Queue == INSTANCE BoundedQueue WITH
           Takers <- Consumers, Capacity <- BUFFER_SIZE - 1,
           queue <- Stored, got <- [c \in Consumers |-> item[c]]
IsBoundedQueue == Queue!Spec

\* main.c:54, "6. Exit": once main has cancelled the threads it joins them
\* all and the program ends.
ExitCompletes == (main = "joining") ~> (main = "done")
=============================================================================
