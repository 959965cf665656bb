----------------------------- MODULE ThreadPool -----------------------------
(***************************************************************************)
(* project5/project5_1: threadpool.c, a pool of worker threads that poll a *)
(* circular work queue, and client.c, whose main thread submits NUM_WORK   *)
(* tasks, sleeps and shuts the pool down.                                  *)
(*                                                                         *)
(* worker() and pool_shutdown() evaluate head==tail WITHOUT the mutex; the *)
(* two loads are separate steps, as in the build, which is not optimised.  *)
(* dequeue() runs under the mutex but does not look at head==tail again.   *)
(***************************************************************************)
EXTENDS Integers, FiniteSets

CONSTANTS
  Workers,        \* the bees (NUMBER_OF_THREADS of them)
  NUM_WORK,       \* how many tasks the client submits
  QUEUE_SIZE

ASSUME PoolAssumption ==
  /\ IsFiniteSet(Workers) /\ Workers # {}
  /\ NUM_WORK \in Nat
  /\ QUEUE_SIZE \in Nat \ {0}

REAL_QUEUE_SIZE == QUEUE_SIZE + 1

Tasks == 1..NUM_WORK
NULL  == 0                     \* a slot never written: a null function
Slots == 0..(REAL_QUEUE_SIZE - 1)

VARIABLES
  workstodo, head, tail,       \* the work queue
  token,                       \* 1 until the pool is shut down
  locked,                      \* the mutex is held
  pc, seen, work_next,         \* of each worker: position, the value of head
                               \*   it loaded (0 once used), the task it dequeued
  main, next, seenMain,        \* of the client: position, task to submit
                               \*   next, the value of head it loaded (0 once used)
  executed,                    \* history: how often each task was executed,
                               \*   2 standing for "twice or more"
  accepted,                    \* history: the tasks enqueue returned 0 for
  underflow,                   \* history: dequeue has run on an empty queue
  crashed                      \* a null function was called

queueVars   == <<workstodo, head, tail>>
workerVars  == <<pc, seen, work_next>>
clientVars  == <<main, next, seenMain>>
historyVars == <<executed, accepted, underflow>>
vars == <<queueVars, token, locked, workerVars, clientVars, historyVars, crashed>>

Succ(k) == (k + 1) % REAL_QUEUE_SIZE

WorkerPCs == {"token", "head", "tail", "lock", "held", "taken", "execute", "exited"}
MainPCs   == {"submit", "held", "stored", "head", "tail", "join", "done"}

Init ==
  /\ workstodo = [k \in Slots |-> NULL]
  /\ head = 0 /\ tail = 0
  /\ token = 1
  /\ locked = FALSE
  /\ pc = [w \in Workers |-> "token"]
  /\ seen = [w \in Workers |-> 0]
  /\ work_next = [w \in Workers |-> NULL]
  /\ main = "submit" /\ next = 1 /\ seenMain = 0
  /\ executed = [t \in Tasks |-> 0]
  /\ accepted = {}
  /\ underflow = FALSE
  /\ crashed = FALSE

-----------------------------------------------------------------------------
\* worker()
Goto(w, from, to) ==
  /\ pc[w] = from
  /\ pc' = [pc EXCEPT ![w] = to]

LoadToken(w) ==
  /\ Goto(w, "token", IF token = 1 THEN "head" ELSE "exited")
  /\ UNCHANGED <<queueVars, token, locked, seen, work_next, clientVars, historyVars, crashed>>

LoadHead(w) ==
  /\ Goto(w, "head", "tail")
  /\ seen' = [seen EXCEPT ![w] = head]
  /\ UNCHANGED <<queueVars, token, locked, work_next, clientVars, historyVars, crashed>>

\* head==tail: back to the loop after a usleep; otherwise on to the mutex.
LoadTail(w) ==
  /\ Goto(w, "tail", IF seen[w] = tail THEN "token" ELSE "lock")
  /\ seen' = [seen EXCEPT ![w] = 0]
  /\ UNCHANGED <<queueVars, token, locked, work_next, clientVars, historyVars, crashed>>

\* Mutant: dequeue runs without the mutex.
LockQueueSkipped(w) ==
  /\ Goto(w, "lock", "held")
  /\ locked' = TRUE
  /\ UNCHANGED <<queueVars, token, seen, work_next, clientVars, historyVars, crashed>>

LockQueue(w) ==
  /\ ~locked
  /\ Goto(w, "lock", "held")
  /\ locked' = TRUE
  /\ UNCHANGED <<queueVars, token, seen, work_next, clientVars, historyVars, crashed>>

\* dequeue: copy the slot ...
TakeSlot(w) ==
  /\ Goto(w, "held", "taken")
  /\ work_next' = [work_next EXCEPT ![w] = workstodo[head]]
  /\ underflow' = (underflow \/ head = tail)
  /\ UNCHANGED <<queueVars, token, locked, seen, clientVars, executed, accepted, crashed>>

\* ... advance head and unlock.
AdvanceHead(w) ==
  /\ Goto(w, "taken", "execute")
  /\ head' = Succ(head)
  /\ locked' = FALSE
  /\ UNCHANGED <<workstodo, tail, token, seen, work_next, clientVars, historyVars, crashed>>

Execute(w) ==
  /\ work_next[w] # NULL
  /\ Goto(w, "execute", "token")
  /\ executed' = [executed EXCEPT ![work_next[w]] = IF @ = 0 THEN 1 ELSE 2]
  /\ UNCHANGED <<queueVars, token, locked, seen, work_next, clientVars, accepted, underflow, crashed>>

\* Calling a null function ends the process.
ExecuteNull(w) ==
  /\ pc[w] = "execute"
  /\ work_next[w] = NULL
  /\ crashed' = TRUE
  /\ UNCHANGED <<queueVars, token, locked, workerVars, clientVars, historyVars>>

Worker(w) ==
  /\ ~crashed
  /\ \/ LoadToken(w) \/ LoadHead(w) \/ LoadTail(w)
     \/ LockQueue(w) \/ TakeSlot(w) \/ AdvanceHead(w)
     \/ Execute(w) \/ ExecuteNull(w)

-----------------------------------------------------------------------------
\* client.c's main: pool_submit, once per task ...
LockSubmit ==
  /\ main = "submit" /\ next <= NUM_WORK
  /\ ~locked
  /\ locked' = TRUE
  /\ main' = "held"
  /\ UNCHANGED <<queueVars, token, workerVars, next, seenMain, historyVars, crashed>>

\* enqueue: the queue is full, and pool_submit ignores that it returns 1.
EnqueueFull ==
  /\ main = "held"
  /\ Succ(tail) = head
  /\ locked' = FALSE
  /\ main' = "submit" /\ next' = next + 1
  /\ UNCHANGED <<queueVars, token, workerVars, seenMain, historyVars, crashed>>

\* Mutant: enqueue does not look whether the queue is full.
StoreTaskUnchecked ==
  /\ main = "held"
  /\ workstodo' = [workstodo EXCEPT ![tail] = next]
  /\ main' = "stored"
  /\ UNCHANGED <<head, tail, token, locked, workerVars, next, seenMain, historyVars, crashed>>

\* enqueue: write the slot ...
StoreTask ==
  /\ main = "held"
  /\ Succ(tail) # head
  /\ workstodo' = [workstodo EXCEPT ![tail] = next]
  /\ main' = "stored"
  /\ UNCHANGED <<head, tail, token, locked, workerVars, next, seenMain, historyVars, crashed>>

\* ... advance tail, return 0 and unlock.
AdvanceTail ==
  /\ main = "stored"
  /\ tail' = Succ(tail)
  /\ accepted' = accepted \cup {next}
  /\ locked' = FALSE
  /\ main' = "submit" /\ next' = next + 1
  /\ UNCHANGED <<workstodo, head, token, workerVars, seenMain, executed, underflow, crashed>>

\* ... and, after a sleep, pool_shutdown: it polls until head==tail,
ShutdownLoadHead ==
  /\ \/ main = "submit" /\ next > NUM_WORK
     \/ main = "head"
  /\ seenMain' = head
  /\ main' = "tail"
  /\ UNCHANGED <<queueVars, token, locked, workerVars, next, historyVars, crashed>>

\* Mutant: the token is cleared without a look at the queue.
ShutdownAtOnce ==
  /\ main = "tail"
  /\ main' = "join" /\ token' = 0 /\ seenMain' = 0
  /\ UNCHANGED <<queueVars, locked, workerVars, next, historyVars, crashed>>

\* Mutant: the token is never cleared.
ShutdownKeepsToken ==
  /\ main = "tail"
  /\ main' = IF seenMain = tail THEN "join" ELSE "head"
  /\ seenMain' = 0
  /\ UNCHANGED <<queueVars, token, locked, workerVars, next, historyVars, crashed>>

\* clears the token
ShutdownLoadTail ==
  /\ main = "tail"
  /\ IF seenMain = tail
       THEN main' = "join" /\ token' = 0
       ELSE main' = "head" /\ UNCHANGED token
  /\ seenMain' = 0
  /\ UNCHANGED <<queueVars, locked, workerVars, next, historyVars, crashed>>

\* and joins the workers.
Join ==
  /\ main = "join"
  /\ \A w \in Workers : pc[w] = "exited"
  /\ main' = "done"
  /\ UNCHANGED <<queueVars, token, locked, workerVars, next, seenMain, historyVars, crashed>>

Client ==
  /\ ~crashed
  /\ \/ LockSubmit \/ EnqueueFull \/ StoreTask \/ AdvanceTail
     \/ ShutdownLoadHead \/ ShutdownLoadTail \/ Join

Ended ==
  /\ crashed \/ main = "done"
  /\ UNCHANGED vars

Next == Client \/ Ended \/ \E w \in Workers : Worker(w)

\* Every thread of the process is scheduled.  The mutex is asked for at most
\* NUM_WORK times by the client, so weak fairness is enough for everyone.
Fairness == WF_vars(Client) /\ \A w \in Workers : WF_vars(Worker(w))

Spec     == Init /\ [][Next]_vars
FairSpec == Spec /\ Fairness

-----------------------------------------------------------------------------
TypeOK ==
  /\ workstodo \in [Slots -> Tasks \cup {NULL}]
  /\ head \in Slots /\ tail \in Slots
  /\ token \in {0, 1}
  /\ locked \in BOOLEAN
  /\ pc \in [Workers -> WorkerPCs]
  /\ seen \in [Workers -> Slots]
  /\ work_next \in [Workers -> Tasks \cup {NULL}]
  /\ main \in MainPCs /\ next \in 1..(NUM_WORK + 1) /\ seenMain \in Slots
  /\ executed \in [Tasks -> 0..2]
  /\ accepted \in SUBSET Tasks
  /\ underflow \in BOOLEAN /\ crashed \in BOOLEAN

\* The live part of the queue: a slot that a worker has just copied is gone.
LiveHead == IF \E w \in Workers : pc[w] = "taken" THEN Succ(head) ELSE head
Stored == [k \in 1..((tail - LiveHead) % REAL_QUEUE_SIZE) |->
             workstodo[(LiveHead + k - 1) % REAL_QUEUE_SIZE]]
Places(t) ==
  Cardinality({k \in DOMAIN Stored : Stored[k] = t})
    + Cardinality({w \in Workers : pc[w] \in {"taken", "execute"} /\ work_next[w] = t})

\* Where the accepted tasks are, as long as no worker has dequeued from an
\* empty queue: each has been executed exactly once, or waits in exactly one
\* place, the live part of the queue or the hands of one worker.
AcceptedAccounted ==
  ~underflow =>
    /\ \A t \in accepted : executed[t] + Places(t) = 1
    /\ \A t \in Tasks \ accepted : executed[t] + Places(t) = 0

\* Shutdown loses nothing: a task that is still queued or being executed when
\* the token is cleared is finished before the client's main returns.
DoneMeansExecuted ==
  (main = "done" /\ ~underflow) =>
    \A t \in Tasks : executed[t] = IF t \in accepted THEN 1 ELSE 0

\* Until then the array is also a first-in first-out queue of QUEUE_SIZE tasks,
\* unlocked tests and refused submissions included: every step is a Put, a
\* Take or leaves the queue alone.
Queue == INSTANCE BoundedQueue WITH
           Items <- Tasks, Takers <- Workers, Capacity <- QUEUE_SIZE,
           NoItem <- NULL, queue <- Stored, got <- work_next
QueueUntilUnderflow ==
  /\ Queue!Init
  /\ [][~underflow' => [Queue!Step]_<<Stored, work_next>>]_vars

\* The program is shut down in an orderly way, unless some worker has dequeued
\* from an empty queue: then a worker may call a null function, or head may
\* have run past tail.
EndsUnlessUnderflow == <>(main = "done" \/ underflow)

\* threadpool.c:97, "Executes the task provided to the thread pool": what a
\* worker executes is a task somebody has submitted.
ExecutesProvided ==
  \A w \in Workers : pc[w] = "execute" => work_next[w] \in Tasks
=============================================================================
