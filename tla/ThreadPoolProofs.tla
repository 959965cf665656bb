-------------------------- MODULE ThreadPoolProofs ---------------------------
(***************************************************************************)
(* Safety of ThreadPool for any workers, any QUEUE_SIZE and any number of  *)
(* tasks: as long as no worker has dequeued from an empty queue, each      *)
(* accepted task is in exactly one place and is executed exactly once,     *)
(* nothing is lost at the shutdown, and the array is a BoundedQueue.       *)
(*                                                                         *)
(* The tests of head==tail without the mutex need not be right for that:   *)
(* what counts is that TakeSlot finds a task.  The one stale test that     *)
(* matters is the client's before it clears the token: it may load head    *)
(* long before tail, but nobody enqueues in between, so equal values mean  *)
(* that the queue was empty then and still is (ShutdownInv).               *)
(***************************************************************************)
EXTENDS ThreadPool, Sequences, ProofLemmas

N == REAL_QUEUE_SIZE

\* One thread holds the mutex, or nobody.
WorkerInside(w) == pc[w] \in {"held", "taken"}
MainInside      == main \in {"held", "stored"}
MutexInv ==
  /\ \A w \in Workers : WorkerInside(w) => locked /\ ~MainInside
  /\ \A w, v \in Workers : WorkerInside(w) /\ WorkerInside(v) => w = v
  /\ MainInside => locked

\* Where the client is.
ClientInv ==
  /\ MainInside => next <= NUM_WORK
  /\ main \in {"head", "tail", "join", "done"} => next = NUM_WORK + 1
  /\ main = "stored" => Succ(tail) # head /\ workstodo[tail] = next
  /\ main = "done" => \A w \in Workers : pc[w] = "exited"

\* Slot k is in the queue: a copied slot has left it, a written one is not in
\* it before tail has moved.
Between(h, t, k) == Dist(N, h, k) < Dist(N, h, t)
Live(k) == Between(LiveHead, tail, k)
Holds(w) == pc[w] \in {"taken", "execute"}

\* What is in the queue is there once, is not in a worker's hands and has not
\* been executed.
SlotInv ==
  \A k \in Slots : Live(k) =>
    /\ workstodo[k] \in accepted /\ executed[workstodo[k]] = 0
    /\ \A w \in Workers : Holds(w) => work_next[w] # workstodo[k]
    /\ \A j \in Slots : Live(j) /\ j # k => workstodo[j] # workstodo[k]

\* The same of what the workers hold.  A worker that has copied a slot has yet
\* to move head.
HandInv ==
  \A w \in Workers :
    /\ Holds(w) => /\ work_next[w] \in accepted /\ executed[work_next[w]] = 0
                   /\ \A v \in Workers : Holds(v) /\ v # w => work_next[v] # work_next[w]
    /\ pc[w] = "taken" => head # tail

\* An accepted task that has not been executed is somewhere; no other task is
\* ever executed, and the client goes through them in order.
TaskInv ==
  /\ \A t \in Tasks : executed[t] \in {0, 1} /\ (executed[t] = 1 => t \in accepted)
  /\ \A t \in accepted : \/ executed[t] = 1
                         \/ \E k \in Slots : Live(k) /\ workstodo[k] = t
                         \/ \E w \in Workers : Holds(w) /\ work_next[w] = t
  /\ \A t \in accepted : t < next

\* The client clears the token when the queue is empty.
ShutdownInv ==
  /\ main = "tail" /\ seenMain = tail => head = tail
  /\ main \in {"join", "done"} => head = tail

QueueInv == SlotInv /\ HandInv /\ TaskInv /\ ShutdownInv

IInv == /\ TypeOK /\ MutexInv /\ ClientInv
        /\ ~underflow => QueueInv

-----------------------------------------------------------------------------
\* The array is a ring.
LEMMA Ring ==
  /\ N \in Nat \ {0} /\ Slots = 0..(N-1) /\ 0 \in Slots
  /\ \A k : Succ(k) = After(N, k)
  BY PoolAssumption DEF N, REAL_QUEUE_SIZE, Slots, Succ, After

\* The next slot is a slot.
LEMMA SuccType == ASSUME NEW k \in Slots  PROVE Succ(k) \in Slots
  BY Ring, AfterIs

\* How the queue changes with its ends.
LEMMA BetweenMoves ==
  ASSUME NEW h \in Slots, NEW t \in Slots, NEW k \in Slots
  PROVE  /\ ~Between(h, t, t) /\ ~Between(h, h, k)
         /\ h # t => Between(h, t, h)
         /\ h # t => (Between(Succ(h), t, k) <=> Between(h, t, k) /\ k # h)
         /\ Succ(t) # h => (Between(h, Succ(t), k) <=> Between(h, t, k) \/ k = t)
<1>1. /\ h \in 0..(N-1) /\ t \in 0..(N-1) /\ k \in 0..(N-1) /\ N \in Nat \ {0}
      /\ Succ(h) = After(N, h) /\ Succ(t) = After(N, t)
  BY Ring
<1>2. /\ Succ(h) = (IF h = N - 1 THEN 0 ELSE h + 1) /\ Succ(h) \in 0..(N-1)
      /\ Succ(t) = (IF t = N - 1 THEN 0 ELSE t + 1)
  BY <1>1, AfterIs
<1>3. /\ Dist(N, h, h) = 0
      /\ Dist(N, h, k) = (IF h <= k THEN k - h ELSE k - h + N)
      /\ Dist(N, h, t) = (IF h <= t THEN t - h ELSE t - h + N)
  BY <1>1, DistIs, DistMoves
<1>4. Dist(N, Succ(h), k) = (IF Succ(h) <= k THEN k - Succ(h) ELSE k - Succ(h) + N)
  BY <1>1, <1>2, DistIs
<1>5. h # t => Dist(N, Succ(h), t) = Dist(N, h, t) - 1
  BY <1>1, DistMoves
<1>6. Succ(t) # h => Dist(N, h, Succ(t)) = Dist(N, h, t) + 1
  BY <1>1, DistMoves
<1>7. ~Between(h, t, t) /\ ~Between(h, h, k)
  BY <1>1, <1>3 DEF Between
<1>8. h # t => Between(h, t, h)
  BY <1>1, <1>3 DEF Between
<1>9. ASSUME h # t  PROVE Between(Succ(h), t, k) <=> Between(h, t, k) /\ k # h
  BY <1>1, <1>2, <1>3, <1>4, <1>5, <1>9 DEF Between
<1>10. ASSUME Succ(t) # h  PROVE Between(h, Succ(t), k) <=> Between(h, t, k) \/ k = t
  BY <1>1, <1>3, <1>6, <1>10 DEF Between
<1> QED  BY <1>7, <1>8, <1>9, <1>10

\* Where the queue begins.
LEMMA LiveHeadIs ==
  ASSUME TypeOK
  PROVE  /\ (\E w \in Workers : pc[w] = "taken") => LiveHead = Succ(head)
         /\ (\A w \in Workers : pc[w] # "taken") => LiveHead = head
         /\ LiveHead \in Slots
  BY SuccType DEF TypeOK, LiveHead

-----------------------------------------------------------------------------
\* A step that leaves the tasks where they are.
LEMMA QuietKeeps ==
  ASSUME SlotInv, TaskInv, accepted \subseteq Tasks, LiveHead' = LiveHead,
         \A w \in Workers : Holds(w)' <=> Holds(w),
         UNCHANGED <<workstodo, tail, work_next, executed, accepted>>,
         \A t \in Tasks : t < next => t < next'
  PROVE  SlotInv' /\ TaskInv'
<1>1. \A k \in Slots : Live(k)' <=> Live(k)
  BY DEF Live
<1>2. SlotInv'
  BY <1>1 DEF SlotInv
<1>3. TaskInv'
  BY <1>1 DEF TaskInv
<1> QED  BY <1>2, <1>3

(* One lemma per action. *)

\* A worker looks at the token.
LEMMA LoadTokenKeeps ==
  ASSUME IInv, NEW w \in Workers, LoadToken(w)
  PROVE  IInv'
<1>1. TypeOK /\ MutexInv /\ ClientInv
  BY DEF IInv
<1>2. TypeOK'
  BY <1>1 DEF TypeOK, WorkerPCs, LoadToken, Goto, queueVars, clientVars, historyVars
<1>3. MutexInv'
  BY <1>1 DEF TypeOK, MutexInv, WorkerInside, MainInside, LoadToken, Goto, queueVars, clientVars, historyVars
<1>4. ClientInv'
  BY <1>1 DEF TypeOK, ClientInv, MainInside, LoadToken, Goto, queueVars, clientVars, historyVars
<1>5. ASSUME ~underflow'  PROVE QueueInv'
  <2>1. ~underflow /\ SlotInv /\ HandInv /\ TaskInv /\ ShutdownInv
    BY <1>1, <1>5 DEF TypeOK, IInv, QueueInv, LoadToken, historyVars
  <2>2. LiveHead' = LiveHead
    BY <1>1 DEF TypeOK, LiveHead, LoadToken, Goto, queueVars
  <2>3. \A v \in Workers : Holds(v)' <=> Holds(v)
    BY <1>1 DEF TypeOK, Holds, LoadToken, Goto
  <2>4. UNCHANGED <<workstodo, tail, work_next, executed, accepted>>
    BY DEF LoadToken, queueVars, historyVars
  <2>5. \A t \in Tasks : t < next => t < next'
    BY DEF LoadToken, clientVars
  <2>6. SlotInv' /\ TaskInv'
    BY <1>1, <2>1, <2>2, <2>3, <2>4, <2>5, QuietKeeps DEF TypeOK
  <2>7. HandInv'
    BY <1>1, <2>1, <2>3, <2>4 DEF TypeOK, HandInv, LoadToken, Goto, queueVars
  <2>8. ShutdownInv'
    BY <1>1, <2>1 DEF TypeOK, ShutdownInv, LoadToken, queueVars, clientVars
  <2> QED  BY <2>6, <2>7, <2>8 DEF QueueInv
<1> QED  BY <1>2, <1>3, <1>4, <1>5 DEF IInv

\* It loads head ...
LEMMA LoadHeadKeeps ==
  ASSUME IInv, NEW w \in Workers, LoadHead(w)
  PROVE  IInv'
<1>1. TypeOK /\ MutexInv /\ ClientInv
  BY DEF IInv
<1>2. TypeOK'
  BY <1>1 DEF TypeOK, WorkerPCs, LoadHead, Goto, queueVars, clientVars, historyVars
<1>3. MutexInv'
  BY <1>1 DEF TypeOK, MutexInv, WorkerInside, MainInside, LoadHead, Goto, queueVars, clientVars, historyVars
<1>4. ClientInv'
  BY <1>1 DEF TypeOK, ClientInv, MainInside, LoadHead, Goto, queueVars, clientVars, historyVars
<1>5. ASSUME ~underflow'  PROVE QueueInv'
  <2>1. ~underflow /\ SlotInv /\ HandInv /\ TaskInv /\ ShutdownInv
    BY <1>1, <1>5 DEF TypeOK, IInv, QueueInv, LoadHead, historyVars
  <2>2. LiveHead' = LiveHead
    BY <1>1 DEF TypeOK, LiveHead, LoadHead, Goto, queueVars
  <2>3. \A v \in Workers : Holds(v)' <=> Holds(v)
    BY <1>1 DEF TypeOK, Holds, LoadHead, Goto
  <2>4. UNCHANGED <<workstodo, tail, work_next, executed, accepted>>
    BY DEF LoadHead, queueVars, historyVars
  <2>5. \A t \in Tasks : t < next => t < next'
    BY DEF LoadHead, clientVars
  <2>6. SlotInv' /\ TaskInv'
    BY <1>1, <2>1, <2>2, <2>3, <2>4, <2>5, QuietKeeps DEF TypeOK
  <2>7. HandInv'
    BY <1>1, <2>1, <2>3, <2>4 DEF TypeOK, HandInv, LoadHead, Goto, queueVars
  <2>8. ShutdownInv'
    BY <1>1, <2>1 DEF TypeOK, ShutdownInv, LoadHead, queueVars, clientVars
  <2> QED  BY <2>6, <2>7, <2>8 DEF QueueInv
<1> QED  BY <1>2, <1>3, <1>4, <1>5 DEF IInv

\* ... and tail, and goes on to the mutex if they differ.
LEMMA LoadTailKeeps ==
  ASSUME IInv, NEW w \in Workers, LoadTail(w)
  PROVE  IInv'
<1>1. TypeOK /\ MutexInv /\ ClientInv
  BY DEF IInv
<1>2. TypeOK'
  BY <1>1, Ring DEF TypeOK, WorkerPCs, LoadTail, Goto, queueVars, clientVars, historyVars
<1>3. MutexInv'
  BY <1>1 DEF TypeOK, MutexInv, WorkerInside, MainInside, LoadTail, Goto, queueVars, clientVars, historyVars
<1>4. ClientInv'
  BY <1>1 DEF TypeOK, ClientInv, MainInside, LoadTail, Goto, queueVars, clientVars, historyVars
<1>5. ASSUME ~underflow'  PROVE QueueInv'
  <2>1. ~underflow /\ SlotInv /\ HandInv /\ TaskInv /\ ShutdownInv
    BY <1>1, <1>5 DEF TypeOK, IInv, QueueInv, LoadTail, historyVars
  <2>2. LiveHead' = LiveHead
    BY <1>1 DEF TypeOK, LiveHead, LoadTail, Goto, queueVars
  <2>3. \A v \in Workers : Holds(v)' <=> Holds(v)
    BY <1>1 DEF TypeOK, Holds, LoadTail, Goto
  <2>4. UNCHANGED <<workstodo, tail, work_next, executed, accepted>>
    BY DEF LoadTail, queueVars, historyVars
  <2>5. \A t \in Tasks : t < next => t < next'
    BY DEF LoadTail, clientVars
  <2>6. SlotInv' /\ TaskInv'
    BY <1>1, <2>1, <2>2, <2>3, <2>4, <2>5, QuietKeeps DEF TypeOK
  <2>7. HandInv'
    BY <1>1, <2>1, <2>3, <2>4 DEF TypeOK, HandInv, LoadTail, Goto, queueVars
  <2>8. ShutdownInv'
    BY <1>1, <2>1 DEF TypeOK, ShutdownInv, LoadTail, queueVars, clientVars
  <2> QED  BY <2>6, <2>7, <2>8 DEF QueueInv
<1> QED  BY <1>2, <1>3, <1>4, <1>5 DEF IInv

\* It gets the mutex.
LEMMA LockQueueKeeps ==
  ASSUME IInv, NEW w \in Workers, LockQueue(w)
  PROVE  IInv'
<1>1. TypeOK /\ MutexInv /\ ClientInv
  BY DEF IInv
<1>2. TypeOK'
  BY <1>1 DEF TypeOK, WorkerPCs, LockQueue, Goto, queueVars, clientVars, historyVars
<1>3. MutexInv'
  BY <1>1 DEF TypeOK, MutexInv, WorkerInside, MainInside, LockQueue, Goto, queueVars, clientVars, historyVars
<1>4. ClientInv'
  BY <1>1 DEF TypeOK, ClientInv, MainInside, LockQueue, Goto, queueVars, clientVars, historyVars
<1>5. ASSUME ~underflow'  PROVE QueueInv'
  <2>1. ~underflow /\ SlotInv /\ HandInv /\ TaskInv /\ ShutdownInv
    BY <1>1, <1>5 DEF TypeOK, IInv, QueueInv, LockQueue, historyVars
  <2>2. LiveHead' = LiveHead
    BY <1>1 DEF TypeOK, LiveHead, LockQueue, Goto, queueVars
  <2>3. \A v \in Workers : Holds(v)' <=> Holds(v)
    BY <1>1 DEF TypeOK, Holds, LockQueue, Goto
  <2>4. UNCHANGED <<workstodo, tail, work_next, executed, accepted>>
    BY DEF LockQueue, queueVars, historyVars
  <2>5. \A t \in Tasks : t < next => t < next'
    BY DEF LockQueue, clientVars
  <2>6. SlotInv' /\ TaskInv'
    BY <1>1, <2>1, <2>2, <2>3, <2>4, <2>5, QuietKeeps DEF TypeOK
  <2>7. HandInv'
    BY <1>1, <2>1, <2>3, <2>4 DEF TypeOK, HandInv, LockQueue, Goto, queueVars
  <2>8. ShutdownInv'
    BY <1>1, <2>1 DEF TypeOK, ShutdownInv, LockQueue, queueVars, clientVars
  <2> QED  BY <2>6, <2>7, <2>8 DEF QueueInv
<1> QED  BY <1>2, <1>3, <1>4, <1>5 DEF IInv

\* It copies the slot at head: the task goes from the queue to the worker.
LEMMA TakeSlotKeeps ==
  ASSUME IInv, NEW w \in Workers, TakeSlot(w)
  PROVE  IInv'
<1>1. TypeOK /\ MutexInv /\ ClientInv
  BY DEF IInv
<1>2. workstodo[head] \in Tasks \cup {NULL}
  BY <1>1 DEF TypeOK
<1>3. TypeOK'
  BY <1>1, <1>2 DEF TypeOK, WorkerPCs, TakeSlot, Goto, queueVars, clientVars
<1>4. MutexInv'
  BY <1>1 DEF TypeOK, MutexInv, WorkerInside, MainInside, TakeSlot, Goto, queueVars, clientVars
<1>5. ClientInv'
  BY <1>1 DEF TypeOK, ClientInv, MainInside, TakeSlot, Goto, queueVars, clientVars
<1>6. ASSUME ~underflow'  PROVE QueueInv'
  <2>1. ~underflow /\ SlotInv /\ HandInv /\ TaskInv /\ ShutdownInv
    BY <1>1, <1>6 DEF TypeOK, IInv, QueueInv, TakeSlot, historyVars
  <2>2. head # tail /\ head \in Slots /\ tail \in Slots
    BY <1>1, <1>6 DEF TypeOK, TakeSlot
  <2>3. LiveHead = head
    BY <1>1, LiveHeadIs DEF MutexInv, WorkerInside, TakeSlot, Goto
  <2>4. LiveHead' = Succ(head)
    BY <1>1 DEF TypeOK, LiveHead, TakeSlot, Goto, queueVars
  <2>5. \A k \in Slots : Live(k)' <=> Live(k) /\ k # head
    BY <2>2, <2>3, <2>4, BetweenMoves DEF Live, TakeSlot, queueVars
  <2>6. Live(head) /\ work_next'[w] = workstodo[head] /\ pc'[w] = "taken" /\ ~Holds(w)
    BY <1>1, <2>2, <2>3, BetweenMoves DEF TypeOK, Live, Holds, TakeSlot, Goto
  <2>7. \A v \in Workers \ {w} : pc'[v] = pc[v] /\ work_next'[v] = work_next[v]
    BY <1>1 DEF TypeOK, TakeSlot, Goto
  <2>8. SlotInv'
    BY <2>1, <2>2, <2>5, <2>6, <2>7 DEF SlotInv, Holds, TakeSlot, queueVars
  <2>9. HandInv'
    BY <2>1, <2>2, <2>6, <2>7 DEF SlotInv, HandInv, Holds, TakeSlot, queueVars
  <2>10. TaskInv'
    <3>1. ASSUME NEW t \in accepted
          PROVE  \/ executed[t] = 1
                 \/ \E k \in Slots : Live(k)' /\ workstodo[k] = t
                 \/ \E v \in Workers : Holds(v)' /\ work_next'[v] = t
      <4>1. CASE executed[t] = 1
        BY <4>1
      <4>2. CASE \E k \in Slots : Live(k) /\ workstodo[k] = t
        BY <4>2, <2>5, <2>6 DEF Holds
      <4>3. CASE \E v \in Workers : Holds(v) /\ work_next[v] = t
        BY <4>3, <2>6, <2>7 DEF Holds
      <4> QED  BY <2>1, <4>1, <4>2, <4>3 DEF TaskInv
    <3> QED  BY <2>1, <3>1 DEF TaskInv, TakeSlot, queueVars, clientVars
  <2>11. ShutdownInv'
    BY <2>1 DEF ShutdownInv, TakeSlot, queueVars, clientVars
  <2> QED  BY <2>8, <2>9, <2>10, <2>11 DEF QueueInv
<1> QED  BY <1>3, <1>4, <1>5, <1>6 DEF IInv

\* It moves head on; the queue begins there already.
LEMMA AdvanceHeadKeeps ==
  ASSUME IInv, NEW w \in Workers, AdvanceHead(w)
  PROVE  IInv'
<1>1. TypeOK /\ MutexInv /\ ClientInv
  BY DEF IInv
<1>2. TypeOK'
  BY <1>1, SuccType DEF TypeOK, WorkerPCs, AdvanceHead, Goto, clientVars, historyVars
<1>3. MutexInv'
  BY <1>1 DEF TypeOK, MutexInv, WorkerInside, MainInside, AdvanceHead, Goto, clientVars, historyVars
<1>4. ClientInv'
  BY <1>1 DEF TypeOK, MutexInv, ClientInv, WorkerInside, MainInside, AdvanceHead, Goto, clientVars, historyVars
<1>5. ASSUME ~underflow'  PROVE QueueInv'
  <2>1. ~underflow /\ SlotInv /\ HandInv /\ TaskInv /\ ShutdownInv
    BY <1>1, <1>5 DEF TypeOK, IInv, QueueInv, AdvanceHead, historyVars
  <2>2. LiveHead = Succ(head) /\ LiveHead' = Succ(head)
    BY <1>1, LiveHeadIs DEF TypeOK, MutexInv, WorkerInside, LiveHead, AdvanceHead, Goto
  <2>3. \A v \in Workers : Holds(v)' <=> Holds(v)
    BY <1>1 DEF TypeOK, Holds, AdvanceHead, Goto
  <2>4. UNCHANGED <<workstodo, tail, work_next, executed, accepted>>
    BY DEF AdvanceHead, historyVars
  <2>5. \A t \in Tasks : t < next => t < next'
    BY DEF AdvanceHead, clientVars
  <2>6. SlotInv' /\ TaskInv'
    BY <1>1, <2>1, <2>2, <2>3, <2>4, <2>5, QuietKeeps DEF TypeOK
  <2>7. HandInv'
    BY <1>1, <2>1, <2>3, <2>4 DEF TypeOK, HandInv, MutexInv, WorkerInside, AdvanceHead, Goto
  <2>8. ShutdownInv'
    BY <2>1 DEF HandInv, ShutdownInv, AdvanceHead, Goto, clientVars
  <2> QED  BY <2>6, <2>7, <2>8 DEF QueueInv
<1> QED  BY <1>2, <1>3, <1>4, <1>5 DEF IInv

\* The task it holds becomes an executed one.
LEMMA ExecuteKeeps ==
  ASSUME IInv, NEW w \in Workers, Execute(w)
  PROVE  IInv'
<1>1. TypeOK /\ MutexInv /\ ClientInv
  BY DEF IInv
<1>2. work_next[w] \in Tasks
  BY <1>1 DEF TypeOK, Execute
<1>3. TypeOK'
  BY <1>1, <1>2 DEF TypeOK, WorkerPCs, Execute, Goto, queueVars, clientVars
<1>4. MutexInv'
  BY <1>1 DEF TypeOK, MutexInv, WorkerInside, MainInside, Execute, Goto, queueVars, clientVars
<1>5. ClientInv'
  BY <1>1 DEF TypeOK, ClientInv, MainInside, Execute, Goto, queueVars, clientVars
<1>6. ASSUME ~underflow'  PROVE QueueInv'
  <2>1. ~underflow /\ SlotInv /\ HandInv /\ TaskInv /\ ShutdownInv
    BY <1>1, <1>6 DEF TypeOK, IInv, QueueInv, Execute, historyVars
  <2>2. LiveHead' = LiveHead
    BY <1>1 DEF TypeOK, LiveHead, Execute, Goto, queueVars
  <2>3. \A k \in Slots : Live(k)' <=> Live(k)
    BY <2>2 DEF Live, Execute, queueVars
  <2>4. /\ Holds(w) /\ ~Holds(w)' /\ executed'[work_next[w]] = 1 /\ work_next[w] \in accepted
        /\ \A t \in Tasks \ {work_next[w]} : executed'[t] = executed[t]
        /\ \A v \in Workers \ {w} : pc'[v] = pc[v]
    BY <1>1, <1>2, <2>1 DEF TypeOK, HandInv, Holds, Execute, Goto
  <2>5. accepted \subseteq Tasks
    BY <1>1 DEF TypeOK
  <2>6. SlotInv'
    BY <2>1, <2>3, <2>4, <2>5 DEF SlotInv, Holds, Execute, queueVars
  <2>7. HandInv'
    BY <2>1, <2>4, <2>5 DEF HandInv, Holds, Execute, queueVars
  <2>8. TaskInv'
    <3>1. ASSUME NEW t \in accepted
          PROVE  \/ executed'[t] = 1
                 \/ \E k \in Slots : Live(k)' /\ workstodo[k] = t
                 \/ \E v \in Workers : Holds(v)' /\ work_next[v] = t
      <4>1. CASE t = work_next[w]
        BY <4>1, <2>4
      <4>2. CASE t # work_next[w]
        BY <4>2, <2>1, <2>3, <2>4, <2>5 DEF TaskInv, Holds
      <4> QED  BY <4>1, <4>2
    <3> QED  BY <2>1, <2>4, <3>1 DEF TaskInv, Execute, queueVars, clientVars
  <2>9. ShutdownInv'
    BY <2>1 DEF ShutdownInv, Execute, queueVars, clientVars
  <2> QED  BY <2>6, <2>7, <2>8, <2>9 DEF QueueInv
<1> QED  BY <1>3, <1>4, <1>5, <1>6 DEF IInv

\* A null function ends the process.
LEMMA ExecuteNullKeeps ==
  ASSUME IInv, NEW w \in Workers, ExecuteNull(w)
  PROVE  IInv'
<1>1. TypeOK /\ MutexInv /\ ClientInv
  BY DEF IInv
<1>2. TypeOK'
  BY <1>1 DEF TypeOK, WorkerPCs, ExecuteNull, queueVars, workerVars, clientVars, historyVars
<1>3. MutexInv'
  BY <1>1 DEF TypeOK, MutexInv, WorkerInside, MainInside, ExecuteNull, queueVars, workerVars, clientVars, historyVars
<1>4. ClientInv'
  BY <1>1 DEF TypeOK, ClientInv, MainInside, ExecuteNull, queueVars, workerVars, clientVars, historyVars
<1>5. ASSUME ~underflow'  PROVE QueueInv'
  <2>1. ~underflow /\ SlotInv /\ HandInv /\ TaskInv /\ ShutdownInv
    BY <1>1, <1>5 DEF TypeOK, IInv, QueueInv, ExecuteNull, historyVars
  <2>2. LiveHead' = LiveHead
    BY <1>1 DEF TypeOK, LiveHead, ExecuteNull, queueVars, workerVars
  <2>3. \A v \in Workers : Holds(v)' <=> Holds(v)
    BY <1>1 DEF TypeOK, Holds, ExecuteNull, workerVars
  <2>4. UNCHANGED <<workstodo, tail, work_next, executed, accepted>>
    BY DEF ExecuteNull, queueVars, workerVars, historyVars
  <2>5. \A t \in Tasks : t < next => t < next'
    BY DEF ExecuteNull, clientVars
  <2>6. SlotInv' /\ TaskInv'
    BY <1>1, <2>1, <2>2, <2>3, <2>4, <2>5, QuietKeeps DEF TypeOK
  <2>7. HandInv'
    BY <1>1, <2>1, <2>3, <2>4 DEF TypeOK, HandInv, ExecuteNull, queueVars, workerVars
  <2>8. ShutdownInv'
    BY <1>1, <2>1 DEF TypeOK, ShutdownInv, ExecuteNull, queueVars, clientVars
  <2> QED  BY <2>6, <2>7, <2>8 DEF QueueInv
<1> QED  BY <1>2, <1>3, <1>4, <1>5 DEF IInv

\* The client gets the mutex.
LEMMA LockSubmitKeeps ==
  ASSUME IInv, LockSubmit
  PROVE  IInv'
<1>1. TypeOK /\ MutexInv /\ ClientInv
  BY DEF IInv
<1>2. TypeOK'
  BY <1>1 DEF TypeOK, MainPCs, LockSubmit, queueVars, workerVars, historyVars
<1>3. MutexInv'
  BY <1>1 DEF TypeOK, MutexInv, WorkerInside, MainInside, LockSubmit, queueVars, workerVars, historyVars
<1>4. ClientInv'
  BY <1>1 DEF TypeOK, ClientInv, MainInside, LockSubmit, queueVars, workerVars, historyVars
<1>5. ASSUME ~underflow'  PROVE QueueInv'
  <2>1. ~underflow /\ SlotInv /\ HandInv /\ TaskInv /\ ShutdownInv
    BY <1>1, <1>5 DEF TypeOK, IInv, QueueInv, LockSubmit, historyVars
  <2>2. LiveHead' = LiveHead
    BY <1>1 DEF TypeOK, LiveHead, LockSubmit, queueVars, workerVars
  <2>3. \A v \in Workers : Holds(v)' <=> Holds(v)
    BY <1>1 DEF TypeOK, Holds, LockSubmit, workerVars
  <2>4. UNCHANGED <<workstodo, tail, work_next, executed, accepted>>
    BY DEF LockSubmit, queueVars, workerVars, historyVars
  <2>5. \A t \in Tasks : t < next => t < next'
    BY DEF LockSubmit
  <2>6. SlotInv' /\ TaskInv'
    BY <1>1, <2>1, <2>2, <2>3, <2>4, <2>5, QuietKeeps DEF TypeOK
  <2>7. HandInv'
    BY <1>1, <2>1, <2>3, <2>4 DEF TypeOK, HandInv, LockSubmit, queueVars, workerVars
  <2>8. ShutdownInv'
    BY <1>1, <2>1 DEF TypeOK, ShutdownInv, LockSubmit, queueVars
  <2> QED  BY <2>6, <2>7, <2>8 DEF QueueInv
<1> QED  BY <1>2, <1>3, <1>4, <1>5 DEF IInv

\* The queue is full: the task is dropped.
LEMMA EnqueueFullKeeps ==
  ASSUME IInv, EnqueueFull
  PROVE  IInv'
<1>1. TypeOK /\ MutexInv /\ ClientInv
  BY DEF IInv
<1>2. next \in 1..NUM_WORK /\ next + 1 \in 1..(NUM_WORK + 1)
  BY <1>1, PoolAssumption DEF TypeOK, ClientInv, MainInside, EnqueueFull
<1>3. TypeOK'
  BY <1>1, <1>2 DEF TypeOK, MainPCs, EnqueueFull, queueVars, workerVars, historyVars
<1>4. MutexInv'
  BY <1>1 DEF TypeOK, MutexInv, WorkerInside, MainInside, EnqueueFull, queueVars, workerVars, historyVars
<1>5. ClientInv'
  BY <1>1 DEF TypeOK, ClientInv, MainInside, EnqueueFull, queueVars, workerVars, historyVars
<1>6. ASSUME ~underflow'  PROVE QueueInv'
  <2>1. ~underflow /\ SlotInv /\ HandInv /\ TaskInv /\ ShutdownInv
    BY <1>1, <1>6 DEF TypeOK, IInv, QueueInv, EnqueueFull, historyVars
  <2>2. LiveHead' = LiveHead
    BY <1>1 DEF TypeOK, LiveHead, EnqueueFull, queueVars, workerVars
  <2>3. \A v \in Workers : Holds(v)' <=> Holds(v)
    BY <1>1 DEF TypeOK, Holds, EnqueueFull, workerVars
  <2>4. UNCHANGED <<workstodo, tail, work_next, executed, accepted>>
    BY DEF EnqueueFull, queueVars, workerVars, historyVars
  <2>5. \A t \in Tasks : t < next => t < next'
    BY <1>2 DEF Tasks, EnqueueFull
  <2>6. SlotInv' /\ TaskInv'
    BY <1>1, <2>1, <2>2, <2>3, <2>4, <2>5, QuietKeeps DEF TypeOK
  <2>7. HandInv'
    BY <1>1, <2>1, <2>3, <2>4 DEF TypeOK, HandInv, EnqueueFull, queueVars, workerVars
  <2>8. ShutdownInv'
    BY <1>1, <2>1 DEF TypeOK, ShutdownInv, EnqueueFull, queueVars
  <2> QED  BY <2>6, <2>7, <2>8 DEF QueueInv
<1> QED  BY <1>3, <1>4, <1>5, <1>6 DEF IInv

\* The task is written next to the queue ...
LEMMA StoreTaskKeeps ==
  ASSUME IInv, StoreTask
  PROVE  IInv'
<1>1. TypeOK /\ MutexInv /\ ClientInv
  BY DEF IInv
<1>2. next \in Tasks /\ next \in Nat
  BY <1>1, PoolAssumption DEF TypeOK, ClientInv, MainInside, Tasks, StoreTask
<1>3. TypeOK'
  BY <1>1, <1>2, SuccType DEF TypeOK, MainPCs, StoreTask, workerVars, historyVars
<1>4. MutexInv'
  BY <1>1 DEF TypeOK, MutexInv, WorkerInside, MainInside, StoreTask, workerVars, historyVars
<1>5. ClientInv'
  BY <1>1 DEF TypeOK, ClientInv, MainInside, StoreTask, workerVars, historyVars
<1>6. ASSUME ~underflow'  PROVE QueueInv'
  <2>1. ~underflow /\ SlotInv /\ HandInv /\ TaskInv /\ ShutdownInv
    BY <1>1, <1>6 DEF TypeOK, IInv, QueueInv, StoreTask, historyVars
  <2>2. LiveHead' = LiveHead
    BY <1>1 DEF TypeOK, LiveHead, StoreTask, workerVars
  <2>3. \A k \in Slots : Live(k)' <=> Live(k)
    BY <2>2 DEF Live, StoreTask
  <2>4. \A k \in Slots : Live(k) => workstodo'[k] = workstodo[k]
    BY <1>1, LiveHeadIs, BetweenMoves DEF TypeOK, Live, StoreTask
  <2>5. \A v \in Workers : Holds(v)' <=> Holds(v)
    BY DEF Holds, StoreTask, workerVars
  <2>6. SlotInv'
    BY <2>1, <2>3, <2>4, <2>5 DEF SlotInv, StoreTask, workerVars, historyVars
  <2>7. HandInv'
    BY <2>1, <2>5 DEF HandInv, StoreTask, workerVars, historyVars
  <2>8. TaskInv'
    BY <2>1, <2>3, <2>4, <2>5 DEF TaskInv, StoreTask, workerVars, historyVars
  <2>9. ShutdownInv'
    BY <1>1, <2>1 DEF TypeOK, ShutdownInv, StoreTask
  <2> QED  BY <2>6, <2>7, <2>8, <2>9 DEF QueueInv
<1> QED  BY <1>3, <1>4, <1>5, <1>6 DEF IInv

\* ... and put into it.
LEMMA AdvanceTailKeeps ==
  ASSUME IInv, AdvanceTail
  PROVE  IInv'
<1>1. TypeOK /\ MutexInv /\ ClientInv
  BY DEF IInv
<1>2. next \in Tasks /\ next \in Nat
  BY <1>1, PoolAssumption DEF TypeOK, ClientInv, MainInside, Tasks, AdvanceTail
<1>3. next + 1 \in 1..(NUM_WORK + 1)
  BY <1>2, PoolAssumption DEF Tasks
<1>4. TypeOK'
  BY <1>1, <1>2, SuccType, <1>3 DEF TypeOK, MainPCs, AdvanceTail, workerVars
<1>5. MutexInv'
  BY <1>1 DEF TypeOK, MutexInv, WorkerInside, MainInside, AdvanceTail, workerVars
<1>6. ClientInv'
  BY <1>1 DEF ClientInv, MainInside, AdvanceTail, workerVars
<1>7. ASSUME ~underflow'  PROVE QueueInv'
  <2>1. ~underflow /\ SlotInv /\ HandInv /\ TaskInv /\ ShutdownInv
    BY <1>1, <1>7 DEF TypeOK, IInv, QueueInv, AdvanceTail, historyVars
  <2>2. /\ Succ(tail) # head /\ head \in Slots /\ tail \in Slots /\ workstodo[tail] = next
        /\ \A v \in Workers : pc[v] # "taken"
    BY <1>1 DEF TypeOK, MutexInv, WorkerInside, MainInside, ClientInv, AdvanceTail
  <2>3. LiveHead = head /\ LiveHead' = head
    BY <2>2, <1>1, LiveHeadIs DEF LiveHead, AdvanceTail, workerVars
  <2>4. \A k \in Slots : Live(k)' <=> Live(k) \/ k = tail
    BY <2>2, <2>3, BetweenMoves DEF Live, AdvanceTail
  <2>5. next \notin accepted /\ executed[next] = 0 /\ ~Live(tail)
    BY <1>2, <2>1, <2>2, BetweenMoves, <2>3 DEF TaskInv, Live
  <2>6. SlotInv'
    BY <2>1, <2>2, <2>4, <2>5 DEF SlotInv, HandInv, Holds, AdvanceTail, workerVars
  <2>7. HandInv'
    BY <2>1, <2>2 DEF HandInv, Holds, AdvanceTail, workerVars
  <2>8. TaskInv'
    <3>1. \A t \in accepted' : t < next'
      BY <1>1, <1>2, <2>1, PoolAssumption DEF TypeOK, TaskInv, Tasks, AdvanceTail
    <3>2. ASSUME NEW t \in accepted'
          PROVE  \/ executed[t] = 1
                 \/ \E k \in Slots : Live(k)' /\ workstodo[k] = t
                 \/ \E v \in Workers : Holds(v) /\ work_next[v] = t
      <4>1. CASE t = next
        BY <4>1, <2>2, <2>4
      <4>2. CASE t \in accepted
        BY <4>2, <2>1, <2>4 DEF TaskInv
      <4> QED  BY <4>1, <4>2 DEF AdvanceTail
    <3> QED  BY <2>1, <3>1, <3>2 DEF TaskInv, Holds, AdvanceTail, workerVars
  <2>9. ShutdownInv'
    BY DEF ShutdownInv, AdvanceTail
  <2> QED  BY <2>6, <2>7, <2>8, <2>9 DEF QueueInv
<1> QED  BY <1>4, <1>5, <1>6, <1>7 DEF IInv

\* The client loads head ...
LEMMA ShutdownLoadHeadKeeps ==
  ASSUME IInv, ShutdownLoadHead
  PROVE  IInv'
<1>1. TypeOK /\ MutexInv /\ ClientInv
  BY DEF IInv
<1>2. TypeOK'
  BY <1>1 DEF TypeOK, MainPCs, ShutdownLoadHead, queueVars, workerVars, historyVars
<1>3. MutexInv'
  BY <1>1 DEF TypeOK, MutexInv, WorkerInside, MainInside, ShutdownLoadHead, queueVars, workerVars, historyVars
<1>4. ClientInv'
  BY <1>1, PoolAssumption DEF TypeOK, ClientInv, MainInside, ShutdownLoadHead, queueVars, workerVars, historyVars
<1>5. ASSUME ~underflow'  PROVE QueueInv'
  <2>1. ~underflow /\ SlotInv /\ HandInv /\ TaskInv /\ ShutdownInv
    BY <1>1, <1>5 DEF TypeOK, IInv, QueueInv, ShutdownLoadHead, historyVars
  <2>2. LiveHead' = LiveHead
    BY <1>1 DEF TypeOK, LiveHead, ShutdownLoadHead, queueVars, workerVars
  <2>3. \A v \in Workers : Holds(v)' <=> Holds(v)
    BY <1>1 DEF TypeOK, Holds, ShutdownLoadHead, workerVars
  <2>4. UNCHANGED <<workstodo, tail, work_next, executed, accepted>>
    BY DEF ShutdownLoadHead, queueVars, workerVars, historyVars
  <2>5. \A t \in Tasks : t < next => t < next'
    BY DEF ShutdownLoadHead
  <2>6. SlotInv' /\ TaskInv'
    BY <1>1, <2>1, <2>2, <2>3, <2>4, <2>5, QuietKeeps DEF TypeOK
  <2>7. HandInv'
    BY <1>1, <2>1, <2>3, <2>4 DEF TypeOK, HandInv, ShutdownLoadHead, queueVars, workerVars
  <2>8. ShutdownInv'
    BY <1>1, <2>1 DEF TypeOK, ShutdownInv, ShutdownLoadHead, queueVars
  <2> QED  BY <2>6, <2>7, <2>8 DEF QueueInv
<1> QED  BY <1>2, <1>3, <1>4, <1>5 DEF IInv

\* ... and tail, and clears the token if they are equal.
LEMMA ShutdownLoadTailKeeps ==
  ASSUME IInv, ShutdownLoadTail
  PROVE  IInv'
<1>1. TypeOK /\ MutexInv /\ ClientInv
  BY DEF IInv
<1>2. TypeOK'
  BY <1>1, Ring DEF TypeOK, MainPCs, ShutdownLoadTail, queueVars, workerVars, historyVars
<1>3. MutexInv'
  BY <1>1 DEF TypeOK, MutexInv, WorkerInside, MainInside, ShutdownLoadTail, queueVars, workerVars, historyVars
<1>4. ClientInv'
  BY <1>1 DEF TypeOK, ClientInv, MainInside, ShutdownLoadTail, queueVars, workerVars, historyVars
<1>5. ASSUME ~underflow'  PROVE QueueInv'
  <2>1. ~underflow /\ SlotInv /\ HandInv /\ TaskInv /\ ShutdownInv
    BY <1>1, <1>5 DEF TypeOK, IInv, QueueInv, ShutdownLoadTail, historyVars
  <2>2. LiveHead' = LiveHead
    BY <1>1 DEF TypeOK, LiveHead, ShutdownLoadTail, queueVars, workerVars
  <2>3. \A v \in Workers : Holds(v)' <=> Holds(v)
    BY <1>1 DEF TypeOK, Holds, ShutdownLoadTail, workerVars
  <2>4. UNCHANGED <<workstodo, tail, work_next, executed, accepted>>
    BY DEF ShutdownLoadTail, queueVars, workerVars, historyVars
  <2>5. \A t \in Tasks : t < next => t < next'
    BY DEF ShutdownLoadTail
  <2>6. SlotInv' /\ TaskInv'
    BY <1>1, <2>1, <2>2, <2>3, <2>4, <2>5, QuietKeeps DEF TypeOK
  <2>7. HandInv'
    BY <1>1, <2>1, <2>3, <2>4 DEF TypeOK, HandInv, ShutdownLoadTail, queueVars, workerVars
  <2>8. ShutdownInv'
    BY <1>1, <2>1 DEF TypeOK, ShutdownInv, ShutdownLoadTail, queueVars
  <2> QED  BY <2>6, <2>7, <2>8 DEF QueueInv
<1> QED  BY <1>2, <1>3, <1>4, <1>5 DEF IInv

\* All workers have ended.
LEMMA JoinKeeps ==
  ASSUME IInv, Join
  PROVE  IInv'
<1>1. TypeOK /\ MutexInv /\ ClientInv
  BY DEF IInv
<1>2. TypeOK'
  BY <1>1 DEF TypeOK, MainPCs, Join, queueVars, workerVars, historyVars
<1>3. MutexInv'
  BY <1>1 DEF TypeOK, MutexInv, WorkerInside, MainInside, Join, queueVars, workerVars, historyVars
<1>4. ClientInv'
  BY <1>1 DEF TypeOK, ClientInv, MainInside, Join, queueVars, workerVars, historyVars
<1>5. ASSUME ~underflow'  PROVE QueueInv'
  <2>1. ~underflow /\ SlotInv /\ HandInv /\ TaskInv /\ ShutdownInv
    BY <1>1, <1>5 DEF TypeOK, IInv, QueueInv, Join, historyVars
  <2>2. LiveHead' = LiveHead
    BY <1>1 DEF TypeOK, LiveHead, Join, queueVars, workerVars
  <2>3. \A v \in Workers : Holds(v)' <=> Holds(v)
    BY <1>1 DEF TypeOK, Holds, Join, workerVars
  <2>4. UNCHANGED <<workstodo, tail, work_next, executed, accepted>>
    BY DEF Join, queueVars, workerVars, historyVars
  <2>5. \A t \in Tasks : t < next => t < next'
    BY DEF Join
  <2>6. SlotInv' /\ TaskInv'
    BY <1>1, <2>1, <2>2, <2>3, <2>4, <2>5, QuietKeeps DEF TypeOK
  <2>7. HandInv'
    BY <1>1, <2>1, <2>3, <2>4 DEF TypeOK, HandInv, Join, queueVars, workerVars
  <2>8. ShutdownInv'
    BY <1>1, <2>1 DEF TypeOK, ShutdownInv, Join, queueVars
  <2> QED  BY <2>6, <2>7, <2>8 DEF QueueInv
<1> QED  BY <1>2, <1>3, <1>4, <1>5 DEF IInv

\* Nothing moves.
LEMMA StandstillKeeps ==
  ASSUME IInv, UNCHANGED vars
  PROVE  IInv'
<1>1. LiveHead' = LiveHead
  BY DEF LiveHead, vars, queueVars, workerVars
<1>2. \A k \in Slots : Live(k)' <=> Live(k)
  BY <1>1 DEF Live, vars, queueVars
<1>3. TypeOK' /\ MutexInv' /\ ClientInv'
  BY DEF IInv, TypeOK, MutexInv, ClientInv, WorkerInside, MainInside,
         vars, queueVars, workerVars, clientVars, historyVars
<1>4. QueueInv => QueueInv'
  BY <1>2 DEF QueueInv, SlotInv, HandInv, TaskInv, ShutdownInv, Holds,
              vars, queueVars, workerVars, clientVars, historyVars
<1> QED  BY <1>3, <1>4 DEF IInv, vars, historyVars

\* In the initial state the queue is empty and nothing has been accepted.
LEMMA InitHolds == Init => IInv
<1> SUFFICES ASSUME Init  PROVE IInv
  OBVIOUS
<1>1. TypeOK
  <2>1. 0 \in Slots /\ 1 \in 1..(NUM_WORK + 1)
    BY Ring, PoolAssumption
  <2>2. /\ workstodo \in [Slots -> Tasks \cup {NULL}] /\ executed \in [Tasks -> 0..2]
        /\ pc \in [Workers -> WorkerPCs] /\ seen \in [Workers -> Slots]
        /\ work_next \in [Workers -> Tasks \cup {NULL}]
    BY <2>1 DEF Init, WorkerPCs
  <2>3. /\ head \in Slots /\ tail \in Slots /\ token \in {0, 1} /\ locked \in BOOLEAN
        /\ main \in MainPCs /\ next \in 1..(NUM_WORK + 1) /\ seenMain \in Slots
        /\ accepted \in SUBSET Tasks /\ underflow \in BOOLEAN /\ crashed \in BOOLEAN
    BY <2>1 DEF Init, MainPCs
  <2> QED  BY <2>2, <2>3 DEF TypeOK
<1>2. MutexInv /\ ClientInv
  BY DEF Init, MutexInv, ClientInv, WorkerInside, MainInside
<1>3. LiveHead = 0 /\ \A k \in Slots : ~Live(k)
  BY <1>1, LiveHeadIs, BetweenMoves, Ring DEF Init, Live
<1>4. QueueInv
  BY <1>3 DEF Init, QueueInv, SlotInv, HandInv, TaskInv, ShutdownInv, Holds
<1> QED  BY <1>1, <1>2, <1>4 DEF IInv

\* Every step keeps the invariant.
LEMMA NextKeeps == IInv /\ [Next]_vars => IInv'
<1> SUFFICES ASSUME IInv, [Next]_vars  PROVE IInv'
  OBVIOUS
<1>1. CASE Client
  BY <1>1, LockSubmitKeeps, EnqueueFullKeeps, StoreTaskKeeps, AdvanceTailKeeps,
     ShutdownLoadHeadKeeps, ShutdownLoadTailKeeps, JoinKeeps DEF Client
<1>2. CASE \E w \in Workers : Worker(w)
  BY <1>2, LoadTokenKeeps, LoadHeadKeeps, LoadTailKeeps, LockQueueKeeps, TakeSlotKeeps,
     AdvanceHeadKeeps, ExecuteKeeps, ExecuteNullKeeps DEF Worker
<1>3. CASE Ended \/ UNCHANGED vars
  BY <1>3, StandstillKeeps DEF Ended
<1> QED  BY <1>1, <1>2, <1>3 DEF Next

\* The invariant holds in every reachable state.
THEOREM Invariance == Spec => []IInv
  BY InitHolds, NextKeeps, PTL DEF Spec

\* The types are right.
THEOREM TypeCorrect == Spec => []TypeOK
<1>1. IInv => TypeOK
  BY DEF IInv
<1> QED  BY <1>1, Invariance, PTL

\* What dequeue and enqueue do to the queue is done under the mutex.
THEOREM OneAtTheQueue == Spec => []MutexInv
<1>1. IInv => MutexInv
  BY DEF IInv
<1> QED  BY <1>1, Invariance, PTL

-----------------------------------------------------------------------------
\* The queue of the refinement.
LEMMA StoredIs == Stored = Contents(N, workstodo, LiveHead, tail)
  BY DEF Stored, Contents, Dist, N

\* Its k-th item is what a live slot holds, and every live slot is one of them.
LEMMA StoredSlots ==
  ASSUME TypeOK
  PROVE  \E n \in 0..(N-1) : \E slot \in [1..n -> Slots] :
           /\ Stored = [k \in 1..n |-> workstodo[slot[k]]]
           /\ \A k \in 1..n : Live(slot[k])
           /\ \A j, k \in 1..n : slot[j] = slot[k] => j = k
           /\ \A s \in Slots : Live(s) => \E k \in 1..n : slot[k] = s
<1>1. LiveHead \in 0..(N-1) /\ tail \in 0..(N-1) /\ N \in Nat \ {0}
  BY LiveHeadIs, Ring DEF TypeOK
<1> DEFINE h == LiveHead
           n == Dist(N, h, tail)
           slot == [k \in 1..n |-> (h + (k - 1)) % N]
<1>2. n \in 0..(N-1)
  BY <1>1, DistMoves
<1>3. \A d \in 0..(N-1) : /\ (h + d) % N \in 0..(N-1)
                          /\ \A r \in 0..(N-1) : (h + d) % N = r <=> Dist(N, h, r) = d
  BY <1>1, DistInverse
<1>4. \A r \in 0..(N-1) : Dist(N, h, r) \in 0..(N-1)
  BY <1>1, DistMoves
<1>5. \A s \in Slots : Live(s) <=> Dist(N, h, s) < n
  BY DEF Live, Between
<1>6. Stored = [k \in 1..n |-> workstodo[(h + k - 1) % N]]
  BY StoredIs DEF Contents
<1> HIDE DEF h, n
<1>7. \A k \in 1..n : k - 1 \in 0..(N-1) /\ h + k - 1 = h + (k - 1) /\ k - 1 < n
  BY <1>1, <1>2 DEF h
<1>8. \A k \in 1..n : slot[k] \in Slots /\ slot[k] = (h + k - 1) % N
                      /\ Dist(N, h, slot[k]) = k - 1
  BY <1>3, <1>7, Ring
<1>9. slot \in [1..n -> Slots]
  BY <1>8
<1> HIDE DEF slot
<1>10. Stored = [k \in 1..n |-> workstodo[slot[k]]]
  BY <1>6, <1>8
<1>11. \A k \in 1..n : Live(slot[k])
  BY <1>5, <1>7, <1>8
<1>12. ASSUME NEW j \in 1..n, NEW k \in 1..n, slot[j] = slot[k]  PROVE j = k
  <2>1. j - 1 = k - 1 /\ j \in Int /\ k \in Int
    BY <1>8, <1>12
  <2> QED  BY <2>1
<1>13. ASSUME NEW s \in Slots, Live(s)  PROVE \E k \in 1..n : slot[k] = s
  <2> DEFINE d == Dist(N, h, s)
  <2>1. d \in 0..(N-1) /\ d < n
    BY <1>4, <1>5, <1>13, Ring
  <2>2. (h + d) % N = s
    BY <1>3, <2>1, Ring
  <2> HIDE DEF d
  <2>3. d + 1 \in 1..n /\ h + (d + 1) - 1 = h + d
    BY <1>1, <1>2, <2>1 DEF h
  <2> QED  BY <2>2, <2>3, <1>8
<1> QED  BY <1>2, <1>9, <1>10, <1>11, <1>12, <1>13

\* A set whose members are all equal has one member, if any.
LEMMA OneMember ==
  ASSUME NEW S, \A x, y \in S : x = y
  PROVE  Cardinality(S) = IF S = {} THEN 0 ELSE 1
<1>1. CASE S = {}
  BY <1>1, FS_EmptySet
<1>2. CASE S # {}
  <2>1. PICK x \in S : TRUE
    BY <1>2
  <2>2. S = {x}
    BY <2>1
  <2> QED  BY <1>2, <2>2, FS_Singleton
<1> QED  BY <1>1, <1>2

\* Where a task is, in one number: it is in at most one place.
LEMMA PlacesIs ==
  ASSUME TypeOK, SlotInv, HandInv, NEW t \in Tasks
  PROVE  Places(t) = (IF \E k \in Slots : Live(k) /\ workstodo[k] = t THEN 1 ELSE 0)
                       + (IF \E w \in Workers : Holds(w) /\ work_next[w] = t THEN 1 ELSE 0)
<1> DEFINE A == {k \in DOMAIN Stored : Stored[k] = t}
           B == {w \in Workers : pc[w] \in {"taken", "execute"} /\ work_next[w] = t}
<1>1. PICK n \in 0..(N-1) : \E slot \in [1..n -> Slots] :
           /\ Stored = [k \in 1..n |-> workstodo[slot[k]]]
           /\ \A k \in 1..n : Live(slot[k])
           /\ \A j, k \in 1..n : slot[j] = slot[k] => j = k
           /\ \A s \in Slots : Live(s) => \E k \in 1..n : slot[k] = s
  BY StoredSlots
<1>2. PICK slot \in [1..n -> Slots] :
           /\ Stored = [k \in 1..n |-> workstodo[slot[k]]]
           /\ \A k \in 1..n : Live(slot[k])
           /\ \A j, k \in 1..n : slot[j] = slot[k] => j = k
           /\ \A s \in Slots : Live(s) => \E k \in 1..n : slot[k] = s
  BY <1>1
<1>3. A = {k \in 1..n : workstodo[slot[k]] = t}
  BY <1>2
<1>4. \A j, k \in A : j = k
  BY <1>2, <1>3 DEF SlotInv
<1>5. A = {} <=> ~\E k \in Slots : Live(k) /\ workstodo[k] = t
  BY <1>2, <1>3
<1>6. \A v, w \in B : v = w
  BY DEF HandInv, Holds
<1>7. B = {} <=> ~\E w \in Workers : Holds(w) /\ work_next[w] = t
  BY DEF Holds
<1>8. Places(t) = Cardinality(A) + Cardinality(B)
  BY DEF Places
<1> HIDE DEF A, B
<1>9. /\ Cardinality(A) = (IF A = {} THEN 0 ELSE 1)
      /\ Cardinality(B) = (IF B = {} THEN 0 ELSE 1)
  BY <1>4, <1>6, OneMember
<1> QED  BY <1>5, <1>7, <1>8, <1>9

\* As long as no worker has dequeued from an empty queue, an accepted task is
\* executed once or waits in one place, and no other task is anywhere.
THEOREM TasksAccounted == Spec => []AcceptedAccounted
<1>1. IInv => AcceptedAccounted
  <2> SUFFICES ASSUME IInv, ~underflow  PROVE AcceptedAccounted
    BY DEF AcceptedAccounted
  <2>1. TypeOK /\ SlotInv /\ HandInv /\ TaskInv /\ accepted \subseteq Tasks
    BY DEF IInv, QueueInv, TypeOK
  <2>2. ASSUME NEW t \in accepted  PROVE executed[t] + Places(t) = 1
    <3>1. t \in Tasks
      BY <2>1
    <3>2. CASE executed[t] = 1
      <4>1. /\ ~\E k \in Slots : Live(k) /\ workstodo[k] = t
            /\ ~\E w \in Workers : Holds(w) /\ work_next[w] = t
        BY <2>1, <3>2 DEF SlotInv, HandInv
      <4> QED  BY <2>1, <3>1, <3>2, <4>1, PlacesIs
    <3>3. CASE \E k \in Slots : Live(k) /\ workstodo[k] = t
      <4>1. executed[t] = 0 /\ ~\E w \in Workers : Holds(w) /\ work_next[w] = t
        BY <2>1, <3>3 DEF SlotInv
      <4> QED  BY <2>1, <3>1, <3>3, <4>1, PlacesIs
    <3>4. CASE \E w \in Workers : Holds(w) /\ work_next[w] = t
      <4>1. executed[t] = 0 /\ ~\E k \in Slots : Live(k) /\ workstodo[k] = t
        BY <2>1, <3>4 DEF SlotInv, HandInv
      <4> QED  BY <2>1, <3>1, <3>4, <4>1, PlacesIs
    <3> QED  BY <2>1, <3>2, <3>3, <3>4 DEF TaskInv
  <2>3. ASSUME NEW t \in Tasks \ accepted  PROVE executed[t] + Places(t) = 0
    <3>1. /\ executed[t] = 0
          /\ ~\E k \in Slots : Live(k) /\ workstodo[k] = t
          /\ ~\E w \in Workers : Holds(w) /\ work_next[w] = t
      BY <2>1, <2>3 DEF SlotInv, HandInv, TaskInv
    <3> QED  BY <2>1, <3>1, PlacesIs
  <2> QED  BY <2>2, <2>3 DEF AcceptedAccounted
<1> QED  BY <1>1, Invariance, PTL

\* The shutdown waits for every accepted task: when main returns each has been
\* executed once.
THEOREM ShutdownLosesNothing == Spec => []DoneMeansExecuted
<1>1. IInv => DoneMeansExecuted
  <2> SUFFICES ASSUME IInv, main = "done", ~underflow, NEW t \in Tasks
               PROVE  executed[t] = IF t \in accepted THEN 1 ELSE 0
    BY DEF DoneMeansExecuted
  <2>1. TypeOK /\ ClientInv /\ TaskInv /\ head = tail
    BY DEF IInv, QueueInv, ShutdownInv
  <2>2. \A w \in Workers : pc[w] = "exited"
    BY <2>1 DEF ClientInv
  <2>3. LiveHead = head /\ head \in Slots
    BY <2>1, <2>2, LiveHeadIs DEF TypeOK
  <2>4. \A k \in Slots : ~Live(k)
    BY <2>1, <2>3, BetweenMoves DEF Live
  <2> QED  BY <2>1, <2>2, <2>4 DEF TaskInv, Holds
<1> QED  BY <1>1, Invariance, PTL

-----------------------------------------------------------------------------
(* The array is a bounded queue until then. *)

\* The initial state is an empty queue.
LEMMA QueueInit == Init => Queue!Init
<1> SUFFICES ASSUME Init  PROVE Queue!Init
  OBVIOUS
<1>1. LiveHead = 0 /\ tail = 0 /\ 0 \in 0..(N-1) /\ N \in Nat \ {0}
  BY Ring DEF Init, LiveHead
<1>2. Stored = <<>>
  BY <1>1, StoredIs, ContentsEmpty
<1> QED  BY <1>2 DEF Init, Queue!Init

\* What leaves the array, its live part and the hands of the workers alone.
LEMMA QueueStutters ==
  ASSUME LiveHead' = LiveHead, UNCHANGED <<workstodo, tail, work_next>>
  PROVE  UNCHANGED <<Stored, work_next>>
  BY DEF Stored

\* The step of tail puts the task into the queue, which has room.
LEMMA AdvanceTailPuts ==
  ASSUME IInv, AdvanceTail
  PROVE  Queue!Put(next) /\ next \in Tasks
<1>1. TypeOK /\ MutexInv /\ ClientInv
  BY DEF IInv
<1>2. /\ Succ(tail) # head /\ head \in Slots /\ tail \in Slots /\ workstodo[tail] = next
      /\ \A v \in Workers : pc[v] # "taken"
  BY <1>1 DEF TypeOK, MutexInv, WorkerInside, MainInside, ClientInv, AdvanceTail
<1>3. LiveHead = head /\ LiveHead' = head
  BY <1>1, <1>2, LiveHeadIs DEF LiveHead, AdvanceTail, workerVars
<1>4. Stored = Contents(N, workstodo, head, tail) /\ Stored' = Contents(N, workstodo, head, Succ(tail))
  BY <1>3 DEF Stored, Contents, Dist, N, AdvanceTail
<1> DEFINE V == Tasks \cup {NULL}
<1> HIDE DEF V
<1>5. /\ workstodo \in [0..(N-1) -> V] /\ head \in 0..(N-1) /\ tail \in 0..(N-1)
      /\ Succ(tail) = After(N, tail) /\ After(N, tail) # head /\ N \in Nat \ {0}
  BY <1>1, <1>2, Ring DEF V, TypeOK
<1>6. /\ Contents(N, workstodo, head, After(N, tail))
           = Append(Contents(N, workstodo, head, tail), workstodo[tail])
      /\ Len(Contents(N, workstodo, head, tail)) < N - 1
  BY <1>5, ContentsAppend
<1>7. Stored' = Append(Stored, next) /\ Len(Stored) < QUEUE_SIZE
  <2>1. N - 1 = QUEUE_SIZE
    BY PoolAssumption DEF N, REAL_QUEUE_SIZE
  <2> QED  BY <1>2, <1>4, <1>5, <1>6, <2>1
<1>8. next \in Tasks
  BY <1>1, PoolAssumption DEF TypeOK, ClientInv, MainInside, Tasks, AdvanceTail
<1> QED  BY <1>7, <1>8 DEF Queue!Put, AdvanceTail, workerVars

\* The copy takes the first task of the queue, unless there is none.
LEMMA TakeSlotTakes ==
  ASSUME IInv, NEW w \in Workers, TakeSlot(w), ~underflow'
  PROVE  Queue!Take(w)
<1>1. TypeOK /\ MutexInv
  BY DEF IInv
<1>2. head # tail /\ head \in Slots /\ tail \in Slots
  BY <1>1 DEF TypeOK, TakeSlot
<1>3. LiveHead = head
  BY <1>1, LiveHeadIs DEF MutexInv, WorkerInside, TakeSlot, Goto
<1>4. LiveHead' = Succ(head)
  BY <1>1 DEF TypeOK, LiveHead, TakeSlot, Goto, queueVars
<1>5. Stored = Contents(N, workstodo, head, tail) /\ Stored' = Contents(N, workstodo, Succ(head), tail)
  BY <1>3, <1>4 DEF Stored, Contents, Dist, N, TakeSlot, queueVars
<1> DEFINE V == Tasks \cup {NULL}
<1> HIDE DEF V
<1>6. /\ workstodo \in [0..(N-1) -> V] /\ head \in 0..(N-1) /\ tail \in 0..(N-1)
      /\ Succ(head) = After(N, head) /\ N \in Nat \ {0}
  BY <1>1, <1>2, Ring DEF V, TypeOK
<1>7. /\ Contents(N, workstodo, head, tail) # <<>>
      /\ Head(Contents(N, workstodo, head, tail)) = workstodo[head]
      /\ Contents(N, workstodo, After(N, head), tail) = Tail(Contents(N, workstodo, head, tail))
  BY <1>2, <1>6, ContentsTail
<1>8. Stored # <<>> /\ Head(Stored) = workstodo[head] /\ Stored' = Tail(Stored)
  BY <1>5, <1>6, <1>7
<1> QED  BY <1>8 DEF Queue!Take, TakeSlot

\* The task is written to a slot that is not in the queue yet.
LEMMA StoreTaskStutters ==
  ASSUME IInv, StoreTask
  PROVE  UNCHANGED <<Stored, work_next>>
<1>1. TypeOK
  BY DEF IInv
<1>2. LiveHead' = LiveHead
  BY DEF LiveHead, StoreTask, workerVars
<1>3. /\ LiveHead \in 0..(N-1) /\ tail \in 0..(N-1) /\ N \in Nat \ {0}
      /\ \A k \in (0..(N-1)) \ {tail} : workstodo'[k] = workstodo[k]
  BY <1>1, LiveHeadIs, Ring DEF TypeOK, StoreTask
<1>4. Stored = Contents(N, workstodo, LiveHead, tail) /\ Stored' = Contents(N, workstodo', LiveHead, tail)
  BY <1>2 DEF Stored, Contents, Dist, N, StoreTask
<1>5. Contents(N, workstodo', LiveHead, tail) = Contents(N, workstodo, LiveHead, tail)
  BY <1>3, ContentsSame
<1> QED  BY <1>4, <1>5 DEF StoreTask, workerVars

\* The task has left the queue before head moves.
LEMMA AdvanceHeadStutters ==
  ASSUME IInv, NEW w \in Workers, AdvanceHead(w)
  PROVE  UNCHANGED <<Stored, work_next>>
<1>1. LiveHead' = LiveHead
  BY LiveHeadIs DEF IInv, TypeOK, MutexInv, WorkerInside, LiveHead, AdvanceHead, Goto
<1> QED  BY <1>1, QueueStutters DEF AdvanceHead

\* The other steps of a worker.
LEMMA WorkerStutters ==
  ASSUME IInv, NEW w \in Workers,
         LoadToken(w) \/ LoadHead(w) \/ LoadTail(w) \/ LockQueue(w) \/ Execute(w) \/ ExecuteNull(w)
  PROVE  UNCHANGED <<Stored, work_next>>
<1>1. UNCHANGED <<workstodo, head, tail, work_next>>
  BY DEF LoadToken, LoadHead, LoadTail, LockQueue, Execute, ExecuteNull, queueVars, workerVars
<1>2. (\E v \in Workers : pc'[v] = "taken") <=> (\E v \in Workers : pc[v] = "taken")
  BY DEF IInv, TypeOK, LoadToken, LoadHead, LoadTail, LockQueue, Execute, ExecuteNull, Goto, workerVars
<1>3. LiveHead' = LiveHead
  BY <1>1, <1>2 DEF LiveHead
<1> QED  BY <1>1, <1>3, QueueStutters

\* The other steps of the client.
LEMMA ClientStutters ==
  ASSUME LockSubmit \/ EnqueueFull \/ ShutdownLoadHead \/ ShutdownLoadTail \/ Join
  PROVE  UNCHANGED <<Stored, work_next>>
<1>1. UNCHANGED <<workstodo, head, tail, pc, work_next>>
  BY DEF LockSubmit, EnqueueFull, ShutdownLoadHead, ShutdownLoadTail, Join, queueVars, workerVars
<1>2. LiveHead' = LiveHead
  BY <1>1 DEF LiveHead
<1> QED  BY <1>1, <1>2, QueueStutters

\* Every step is a Put, a Take or leaves the queue alone, until a worker
\* dequeues from an empty queue.
THEOREM ImplementsQueue == Spec => QueueUntilUnderflow
<1>1. IInv /\ [Next]_vars => [~underflow' => [Queue!Step]_<<Stored, work_next>>]_vars
  <2> SUFFICES ASSUME IInv, Next, ~underflow'
               PROVE  [Queue!Step]_<<Stored, work_next>>
    OBVIOUS
  <2>1. CASE Client
    <3>1. CASE AdvanceTail
      BY <3>1, AdvanceTailPuts DEF Queue!Step
    <3>2. CASE StoreTask
      BY <3>2, StoreTaskStutters
    <3>3. CASE LockSubmit \/ EnqueueFull \/ ShutdownLoadHead \/ ShutdownLoadTail \/ Join
      BY <3>3, ClientStutters
    <3> QED  BY <2>1, <3>1, <3>2, <3>3 DEF Client
  <2>2. ASSUME NEW w \in Workers, Worker(w)  PROVE [Queue!Step]_<<Stored, work_next>>
    <3>1. CASE TakeSlot(w)
      BY <3>1, TakeSlotTakes DEF Queue!Step
    <3>2. CASE AdvanceHead(w)
      BY <3>2, AdvanceHeadStutters
    <3>3. CASE LoadToken(w) \/ LoadHead(w) \/ LoadTail(w) \/ LockQueue(w) \/ Execute(w) \/ ExecuteNull(w)
      BY <3>3, WorkerStutters
    <3> QED  BY <2>2, <3>1, <3>2, <3>3 DEF Worker
  <2>3. CASE Ended
    <3>1. UNCHANGED <<workstodo, head, tail, pc, work_next>>
      BY <2>3 DEF Ended, vars, queueVars, workerVars
    <3>2. LiveHead' = LiveHead
      BY <3>1 DEF LiveHead
    <3> QED  BY <3>1, <3>2, QueueStutters
  <2> QED  BY <2>1, <2>2, <2>3 DEF Next
<1> QED  BY <1>1, Invariance, QueueInit, PTL DEF Spec, QueueUntilUnderflow

=============================================================================
