----------------------- MODULE ProducerConsumerProofs -----------------------
(***************************************************************************)
(* Safety of ProducerConsumer for any threads, items and BUFFER_SIZE >= 2, *)
(* and for any number of runs, killed anywhere: the units of the           *)
(* semaphores account for the slots, nothing is overwritten, the threads   *)
(* never all wait for one another, and the program implements BoundedQueue.*)
(*                                                                         *)
(* IInv is the inductive invariant.  TokensExact is kept only because in   *)
(* the first run nobody takes an error branch, which follows from the      *)
(* count itself (a thread in the body holds a unit, so there is room or an *)
(* item) together with mutual exclusion.  In later runs the counts are     *)
(* inequalities, since a killed process loses the units its threads held;  *)
(* they are still enough for the producers.                                *)
(***************************************************************************)
EXTENDS ProducerConsumer, Sequences, SequenceTheorems, ProofLemmas

N == BUFFER_SIZE

\* The numbers of threads that hold a unit of a semaphore: producers that have
\* taken one of `empty`, or owe one of `full`; consumers the other way round.
Storing == At(Producers, {"lock", "body", "stored"})
Giving  == At(Producers, {"post"})
Loading == At(Consumers, {"lock", "body", "loaded"})
Owing   == At(Consumers, {"post"})

\* What the stages of a run look like.
StageInv ==
  /\ main \in {"start", "opening"} =>
       /\ head = 0 /\ rear = 0 /\ mutex = Nobody /\ cancelled = {}
       /\ \A t \in Threads : pc[t] = "none" /\ item[t] = NoItem
  /\ main = "done" => \A t \in Threads : pc[t] \in {"none", "exited"}
  /\ Opened => empty # NoSem /\ \A t \in Threads : pc[t] # "none"
  /\ \A t \in Threads : pc[t] = "exited" => t \in cancelled
  /\ main = "joining" => cancelled = Threads

\* Which semaphores exist.
SemInv ==
  /\ main = "opening" => full # NoSem
  /\ full = NoSem => empty = NoSem
  /\ empty = NoSem => full \in {NoSem, 0}
  /\ run = 1 /\ main = "start" => full = NoSem
  /\ run = 1 /\ main = "opening" => full = 0 /\ empty = NoSem

\* Producers store what they produced, consumers load.
RoleInv ==
  /\ \A p \in Producers :
       /\ pc[p] # "loaded"
       /\ pc[p] \in {"waiting", "lock", "body", "stored"} => item[p] \in Items
  /\ \A c \in Consumers : pc[c] # "stored"

\* Whoever is in the critical section holds the mutex; there it has found room
\* or an item, and still has it.
MutexInv ==
  \A t \in Threads :
    /\ pc[t] \in {"body", "stored", "loaded", "error"} => mutex = t
    /\ pc[t] = "stored" => ~IsFull /\ buffer[rear] = item[t]
    /\ pc[t] = "loaded" => ~IsEmpty

\* Slot k is among the Count slots that start at head.
Holds(k) == IF head <= rear THEN head <= k /\ k < rear ELSE head <= k \/ k < rear

\* They hold items of this run.
SlotInv == \A k \in Slots : Holds(k) => buffer[k] \in Items

\* No run has more units than there are free slots, nor more than N-1 in all.
UnitInv ==
  empty # NoSem =>
    /\ Count + empty + Storing + Owing <= N - 1
    /\ empty + full + Storing + Giving + Loading + Owing <= N - 1

\* TokensExact, with the names above.
ExactInv ==
  Opened /\ run = 1 => /\ Count + empty + Storing + Owing = N - 1
                       /\ full + Loading + Giving = Count

\* In the first run nobody fails, so nobody dies with the mutex locked.
FirstRunInv ==
  run = 1 => /\ \A t \in Threads : pc[t] # "error"
             /\ mutex # Nobody => pc[mutex] \in {"body", "stored", "loaded"}

IInv == /\ TypeOK /\ StageInv /\ SemInv /\ RoleInv /\ MutexInv /\ SlotInv
        /\ UnitInv /\ ExactInv /\ FirstRunInv

-----------------------------------------------------------------------------
\* The buffer has N slots, numbered from 0.
LEMMA SizeType == N \in Nat /\ N >= 2 /\ Slots = 0..(N-1)
  BY BufferAssumption DEF N, Slots

\* There are finitely many producers and consumers.
LEMMA ThreadsFinite == IsFiniteSet(Producers) /\ IsFiniteSet(Consumers)
<1>1. Producers \in SUBSET Threads /\ Consumers \in SUBSET Threads
  BY DEF Threads
<1> QED  BY <1>1, ThreadAssumption, FS_Subset

\* A thread is a producer or a consumer.
LEMMA Roles ==
  /\ Producers \subseteq Threads /\ Consumers \subseteq Threads
  /\ \A t \in Threads : t \in Producers <=> t \notin Consumers
  /\ Nobody \notin Threads
  BY ThreadAssumption DEF Threads

\* The next index, without the modulus.
LEMMA SuccIs ==
  ASSUME NEW k \in Slots
  PROVE  Succ(k) = (IF k = N - 1 THEN 0 ELSE k + 1) /\ Succ(k) \in Slots
<1>1. k \in 0..(N-1) /\ N \in Nat \ {0}
  BY SizeType
<1> QED  BY <1>1, AfterIs, SizeType DEF Succ, After, N

\* The slots from h to before r.
Gap(h, r) == Dist(N, h, r)

\* The same without the modulus.
LEMMA GapIs ==
  ASSUME NEW h \in Slots, NEW r \in Slots
  PROVE  Gap(h, r) = (IF h <= r THEN r - h ELSE r - h + N)
<1>1. h \in 0..(N-1) /\ r \in 0..(N-1) /\ N \in Nat \ {0}
  BY SizeType
<1> QED  BY <1>1, DistIs DEF Gap

\* It is 0 if the buffer is empty and N - 1 if it is full; moving an index changes it by one.
LEMMA GapMoves ==
  ASSUME NEW h \in Slots, NEW r \in Slots
  PROVE  /\ Gap(h, r) \in 0..(N-1)
         /\ Succ(r) = h <=> Gap(h, r) = N - 1
         /\ h = r <=> Gap(h, r) = 0
         /\ Succ(r) # h => Gap(h, Succ(r)) = Gap(h, r) + 1
         /\ h # r => Gap(Succ(h), r) = Gap(h, r) - 1
<1>1. h \in 0..(N-1) /\ r \in 0..(N-1) /\ N \in Nat \ {0}
  BY SizeType
<1>2. Succ(h) = After(N, h) /\ Succ(r) = After(N, r)
  BY DEF Succ, After, N
<1> QED  BY <1>1, <1>2, DistMoves DEF Gap

-----------------------------------------------------------------------------
Bit(b) == IF b THEN 1 ELSE 0

\* The numbers count the threads they are about.
LEMMA UnitTypes ==
  /\ Storing \in Nat /\ Giving \in Nat /\ Loading \in Nat /\ Owing \in Nat
  /\ \A p \in Producers : pc[p] \in {"lock", "body", "stored"} => Storing >= 1
  /\ \A p \in Producers : pc[p] \in {"post"} => Giving >= 1
  /\ \A c \in Consumers : pc[c] \in {"lock", "body", "loaded"} => Loading >= 1
  /\ \A c \in Consumers : pc[c] \in {"post"} => Owing >= 1
<1>1. /\ Storing = Number(Producers, pc, {"lock", "body", "stored"})
      /\ Giving = Number(Producers, pc, {"post"})
      /\ Loading = Number(Consumers, pc, {"lock", "body", "loaded"})
      /\ Owing = Number(Consumers, pc, {"post"})
  BY DEF Storing, Giving, Loading, Owing, At, Number
<1>2. /\ Storing \in Nat
      /\ \A p \in Producers : pc[p] \in {"lock", "body", "stored"} => Storing >= 1
  BY <1>1, ThreadsFinite, NumberType
<1>3. /\ Giving \in Nat
      /\ \A p \in Producers : pc[p] \in {"post"} => Giving >= 1
  BY <1>1, ThreadsFinite, NumberType
<1>4. /\ Loading \in Nat
      /\ \A c \in Consumers : pc[c] \in {"lock", "body", "loaded"} => Loading >= 1
  BY <1>1, ThreadsFinite, NumberType
<1>5. /\ Owing \in Nat
      /\ \A c \in Consumers : pc[c] \in {"post"} => Owing >= 1
  BY <1>1, ThreadsFinite, NumberType
<1> QED  BY <1>2, <1>3, <1>4, <1>5

\* What a step of thread t does to the numbers.
LEMMA UnitSteps ==
  ASSUME TypeOK, NEW t \in Threads, NEW from, NEW to, Goto(t, from, to)
  PROVE  /\ Storing' = Storing + Bit(t \in Producers /\ to \in {"lock", "body", "stored"})
                               - Bit(t \in Producers /\ from \in {"lock", "body", "stored"})
         /\ Giving'  = Giving  + Bit(t \in Producers /\ to \in {"post"})
                               - Bit(t \in Producers /\ from \in {"post"})
         /\ Loading' = Loading + Bit(t \in Consumers /\ to \in {"lock", "body", "loaded"})
                               - Bit(t \in Consumers /\ from \in {"lock", "body", "loaded"})
         /\ Owing'   = Owing   + Bit(t \in Consumers /\ to \in {"post"})
                               - Bit(t \in Consumers /\ from \in {"post"})
<1> DEFINE W == {"lock", "body", "stored"}
           R == {"lock", "body", "loaded"}
           P == {"post"}
<1>1. /\ pc[t] = from /\ pc'[t] = to
      /\ \A u \in Threads \ {t} : pc'[u] = pc[u]
  BY DEF Goto, TypeOK
<1>2. /\ Storing = Number(Producers, pc, W) /\ Storing' = Number(Producers, pc', W)
      /\ Giving  = Number(Producers, pc, P) /\ Giving'  = Number(Producers, pc', P)
      /\ Loading = Number(Consumers, pc, R) /\ Loading' = Number(Consumers, pc', R)
      /\ Owing   = Number(Consumers, pc, P) /\ Owing'   = Number(Consumers, pc', P)
  BY DEF Storing, Giving, Loading, Owing, At, Number
<1>3. SameBut(Producers, t, pc, pc') /\ SameBut(Consumers, t, pc, pc')
  BY <1>1, Roles DEF SameBut
<1> HIDE DEF W, R, P
<1>4. Storing' = Storing + Bit(t \in Producers /\ pc'[t] \in W) - Bit(t \in Producers /\ pc[t] \in W)
  BY ZenonT(30), <1>2, <1>3, ThreadsFinite, NumberStep DEF Bit
<1>5. Giving' = Giving + Bit(t \in Producers /\ pc'[t] \in P) - Bit(t \in Producers /\ pc[t] \in P)
  BY ZenonT(30), <1>2, <1>3, ThreadsFinite, NumberStep DEF Bit
<1>6. Loading' = Loading + Bit(t \in Consumers /\ pc'[t] \in R) - Bit(t \in Consumers /\ pc[t] \in R)
  BY ZenonT(30), <1>2, <1>3, ThreadsFinite, NumberStep DEF Bit
<1>7. Owing' = Owing + Bit(t \in Consumers /\ pc'[t] \in P) - Bit(t \in Consumers /\ pc[t] \in P)
  BY ZenonT(30), <1>2, <1>3, ThreadsFinite, NumberStep DEF Bit
<1> QED  BY <1>1, <1>4, <1>5, <1>6, <1>7 DEF W, R, P

\* Nobody holds a unit who has not called or has returned.
LEMMA NoUnits ==
  ASSUME \A t \in Threads : pc[t] \in {"none", "idle", "exited"}
  PROVE  Storing = 0 /\ Giving = 0 /\ Loading = 0 /\ Owing = 0
<1>1. \A t \in Producers \cup Consumers : pc[t] \in {"none", "idle", "exited"}
  BY Roles
<1>2. /\ \A p \in Producers : pc[p] \notin {"lock", "body", "stored"}
      /\ \A p \in Producers : pc[p] \notin {"post"}
      /\ \A c \in Consumers : pc[c] \notin {"lock", "body", "loaded"}
      /\ \A c \in Consumers : pc[c] \notin {"post"}
  BY <1>1
<1> QED  BY <1>2, NumberZero DEF Storing, Giving, Loading, Owing, At, Number

-----------------------------------------------------------------------------
\* A thread moves only between the creation of the threads and the last join.
LEMMA Running ==
  ASSUME TypeOK, StageInv, SemInv, NEW t \in Threads, pc[t] \notin {"none", "exited"}
  PROVE  Opened /\ empty \in 0..(N-1) /\ full \in 0..(N-1)
  BY DEF TypeOK, StageInv, SemInv, Opened, MainPCs, N

\* What the distance between the indices says about the buffer.
LEMMA CountIs ==
  ASSUME TypeOK
  PROVE  Count \in 0..(N-1) /\ (IsFull <=> Count = N - 1) /\ (IsEmpty <=> Count = 0)
<1>1. head \in Slots /\ rear \in Slots /\ Count = Gap(head, rear)
  BY DEF TypeOK, Count, Gap, Dist, N
<1> QED  BY <1>1, GapMoves DEF IsFull, IsEmpty

\* A producer calls insert_item.
LEMMA CallInsertKeeps ==
  ASSUME IInv, NEW p \in Producers, NEW x \in Items, CallInsert(p, x)
  PROVE  IInv'
<1>1. /\ p \in Threads /\ pc[p] = "idle"
      /\ Opened /\ empty \in 0..(N-1) /\ full \in 0..(N-1)
  <2>1. p \in Threads /\ pc[p] = "idle"
    BY Roles DEF CallInsert, Goto
  <2> QED  BY <2>1, Running DEF IInv
<1>2. TypeOK'
  BY <1>1, SizeType DEF IInv, TypeOK, PCs, NoSem, N, CallInsert, Goto
<1>3. StageInv'
  BY <1>1 DEF IInv, TypeOK, StageInv, Opened, NoSem, CallInsert, Goto
<1>4. SemInv'
  BY <1>1 DEF IInv, SemInv, Opened, NoSem, CallInsert, Goto
<1>5. RoleInv'
  BY <1>1, Roles DEF IInv, TypeOK, RoleInv, CallInsert, Goto
<1>6. MutexInv'
  BY <1>1, Roles DEF IInv, TypeOK, MutexInv, IsFull, IsEmpty, CallInsert, Goto
<1>7. SlotInv'
  BY DEF IInv, SlotInv, Holds, CallInsert
<1>8. Count' = Count
  BY DEF Count, CallInsert
<1>9. /\ Storing' = Storing /\ Giving' = Giving
      /\ Loading' = Loading /\ Owing' = Owing
  <2>1. Goto(p, "idle", "waiting")
    BY DEF CallInsert
  <2> QED  BY <2>1, <1>1, UnitSteps, UnitTypes, Roles DEF Bit, IInv
<1>10. UnitInv'
  BY <1>1, <1>8, <1>9, UnitTypes, CountIs, SizeType DEF IInv, UnitInv, NoSem, CallInsert
<1>11. ExactInv'
  BY <1>1, <1>8, <1>9, UnitTypes, CountIs, SizeType DEF IInv, ExactInv, Opened, CallInsert
<1>12. FirstRunInv'
  BY <1>1, Roles DEF IInv, TypeOK, MutexInv, FirstRunInv, CallInsert, Goto
<1> QED
  BY <1>2, <1>3, <1>4, <1>5, <1>6, <1>7, <1>10, <1>11, <1>12 DEF IInv

\* A consumer calls remove_item.
LEMMA CallRemoveKeeps ==
  ASSUME IInv, NEW c \in Consumers, CallRemove(c)
  PROVE  IInv'
<1>1. /\ c \in Threads /\ pc[c] = "idle"
      /\ Opened /\ empty \in 0..(N-1) /\ full \in 0..(N-1)
  <2>1. c \in Threads /\ pc[c] = "idle"
    BY Roles DEF CallRemove, Goto
  <2> QED  BY <2>1, Running DEF IInv
<1>2. TypeOK'
  BY <1>1, SizeType DEF IInv, TypeOK, PCs, NoSem, N, CallRemove, Goto
<1>3. StageInv'
  BY <1>1 DEF IInv, TypeOK, StageInv, Opened, NoSem, CallRemove, Goto
<1>4. SemInv'
  BY <1>1 DEF IInv, SemInv, Opened, NoSem, CallRemove, Goto
<1>5. RoleInv'
  BY <1>1, Roles DEF IInv, TypeOK, RoleInv, CallRemove, Goto
<1>6. MutexInv'
  BY <1>1, Roles DEF IInv, TypeOK, MutexInv, IsFull, IsEmpty, CallRemove, Goto
<1>7. SlotInv'
  BY DEF IInv, SlotInv, Holds, CallRemove
<1>8. Count' = Count
  BY DEF Count, CallRemove
<1>9. /\ Storing' = Storing /\ Giving' = Giving
      /\ Loading' = Loading /\ Owing' = Owing
  <2>1. Goto(c, "idle", "waiting")
    BY DEF CallRemove
  <2> QED  BY <2>1, <1>1, UnitSteps, UnitTypes, Roles DEF Bit, IInv
<1>10. UnitInv'
  BY <1>1, <1>8, <1>9, UnitTypes, CountIs, SizeType DEF IInv, UnitInv, NoSem, CallRemove
<1>11. ExactInv'
  BY <1>1, <1>8, <1>9, UnitTypes, CountIs, SizeType DEF IInv, ExactInv, Opened, CallRemove
<1>12. FirstRunInv'
  BY <1>1, Roles DEF IInv, TypeOK, MutexInv, FirstRunInv, CallRemove, Goto
<1> QED
  BY <1>2, <1>3, <1>4, <1>5, <1>6, <1>7, <1>10, <1>11, <1>12 DEF IInv

\* The unit goes from `empty` to the producer.
LEMMA WaitEmptyKeeps ==
  ASSUME IInv, NEW p \in Producers, WaitEmpty(p)
  PROVE  IInv'
<1>1. /\ p \in Threads /\ pc[p] = "waiting"
      /\ Opened /\ empty \in 0..(N-1) /\ full \in 0..(N-1)
  <2>1. p \in Threads /\ pc[p] = "waiting"
    BY Roles DEF WaitEmpty, Goto
  <2> QED  BY <2>1, Running DEF IInv
<1>2. TypeOK'
  BY <1>1, SizeType DEF IInv, TypeOK, PCs, NoSem, N, WaitEmpty, Goto
<1>3. StageInv'
  BY <1>1 DEF IInv, TypeOK, StageInv, Opened, NoSem, WaitEmpty, Goto
<1>4. SemInv'
  BY <1>1 DEF IInv, SemInv, Opened, NoSem, WaitEmpty, Goto
<1>5. RoleInv'
  BY <1>1, Roles DEF IInv, TypeOK, RoleInv, WaitEmpty, Goto
<1>6. MutexInv'
  BY <1>1, Roles DEF IInv, TypeOK, MutexInv, IsFull, IsEmpty, WaitEmpty, Goto
<1>7. SlotInv'
  BY DEF IInv, SlotInv, Holds, WaitEmpty
<1>8. Count' = Count
  BY DEF Count, WaitEmpty
<1>9. /\ Storing' = Storing + 1 /\ Giving' = Giving
      /\ Loading' = Loading /\ Owing' = Owing
  <2>1. Goto(p, "waiting", "lock")
    BY DEF WaitEmpty
  <2> QED  BY <2>1, <1>1, UnitSteps, UnitTypes, Roles DEF Bit, IInv
<1>10. UnitInv'
  BY <1>1, <1>8, <1>9, UnitTypes, CountIs, SizeType DEF IInv, UnitInv, NoSem, WaitEmpty
<1>11. ExactInv'
  BY <1>1, <1>8, <1>9, UnitTypes, CountIs, SizeType DEF IInv, ExactInv, Opened, WaitEmpty
<1>12. FirstRunInv'
  BY <1>1, Roles DEF IInv, TypeOK, MutexInv, FirstRunInv, WaitEmpty, Goto
<1> QED
  BY <1>2, <1>3, <1>4, <1>5, <1>6, <1>7, <1>10, <1>11, <1>12 DEF IInv

\* The unit goes from `full` to the consumer.
LEMMA WaitFullKeeps ==
  ASSUME IInv, NEW c \in Consumers, WaitFull(c)
  PROVE  IInv'
<1>1. /\ c \in Threads /\ pc[c] = "waiting"
      /\ Opened /\ empty \in 0..(N-1) /\ full \in 0..(N-1)
  <2>1. c \in Threads /\ pc[c] = "waiting"
    BY Roles DEF WaitFull, Goto
  <2> QED  BY <2>1, Running DEF IInv
<1>2. TypeOK'
  BY <1>1, SizeType DEF IInv, TypeOK, PCs, NoSem, N, WaitFull, Goto
<1>3. StageInv'
  BY <1>1 DEF IInv, TypeOK, StageInv, Opened, NoSem, WaitFull, Goto
<1>4. SemInv'
  BY <1>1 DEF IInv, SemInv, Opened, NoSem, WaitFull, Goto
<1>5. RoleInv'
  BY <1>1, Roles DEF IInv, TypeOK, RoleInv, WaitFull, Goto
<1>6. MutexInv'
  BY <1>1, Roles DEF IInv, TypeOK, MutexInv, IsFull, IsEmpty, WaitFull, Goto
<1>7. SlotInv'
  BY DEF IInv, SlotInv, Holds, WaitFull
<1>8. Count' = Count
  BY DEF Count, WaitFull
<1>9. /\ Storing' = Storing /\ Giving' = Giving
      /\ Loading' = Loading + 1 /\ Owing' = Owing
  <2>1. Goto(c, "waiting", "lock")
    BY DEF WaitFull
  <2> QED  BY <2>1, <1>1, UnitSteps, UnitTypes, Roles DEF Bit, IInv
<1>10. UnitInv'
  BY <1>1, <1>8, <1>9, UnitTypes, CountIs, SizeType DEF IInv, UnitInv, NoSem, WaitFull
<1>11. ExactInv'
  BY <1>1, <1>8, <1>9, UnitTypes, CountIs, SizeType DEF IInv, ExactInv, Opened, WaitFull
<1>12. FirstRunInv'
  BY <1>1, Roles DEF IInv, TypeOK, MutexInv, FirstRunInv, WaitFull, Goto
<1> QED
  BY <1>2, <1>3, <1>4, <1>5, <1>6, <1>7, <1>10, <1>11, <1>12 DEF IInv

\* Nobody held the mutex, so nobody is in the critical section.
LEMMA LockKeeps ==
  ASSUME IInv, NEW t \in Threads, Lock(t)
  PROVE  IInv'
<1>1. /\ t \in Threads /\ pc[t] = "lock"
      /\ Opened /\ empty \in 0..(N-1) /\ full \in 0..(N-1)
  <2>1. t \in Threads /\ pc[t] = "lock"
    BY Roles DEF Lock, Goto
  <2> QED  BY <2>1, Running DEF IInv
<1>2. TypeOK'
  BY <1>1, SizeType DEF IInv, TypeOK, PCs, NoSem, N, Lock, Goto
<1>3. StageInv'
  BY <1>1 DEF IInv, TypeOK, StageInv, Opened, NoSem, Lock, Goto
<1>4. SemInv'
  BY <1>1 DEF IInv, SemInv, Opened, NoSem, Lock, Goto
<1>5. RoleInv'
  BY <1>1, Roles DEF IInv, TypeOK, RoleInv, Lock, Goto
<1>6. MutexInv'
  BY <1>1, Roles DEF IInv, TypeOK, MutexInv, IsFull, IsEmpty, Lock, Goto
<1>7. SlotInv'
  BY DEF IInv, SlotInv, Holds, Lock
<1>8. Count' = Count
  BY DEF Count, Lock
<1>9. /\ Storing' = Storing /\ Giving' = Giving
      /\ Loading' = Loading /\ Owing' = Owing
  <2>1. Goto(t, "lock", "body")
    BY DEF Lock
  <2> QED  BY <2>1, <1>1, UnitSteps, UnitTypes, Roles DEF Bit, IInv
<1>10. UnitInv'
  BY <1>1, <1>8, <1>9, UnitTypes, CountIs, SizeType DEF IInv, UnitInv, NoSem, Lock
<1>11. ExactInv'
  BY <1>1, <1>8, <1>9, UnitTypes, CountIs, SizeType DEF IInv, ExactInv, Opened, Lock
<1>12. FirstRunInv'
  BY <1>1, Roles DEF IInv, TypeOK, MutexInv, FirstRunInv, Lock, Goto
<1> QED
  BY <1>2, <1>3, <1>4, <1>5, <1>6, <1>7, <1>10, <1>11, <1>12 DEF IInv

\* The slot at rear is none of those that hold items.
LEMMA StoreItemKeeps ==
  ASSUME IInv, NEW p \in Producers, StoreItem(p)
  PROVE  IInv'
<1>1. /\ p \in Threads /\ pc[p] = "body"
      /\ Opened /\ empty \in 0..(N-1) /\ full \in 0..(N-1)
  <2>1. p \in Threads /\ pc[p] = "body"
    BY Roles DEF StoreItem, Goto
  <2> QED  BY <2>1, Running DEF IInv
<1>2. TypeOK'
  BY <1>1, SizeType DEF IInv, TypeOK, PCs, RoleInv, StoreItem, Goto
<1>3. StageInv'
  BY <1>1 DEF IInv, TypeOK, StageInv, Opened, NoSem, StoreItem, Goto
<1>4. SemInv'
  BY <1>1 DEF IInv, SemInv, Opened, NoSem, StoreItem, Goto
<1>5. RoleInv'
  BY <1>1, Roles DEF IInv, TypeOK, RoleInv, StoreItem, Goto
<1>6. MutexInv'
  <2>1. \A u \in Threads \ {p} : pc[u] \notin {"body", "stored", "loaded", "error"}
    BY <1>1 DEF IInv, MutexInv
  <2>2. \A u \in Threads \ {p} : pc'[u] = pc[u]
    BY DEF IInv, TypeOK, StoreItem, Goto
  <2> QED  BY <1>1, <2>1, <2>2 DEF IInv, TypeOK, MutexInv, IsFull, StoreItem, Goto
<1>7. SlotInv'
  BY <1>1 DEF IInv, TypeOK, RoleInv, SlotInv, Holds, StoreItem
<1>8. Count' = Count
  BY DEF Count, StoreItem
<1>9. /\ Storing' = Storing /\ Giving' = Giving
      /\ Loading' = Loading /\ Owing' = Owing
  <2>1. Goto(p, "body", "stored")
    BY DEF StoreItem
  <2> QED  BY <2>1, <1>1, UnitSteps, UnitTypes, Roles DEF Bit, IInv
<1>10. UnitInv'
  BY <1>1, <1>8, <1>9, UnitTypes, CountIs, SizeType DEF IInv, UnitInv, NoSem, StoreItem
<1>11. ExactInv'
  BY <1>1, <1>8, <1>9, UnitTypes, CountIs, SizeType DEF IInv, ExactInv, Opened, StoreItem
<1>12. FirstRunInv'
  BY <1>1, Roles DEF IInv, TypeOK, MutexInv, FirstRunInv, StoreItem, Goto
<1> QED
  BY <1>2, <1>3, <1>4, <1>5, <1>6, <1>7, <1>10, <1>11, <1>12 DEF IInv

\* The slot the producer has filled becomes one of those that hold items.
LEMMA AdvanceRearKeeps ==
  ASSUME IInv, NEW p \in Producers, AdvanceRear(p)
  PROVE  IInv'
<1>1. /\ p \in Threads /\ pc[p] = "stored"
      /\ Opened /\ empty \in 0..(N-1) /\ full \in 0..(N-1)
  <2>1. p \in Threads /\ pc[p] = "stored"
    BY Roles DEF AdvanceRear, Goto
  <2> QED  BY <2>1, Running DEF IInv
<1>2. TypeOK'
  BY <1>1, SuccIs DEF IInv, TypeOK, PCs, AdvanceRear, Goto
<1>3. StageInv'
  BY <1>1 DEF IInv, TypeOK, StageInv, Opened, NoSem, AdvanceRear, Goto
<1>4. SemInv'
  BY <1>1 DEF IInv, SemInv, Opened, NoSem, AdvanceRear, Goto
<1>5. RoleInv'
  BY <1>1, Roles DEF IInv, TypeOK, RoleInv, AdvanceRear, Goto
<1>6. MutexInv'
  <2>1. \A u \in Threads \ {p} : pc[u] \notin {"body", "stored", "loaded", "error"}
    BY <1>1 DEF IInv, MutexInv
  <2>2. pc'[p] = "post" /\ \A u \in Threads \ {p} : pc'[u] = pc[u]
    BY <1>1 DEF IInv, TypeOK, AdvanceRear, Goto
  <2>3. \A u \in Threads : pc'[u] \notin {"body", "stored", "loaded", "error"}
    BY <2>1, <2>2
  <2> QED  BY <2>3 DEF MutexInv
<1>7. SlotInv'
  <2>1. /\ head \in 0..(N-1) /\ rear \in 0..(N-1) /\ Slots = 0..(N-1) /\ N \in Nat
        /\ buffer[rear] \in Items
        /\ rear' = (IF rear = N - 1 THEN 0 ELSE rear + 1) /\ rear' # head
        /\ head' = head /\ buffer' = buffer
    BY <1>1, SizeType, SuccIs DEF IInv, TypeOK, RoleInv, MutexInv, IsFull, AdvanceRear
  <2>2. \A k \in Slots : Holds(k)' => Holds(k) \/ k = rear
    BY <2>1 DEF Holds
  <2> QED  BY <2>1, <2>2 DEF IInv, SlotInv
<1>8. Count' = Count + 1
  <2>1. head \in Slots /\ rear \in Slots /\ Succ(rear) # head
    BY <1>1 DEF IInv, TypeOK, MutexInv, IsFull
  <2>2. head' = head /\ rear' = Succ(rear)
    BY DEF AdvanceRear
  <2>3. Count = Gap(head, rear) /\ Count' = Gap(head, Succ(rear))
    BY <2>2 DEF Count, Gap, Dist, N
  <2> QED  BY <2>1, <2>3, GapMoves
<1>9. /\ Storing' = Storing - 1 /\ Giving' = Giving + 1
      /\ Loading' = Loading /\ Owing' = Owing
  <2>1. Goto(p, "stored", "post")
    BY DEF AdvanceRear
  <2> QED  BY <2>1, <1>1, UnitSteps, UnitTypes, Roles DEF Bit, IInv
<1>10. UnitInv'
  BY SMTT(30), <1>1, <1>8, <1>9, UnitTypes, CountIs, SizeType DEF IInv, UnitInv, NoSem, AdvanceRear
<1>11. ExactInv'
  BY <1>1, <1>8, <1>9, UnitTypes, CountIs, SizeType DEF IInv, ExactInv, Opened, AdvanceRear
<1>12. FirstRunInv'
  BY <1>1, Roles DEF IInv, TypeOK, MutexInv, FirstRunInv, AdvanceRear, Goto
<1> QED
  BY <1>2, <1>3, <1>4, <1>5, <1>6, <1>7, <1>10, <1>11, <1>12 DEF IInv

\* The slot at head holds an item, so the consumer gets one.
LEMMA LoadItemKeeps ==
  ASSUME IInv, NEW c \in Consumers, LoadItem(c)
  PROVE  IInv'
<1>1. /\ c \in Threads /\ pc[c] = "body"
      /\ Opened /\ empty \in 0..(N-1) /\ full \in 0..(N-1)
  <2>1. c \in Threads /\ pc[c] = "body"
    BY Roles DEF LoadItem, Goto
  <2> QED  BY <2>1, Running DEF IInv
<1>2. TypeOK'
  <2>1. Holds(head) /\ head \in Slots
    BY SizeType DEF IInv, TypeOK, Holds, LoadItem, IsEmpty
  <2>2. buffer[head] \in Items
    BY <2>1 DEF IInv, SlotInv
  <2> QED  BY <1>1, <2>2 DEF IInv, TypeOK, PCs, LoadItem, Goto
<1>3. StageInv'
  BY <1>1 DEF IInv, TypeOK, StageInv, Opened, NoSem, LoadItem, Goto
<1>4. SemInv'
  BY <1>1 DEF IInv, SemInv, Opened, NoSem, LoadItem, Goto
<1>5. RoleInv'
  BY <1>1, Roles DEF IInv, TypeOK, RoleInv, LoadItem, Goto
<1>6. MutexInv'
  BY <1>1, Roles DEF IInv, TypeOK, MutexInv, IsFull, IsEmpty, LoadItem, Goto
<1>7. SlotInv'
  BY DEF IInv, SlotInv, Holds, LoadItem
<1>8. Count' = Count
  BY DEF Count, LoadItem
<1>9. /\ Storing' = Storing /\ Giving' = Giving
      /\ Loading' = Loading /\ Owing' = Owing
  <2>1. Goto(c, "body", "loaded")
    BY DEF LoadItem
  <2> QED  BY <2>1, <1>1, UnitSteps, UnitTypes, Roles DEF Bit, IInv
<1>10. UnitInv'
  BY <1>1, <1>8, <1>9, UnitTypes, CountIs, SizeType DEF IInv, UnitInv, NoSem, LoadItem
<1>11. ExactInv'
  BY <1>1, <1>8, <1>9, UnitTypes, CountIs, SizeType DEF IInv, ExactInv, Opened, LoadItem
<1>12. FirstRunInv'
  BY <1>1, Roles DEF IInv, TypeOK, MutexInv, FirstRunInv, LoadItem, Goto
<1> QED
  BY <1>2, <1>3, <1>4, <1>5, <1>6, <1>7, <1>10, <1>11, <1>12 DEF IInv

\* The slot the consumer has emptied is free again.
LEMMA AdvanceHeadKeeps ==
  ASSUME IInv, NEW c \in Consumers, AdvanceHead(c)
  PROVE  IInv'
<1>1. /\ c \in Threads /\ pc[c] = "loaded"
      /\ Opened /\ empty \in 0..(N-1) /\ full \in 0..(N-1)
  <2>1. c \in Threads /\ pc[c] = "loaded"
    BY Roles DEF AdvanceHead, Goto
  <2> QED  BY <2>1, Running DEF IInv
<1>2. TypeOK'
  BY <1>1, SuccIs DEF IInv, TypeOK, PCs, AdvanceHead, Goto
<1>3. StageInv'
  BY <1>1 DEF IInv, TypeOK, StageInv, Opened, NoSem, AdvanceHead, Goto
<1>4. SemInv'
  BY <1>1 DEF IInv, SemInv, Opened, NoSem, AdvanceHead, Goto
<1>5. RoleInv'
  BY <1>1, Roles DEF IInv, TypeOK, RoleInv, AdvanceHead, Goto
<1>6. MutexInv'
  <2>1. \A u \in Threads \ {c} : pc[u] \notin {"body", "stored", "loaded", "error"}
    BY <1>1 DEF IInv, MutexInv
  <2>2. pc'[c] = "post" /\ \A u \in Threads \ {c} : pc'[u] = pc[u]
    BY <1>1 DEF IInv, TypeOK, AdvanceHead, Goto
  <2>3. \A u \in Threads : pc'[u] \notin {"body", "stored", "loaded", "error"}
    BY <2>1, <2>2
  <2> QED  BY <2>3 DEF MutexInv
<1>7. SlotInv'
  <2>1. /\ head \in 0..(N-1) /\ rear \in 0..(N-1) /\ Slots = 0..(N-1) /\ N \in Nat
        /\ head' = (IF head = N - 1 THEN 0 ELSE head + 1) /\ rear # head
        /\ rear' = rear /\ buffer' = buffer
    BY <1>1, SizeType, SuccIs DEF IInv, TypeOK, MutexInv, IsEmpty, AdvanceHead
  <2>2. \A k \in Slots : Holds(k)' => Holds(k)
    BY <2>1 DEF Holds
  <2> QED  BY <2>1, <2>2 DEF IInv, SlotInv
<1>8. Count' = Count - 1
  <2>1. head \in Slots /\ rear \in Slots /\ head # rear
    BY <1>1 DEF IInv, TypeOK, MutexInv, IsEmpty
  <2>2. rear' = rear /\ head' = Succ(head)
    BY DEF AdvanceHead
  <2>3. Count = Gap(head, rear) /\ Count' = Gap(Succ(head), rear)
    BY <2>2 DEF Count, Gap, Dist, N
  <2> QED  BY <2>1, <2>3, GapMoves
<1>9. /\ Storing' = Storing /\ Giving' = Giving
      /\ Loading' = Loading - 1 /\ Owing' = Owing + 1
  <2>1. Goto(c, "loaded", "post")
    BY DEF AdvanceHead
  <2> QED  BY <2>1, <1>1, UnitSteps, UnitTypes, Roles DEF Bit, IInv
<1>10. UnitInv'
  BY SMTT(30), <1>1, <1>8, <1>9, UnitTypes, CountIs, SizeType DEF IInv, UnitInv, NoSem, AdvanceHead
<1>11. ExactInv'
  BY SMTT(30), <1>1, <1>8, <1>9, UnitTypes, CountIs, SizeType DEF IInv, ExactInv, Opened, AdvanceHead
<1>12. FirstRunInv'
  BY <1>1, Roles DEF IInv, TypeOK, MutexInv, FirstRunInv, AdvanceHead, Goto
<1> QED
  BY <1>2, <1>3, <1>4, <1>5, <1>6, <1>7, <1>10, <1>11, <1>12 DEF IInv

\* A consumer that finds no item loses its unit of `full`; not in the first run.
LEMMA RefuseKeeps ==
  ASSUME IInv, NEW t \in Consumers, Refuse(t)
  PROVE  IInv'
<1>1. /\ t \in Threads /\ pc[t] = "body"
      /\ Opened /\ empty \in 0..(N-1) /\ full \in 0..(N-1)
  <2>1. t \in Threads /\ pc[t] = "body"
    BY Roles DEF Refuse, Goto
  <2> QED  BY <2>1, Running DEF IInv
<1>2. TypeOK'
  BY <1>1, SizeType DEF IInv, TypeOK, PCs, NoSem, N, Refuse, Goto
<1>3. StageInv'
  BY <1>1 DEF IInv, TypeOK, StageInv, Opened, NoSem, Refuse, Goto
<1>4. SemInv'
  BY <1>1 DEF IInv, SemInv, Opened, NoSem, Refuse, Goto
<1>5. RoleInv'
  BY <1>1, Roles DEF IInv, TypeOK, RoleInv, Refuse, Goto
<1>6. MutexInv'
  BY <1>1, Roles DEF IInv, TypeOK, MutexInv, IsFull, IsEmpty, Refuse, Goto
<1>7. SlotInv'
  BY DEF IInv, SlotInv, Holds, Refuse
<1>8. Count' = Count
  BY DEF Count, Refuse
<1>9. /\ Storing' = Storing /\ Giving' = Giving
      /\ Loading' = Loading - 1 /\ Owing' = Owing
  <2>1. Goto(t, "body", "error")
    BY DEF Refuse
  <2> QED  BY <2>1, <1>1, UnitSteps, UnitTypes, Roles DEF Bit, IInv
<1>10. UnitInv'
  BY <1>1, <1>8, <1>9, UnitTypes, CountIs, SizeType DEF IInv, UnitInv, NoSem, Refuse
<1>11. ExactInv'
  <2>1. IsEmpty /\ Count = 0 /\ Loading >= 1
    BY <1>1, Roles, CountIs, UnitTypes DEF IInv, Refuse
  <2>2. run # 1
    BY <1>1, <2>1, UnitTypes DEF IInv, ExactInv
  <2> QED  BY <2>2 DEF ExactInv, Refuse
<1>12. FirstRunInv'
  <2>1. IsEmpty /\ Count = 0 /\ Loading >= 1
    BY <1>1, Roles, CountIs, UnitTypes DEF IInv, Refuse
  <2>2. run # 1
    BY <1>1, <2>1, UnitTypes DEF IInv, ExactInv
  <2> QED  BY <2>2 DEF FirstRunInv, Refuse
<1> QED
  BY <1>2, <1>3, <1>4, <1>5, <1>6, <1>7, <1>10, <1>11, <1>12 DEF IInv

\* Nobody gets here in the first run.
LEMMA ErrorReturnKeeps ==
  ASSUME IInv, NEW t \in Threads, ErrorReturn(t)
  PROVE  IInv'
<1>1. /\ t \in Threads /\ pc[t] = "error"
      /\ Opened /\ empty \in 0..(N-1) /\ full \in 0..(N-1)
  <2>1. t \in Threads /\ pc[t] = "error"
    BY Roles DEF ErrorReturn, Goto
  <2> QED  BY <2>1, Running DEF IInv
<1>2. TypeOK'
  BY <1>1, SizeType DEF IInv, TypeOK, PCs, NoSem, N, ErrorReturn, Goto
<1>3. StageInv'
  BY <1>1 DEF IInv, TypeOK, StageInv, Opened, NoSem, ErrorReturn, Goto
<1>4. SemInv'
  BY <1>1 DEF IInv, SemInv, Opened, NoSem, ErrorReturn, Goto
<1>5. RoleInv'
  BY <1>1, Roles DEF IInv, TypeOK, RoleInv, ErrorReturn, Goto
<1>6. MutexInv'
  BY <1>1, Roles DEF IInv, TypeOK, MutexInv, IsFull, IsEmpty, ErrorReturn, Goto
<1>7. SlotInv'
  BY DEF IInv, SlotInv, Holds, ErrorReturn
<1>8. Count' = Count
  BY DEF Count, ErrorReturn
<1>9. /\ Storing' = Storing /\ Giving' = Giving
      /\ Loading' = Loading /\ Owing' = Owing
  <2>1. Goto(t, "error", "idle")
    BY DEF ErrorReturn
  <2> QED  BY <2>1, <1>1, UnitSteps, UnitTypes, Roles DEF Bit, IInv
<1>10. UnitInv'
  BY <1>1, <1>8, <1>9, UnitTypes, CountIs, SizeType DEF IInv, UnitInv, NoSem, ErrorReturn
<1>11. ExactInv'
  BY <1>1, <1>8, <1>9, UnitTypes, CountIs, SizeType DEF IInv, ExactInv, Opened, ErrorReturn
<1>12. FirstRunInv'
  BY <1>1, Roles DEF IInv, TypeOK, MutexInv, FirstRunInv, ErrorReturn, Goto
<1> QED
  BY <1>2, <1>3, <1>4, <1>5, <1>6, <1>7, <1>10, <1>11, <1>12 DEF IInv

\* The unit goes from the producer to `full`.
LEMMA PostFullKeeps ==
  ASSUME IInv, NEW p \in Producers, PostFull(p)
  PROVE  IInv'
<1>1. /\ p \in Threads /\ pc[p] = "post"
      /\ Opened /\ empty \in 0..(N-1) /\ full \in 0..(N-1)
  <2>1. p \in Threads /\ pc[p] = "post"
    BY Roles DEF PostFull, Goto
  <2> QED  BY <2>1, Running DEF IInv
<1>2. TypeOK'
  BY <1>1, SizeType, UnitTypes, CountIs DEF IInv, TypeOK, UnitInv, PCs, NoSem, N, PostFull, Goto
<1>3. StageInv'
  BY <1>1 DEF IInv, TypeOK, StageInv, Opened, NoSem, PostFull, Goto
<1>4. SemInv'
  BY <1>1 DEF IInv, SemInv, Opened, NoSem, PostFull, Goto
<1>5. RoleInv'
  BY <1>1, Roles DEF IInv, TypeOK, RoleInv, PostFull, Goto
<1>6. MutexInv'
  BY <1>1, Roles DEF IInv, TypeOK, MutexInv, IsFull, IsEmpty, PostFull, Goto
<1>7. SlotInv'
  BY DEF IInv, SlotInv, Holds, PostFull
<1>8. Count' = Count
  BY DEF Count, PostFull
<1>9. /\ Storing' = Storing /\ Giving' = Giving - 1
      /\ Loading' = Loading /\ Owing' = Owing
  <2>1. Goto(p, "post", "idle")
    BY DEF PostFull
  <2> QED  BY <2>1, <1>1, UnitSteps, UnitTypes, Roles DEF Bit, IInv
<1>10. UnitInv'
  BY <1>1, <1>8, <1>9, UnitTypes, CountIs, SizeType DEF IInv, UnitInv, NoSem, PostFull
<1>11. ExactInv'
  BY <1>1, <1>8, <1>9, UnitTypes, CountIs, SizeType DEF IInv, ExactInv, Opened, PostFull
<1>12. FirstRunInv'
  BY <1>1, Roles DEF IInv, TypeOK, MutexInv, FirstRunInv, PostFull, Goto
<1> QED
  BY <1>2, <1>3, <1>4, <1>5, <1>6, <1>7, <1>10, <1>11, <1>12 DEF IInv

\* The unit goes from the consumer to `empty`.
LEMMA PostEmptyKeeps ==
  ASSUME IInv, NEW c \in Consumers, PostEmpty(c)
  PROVE  IInv'
<1>1. /\ c \in Threads /\ pc[c] = "post"
      /\ Opened /\ empty \in 0..(N-1) /\ full \in 0..(N-1)
  <2>1. c \in Threads /\ pc[c] = "post"
    BY Roles DEF PostEmpty, Goto
  <2> QED  BY <2>1, Running DEF IInv
<1>2. TypeOK'
  BY <1>1, SizeType, UnitTypes, CountIs DEF IInv, TypeOK, UnitInv, PCs, NoSem, N, PostEmpty, Goto
<1>3. StageInv'
  BY <1>1 DEF IInv, TypeOK, StageInv, Opened, NoSem, PostEmpty, Goto
<1>4. SemInv'
  BY <1>1 DEF IInv, SemInv, Opened, NoSem, PostEmpty, Goto
<1>5. RoleInv'
  BY <1>1, Roles DEF IInv, TypeOK, RoleInv, PostEmpty, Goto
<1>6. MutexInv'
  BY <1>1, Roles DEF IInv, TypeOK, MutexInv, IsFull, IsEmpty, PostEmpty, Goto
<1>7. SlotInv'
  BY DEF IInv, SlotInv, Holds, PostEmpty
<1>8. Count' = Count
  BY DEF Count, PostEmpty
<1>9. /\ Storing' = Storing /\ Giving' = Giving
      /\ Loading' = Loading /\ Owing' = Owing - 1
  <2>1. Goto(c, "post", "idle")
    BY DEF PostEmpty
  <2> QED  BY <2>1, <1>1, UnitSteps, UnitTypes, Roles DEF Bit, IInv
<1>10. UnitInv'
  BY <1>1, <1>8, <1>9, UnitTypes, CountIs, SizeType DEF IInv, UnitInv, NoSem, PostEmpty
<1>11. ExactInv'
  BY <1>1, <1>8, <1>9, UnitTypes, CountIs, SizeType DEF IInv, ExactInv, Opened, PostEmpty
<1>12. FirstRunInv'
  BY <1>1, Roles DEF IInv, TypeOK, MutexInv, FirstRunInv, PostEmpty, Goto
<1> QED
  BY <1>2, <1>3, <1>4, <1>5, <1>6, <1>7, <1>10, <1>11, <1>12 DEF IInv

\* A thread ends where it holds no unit and, in the first run, not the mutex.
LEMMA ExitKeeps ==
  ASSUME IInv, NEW t \in Threads, Exit(t)
  PROVE  IInv'
<1>1. /\ t \in cancelled /\ pc[t] \in {"idle", "waiting", "error"}
      /\ pc' = [pc EXCEPT ![t] = "exited"]
      /\ UNCHANGED <<full, empty, buffer, head, rear, mutex, item, cancelled, main, run>>
  BY DEF Exit
<1>2. Opened
  BY <1>1, Running DEF IInv
<1>3. TypeOK'
  BY <1>1 DEF IInv, TypeOK, PCs
<1>4. StageInv'
  BY <1>1, <1>2 DEF IInv, TypeOK, StageInv, Opened
<1>5. SemInv'
  BY <1>1 DEF IInv, SemInv
<1>6. RoleInv'
  BY <1>1, Roles DEF IInv, TypeOK, RoleInv
<1>7. MutexInv'
  BY <1>1, Roles DEF IInv, TypeOK, MutexInv, IsFull, IsEmpty
<1>8. SlotInv'
  BY <1>1 DEF IInv, SlotInv, Holds
<1>9. Count' = Count
  BY <1>1 DEF Count
<1>10. Storing' = Storing /\ Giving' = Giving /\ Loading' = Loading /\ Owing' = Owing
  <2>1. Goto(t, pc[t], "exited")
    BY <1>1 DEF Goto
  <2> QED  BY <1>1, <2>1, UnitSteps, UnitTypes, Roles DEF Bit, IInv
<1>11. UnitInv'
  BY <1>1, <1>9, <1>10 DEF IInv, UnitInv
<1>12. ExactInv'
  BY <1>1, <1>9, <1>10 DEF IInv, ExactInv, Opened
<1>13. FirstRunInv'
  BY <1>1, Roles DEF IInv, TypeOK, MutexInv, FirstRunInv
<1> QED
  BY <1>3, <1>4, <1>5, <1>6, <1>7, <1>8, <1>11, <1>12, <1>13 DEF IInv

-----------------------------------------------------------------------------
(* The main thread. *)

\* With the indices at 0 and no thread in a call no slot and no unit is taken.
LEMMA FreshUnits ==
  ASSUME head = 0, rear = 0, \A t \in Threads : pc[t] \in {"none", "idle", "exited"}
  PROVE  /\ Count = 0 /\ Storing = 0 /\ Giving = 0 /\ Loading = 0 /\ Owing = 0
         /\ \A k \in Slots : ~Holds(k)
<1>1. Count = 0
  <2>1. 0 \in Slots /\ Count = Gap(0, 0)
    BY SizeType DEF Count, Gap, Dist, N
  <2> QED  BY <2>1, GapMoves
<1>2. \A k \in Slots : ~Holds(k)
  BY SizeType DEF Holds
<1> QED  BY <1>1, <1>2, NoUnits

\* At the start there is no semaphore and no thread.
LEMMA InitKeeps == Init => IInv
<1> SUFFICES ASSUME Init  PROVE IInv
  OBVIOUS
<1>1. TypeOK
  BY SizeType, RunsAssumption DEF Init, TypeOK, NoSem, PCs, MainPCs
<1>2. StageInv /\ SemInv
  BY DEF Init, StageInv, SemInv, Opened
<1>3. RoleInv /\ MutexInv
  BY Roles DEF Init, RoleInv, MutexInv
<1>4. SlotInv
  BY FreshUnits DEF Init, SlotInv
<1>5. UnitInv /\ ExactInv /\ FirstRunInv
  BY Roles DEF Init, UnitInv, ExactInv, FirstRunInv, Opened
<1> QED  BY <1>1, <1>2, <1>3, <1>4, <1>5 DEF IInv

\* `full` exists now; in the first run it is 0.
LEMMA InitializeBufferKeeps == IInv /\ InitializeBuffer => IInv'
<1> SUFFICES ASSUME IInv, InitializeBuffer  PROVE IInv'
  OBVIOUS
<1>1. /\ main = "start" /\ main' = "opening" /\ head' = 0 /\ rear' = 0 /\ mutex' = Nobody
      /\ full' = (IF full = NoSem THEN 0 ELSE full)
      /\ UNCHANGED <<empty, buffer, pc, item, cancelled, run>>
  BY DEF InitializeBuffer, OpenedFull, SemOpen
<1>2. head = 0 /\ rear = 0 /\ \A t \in Threads : pc[t] = "none"
  BY <1>1 DEF IInv, StageInv
<1>3. TypeOK'
  BY <1>1, SizeType DEF IInv, TypeOK, MainPCs, NoSem, N
<1>4. StageInv' /\ SemInv'
  BY <1>1, <1>2 DEF IInv, StageInv, SemInv, Opened, NoSem
<1>5. RoleInv' /\ MutexInv'
  BY <1>1, <1>2, Roles DEF RoleInv, MutexInv
<1>6. SlotInv' /\ UnitInv' /\ ExactInv' /\ FirstRunInv'
  <2>1. SlotInv'
    BY <1>1, <1>2 DEF IInv, SlotInv, Holds
  <2>2. UnitInv'
    <3>1. /\ Count' = Count /\ Storing' = Storing /\ Giving' = Giving
          /\ Loading' = Loading /\ Owing' = Owing
      BY <1>1, <1>2 DEF Count, Storing, Giving, Loading, Owing, At
    <3>2. empty' # NoSem => full' = full
      BY <1>1 DEF IInv, SemInv
    <3> QED  BY <1>1, <3>1, <3>2 DEF IInv, UnitInv
  <2>3. ExactInv' /\ FirstRunInv'
    BY <1>1, <1>2, Roles DEF ExactInv, FirstRunInv, Opened
  <2> QED  BY <2>1, <2>2, <2>3
<1> QED  BY <1>3, <1>4, <1>5, <1>6 DEF IInv

\* Now `empty` exists too; in the first run it holds a unit for every free slot.
LEMMA CreateThreadsKeeps == IInv /\ CreateThreads => IInv'
<1> SUFFICES ASSUME IInv, CreateThreads  PROVE IInv'
  OBVIOUS
<1>1. /\ main = "opening" /\ main' = "sleeping"
      /\ empty' = (IF empty = NoSem THEN N - 1 ELSE empty)
      /\ pc' = [t \in Threads |-> "idle"]
      /\ UNCHANGED <<full, buffer, head, rear, mutex, item, cancelled, run>>
  BY DEF CreateThreads, OpenedEmpty, SemOpen, N
<1>2. /\ head = 0 /\ rear = 0 /\ mutex = Nobody
      /\ \A t \in Threads : pc[t] = "none" /\ pc'[t] = "idle"
  BY <1>1 DEF IInv, StageInv
<1>3. TypeOK'
  BY <1>1, SizeType DEF IInv, TypeOK, MainPCs, PCs, NoSem, N
<1>4. StageInv' /\ SemInv'
  BY <1>1, <1>2, SizeType DEF IInv, StageInv, SemInv, Opened, NoSem
<1>5. RoleInv' /\ MutexInv'
  BY <1>1, <1>2, Roles DEF RoleInv, MutexInv
<1>6. SlotInv'
  BY <1>1, <1>2 DEF IInv, SlotInv, Holds
<1>7. /\ Count = 0 /\ Storing = 0 /\ Giving = 0 /\ Loading = 0 /\ Owing = 0
  BY <1>2, FreshUnits
<1>8. /\ Count' = 0 /\ Storing' = 0 /\ Giving' = 0 /\ Loading' = 0 /\ Owing' = 0
  <2>1. Count' = 0
    BY <1>1, <1>7 DEF Count
  <2>2. /\ \A p \in Producers : pc'[p] \notin {"lock", "body", "stored"}
        /\ \A p \in Producers : pc'[p] \notin {"post"}
        /\ \A c \in Consumers : pc'[c] \notin {"lock", "body", "loaded"}
        /\ \A c \in Consumers : pc'[c] \notin {"post"}
    BY <1>2, Roles
  <2>3. Storing' = 0 /\ Giving' = 0 /\ Loading' = 0 /\ Owing' = 0
    BY <2>2, NumberZero DEF Storing, Giving, Loading, Owing, At, Number
  <2> QED  BY <2>1, <2>3
<1>9. UnitInv'
  <2>1. empty = NoSem => full = 0
    BY <1>1 DEF IInv, SemInv
  <2>2. empty # NoSem => empty \in Int /\ full \in Int /\ empty <= N - 1 /\ empty + full <= N - 1
    BY <1>7, SizeType DEF IInv, UnitInv, TypeOK, NoSem, N
  <2> QED  BY <1>1, <1>8, <2>1, <2>2, SizeType DEF UnitInv
<1>10. ExactInv'
  <2>1. run = 1 => full = 0 /\ empty = NoSem
    BY <1>1 DEF IInv, SemInv
  <2> QED  BY <1>1, <1>8, <2>1, SizeType DEF ExactInv
<1>11. FirstRunInv'
  BY <1>1, <1>2 DEF FirstRunInv
<1> QED
  BY <1>3, <1>4, <1>5, <1>6, <1>9, <1>10, <1>11 DEF IInv

\* A request changes nothing but `cancelled`.
LEMMA CancelKeeps == ASSUME IInv, NEW t \in Threads, Cancel(t)  PROVE IInv'
<1>1. /\ main = "sleeping" /\ main' \in {"sleeping", "joining"}
      /\ main' = "joining" => cancelled' = Threads
      /\ cancelled' = cancelled \cup {t}
      /\ UNCHANGED <<full, empty, buffer, head, rear, mutex, pc, item, run>>
  BY DEF Cancel
<1>2. TypeOK'
  BY <1>1 DEF IInv, TypeOK, MainPCs
<1>3. StageInv' /\ SemInv'
  BY <1>1 DEF IInv, StageInv, SemInv, Opened
<1>4. RoleInv' /\ MutexInv' /\ SlotInv' /\ FirstRunInv'
  BY <1>1 DEF IInv, RoleInv, MutexInv, SlotInv, FirstRunInv, Holds, IsFull, IsEmpty
<1>5. UnitInv' /\ ExactInv'
  <2>1. /\ Count' = Count /\ Storing' = Storing /\ Giving' = Giving
        /\ Loading' = Loading /\ Owing' = Owing
    BY <1>1 DEF Count, Storing, Giving, Loading, Owing, At
  <2> QED  BY <1>1, <2>1 DEF IInv, UnitInv, ExactInv, Opened
<1> QED  BY <1>2, <1>3, <1>4, <1>5 DEF IInv

\* When all threads have ended, none holds a unit.
LEMMA JoinKeeps == IInv /\ Join => IInv'
<1> SUFFICES ASSUME IInv, Join  PROVE IInv'
  OBVIOUS
<1>1. /\ main = "joining" /\ main' = "done" /\ \A t \in Threads : pc[t] = "exited"
      /\ UNCHANGED <<full, empty, buffer, head, rear, mutex, pc, item, cancelled, run>>
  BY DEF Join
<1>2. TypeOK'
  BY <1>1 DEF IInv, TypeOK, MainPCs
<1>3. StageInv' /\ SemInv'
  BY <1>1 DEF IInv, StageInv, SemInv, Opened
<1>4. RoleInv' /\ MutexInv' /\ SlotInv' /\ FirstRunInv'
  BY <1>1 DEF IInv, RoleInv, MutexInv, SlotInv, FirstRunInv, Holds, IsFull, IsEmpty
<1>5. UnitInv' /\ ExactInv'
  <2>1. /\ Count' = Count /\ Storing' = Storing /\ Giving' = Giving
        /\ Loading' = Loading /\ Owing' = Owing
    BY <1>1 DEF Count, Storing, Giving, Loading, Owing, At
  <2> QED  BY <1>1, <2>1 DEF IInv, UnitInv, ExactInv, Opened
<1> QED  BY <1>2, <1>3, <1>4, <1>5 DEF IInv

\* A killed process loses the units its threads held, and its buffer.
LEMMA FreshKeeps ==
  ASSUME IInv, FreshProcess, main' \in {"start", "done"}, run' \in 1..MaxRuns,
         run' = 1 => main' = "done",
         UNCHANGED <<full, empty>>
  PROVE  IInv'
<1>1. /\ head' = 0 /\ rear' = 0 /\ mutex' = Nobody /\ cancelled' = {}
      /\ \A t \in Threads : pc'[t] = "none" /\ item'[t] = NoItem
  BY DEF FreshProcess
<1>2. TypeOK'
  BY SizeType DEF IInv, TypeOK, FreshProcess, MainPCs, PCs
<1>3. StageInv' /\ SemInv'
  BY <1>1 DEF IInv, StageInv, SemInv, Opened
<1>4. RoleInv' /\ MutexInv' /\ FirstRunInv'
  BY <1>1, Roles DEF RoleInv, MutexInv, FirstRunInv
<1>5. SlotInv'
  BY <1>1, SizeType DEF SlotInv, Holds
<1>6. /\ Count' = 0 /\ Storing' = 0 /\ Giving' = 0 /\ Loading' = 0 /\ Owing' = 0
  <2>1. Count' = 0
    <3>1. 0 \in Slots /\ Count' = Gap(0, 0)
      BY <1>1, SizeType DEF Count, Gap, Dist, N
    <3> QED  BY <3>1, GapMoves
  <2>2. /\ \A p \in Producers : pc'[p] \notin {"lock", "body", "stored"}
        /\ \A p \in Producers : pc'[p] \notin {"post"}
        /\ \A c \in Consumers : pc'[c] \notin {"lock", "body", "loaded"}
        /\ \A c \in Consumers : pc'[c] \notin {"post"}
    BY <1>1, Roles
  <2>3. Storing' = 0 /\ Giving' = 0 /\ Loading' = 0 /\ Owing' = 0
    BY <2>2, NumberZero DEF Storing, Giving, Loading, Owing, At, Number
  <2> QED  BY <2>1, <2>3
<1>7. UnitInv'
  <2>1. empty # NoSem => empty \in Int /\ full \in Int /\ empty <= N - 1 /\ empty + full <= N - 1
    BY UnitTypes, CountIs, SizeType DEF IInv, UnitInv, TypeOK, NoSem, N
  <2> QED  BY <1>6, <2>1, SizeType DEF UnitInv
<1>8. ExactInv'
  BY DEF ExactInv, Opened
<1> QED  BY <1>2, <1>3, <1>4, <1>5, <1>7, <1>8 DEF IInv

\* Nothing changes.
LEMMA StutterKeeps == IInv /\ UNCHANGED vars => IInv'
  BY DEF IInv, vars, TypeOK, StageInv, SemInv, RoleInv, MutexInv, SlotInv, UnitInv, ExactInv,
     FirstRunInv, Opened, Holds, IsFull, IsEmpty, Count, Storing, Giving, Loading, Owing, At

\* A producer that holds a unit of `empty` finds room.
LEMMA ProducersFindRoom ==
  ASSUME IInv, NEW p \in Producers, pc[p] = "body"
  PROVE  ~IsFull
<1>1. Opened /\ empty \in 0..(N-1) /\ empty # NoSem
  BY Running, Roles DEF IInv, NoSem
<1>2. Storing >= 1 /\ Storing \in Nat /\ Owing \in Nat
  BY UnitTypes
<1> QED  BY <1>1, <1>2, CountIs, SizeType DEF IInv, UnitInv

\* Every step keeps IInv; no producer takes the error branch.
LEMMA NextKeeps == IInv /\ [Next]_vars => IInv'
<1> SUFFICES ASSUME IInv, [Next]_vars  PROVE IInv'
  OBVIOUS
<1>1. CASE Main
  BY <1>1, InitializeBufferKeeps, CreateThreadsKeeps, CancelKeeps, JoinKeeps DEF Main
<1>2. CASE Kill
  <2>1. /\ FreshProcess /\ main' = "done" /\ run' \in 1..MaxRuns /\ UNCHANGED <<full, empty>>
    BY <1>2 DEF Kill, IInv, TypeOK
  <2> QED  BY <2>1, FreshKeeps
<1>3. CASE Restart
  <2>1. /\ FreshProcess /\ main' = "start" /\ run' \in 1..MaxRuns /\ run' # 1
        /\ UNCHANGED <<full, empty>>
    BY <1>3, RunsAssumption DEF Restart, IInv, TypeOK
  <2> QED  BY <2>1, FreshKeeps
<1>4. CASE Finished
  BY <1>4, StutterKeeps DEF Finished
<1>5. ASSUME NEW p \in Producers, Producer(p)  PROVE IInv'
  BY <1>5, CallInsertKeeps, WaitEmptyKeeps, StoreItemKeeps, AdvanceRearKeeps, PostFullKeeps
     DEF Producer
<1>6. ASSUME NEW c \in Consumers, Consumer(c)  PROVE IInv'
  BY <1>6, CallRemoveKeeps, WaitFullKeeps, LoadItemKeeps, AdvanceHeadKeeps, PostEmptyKeeps
     DEF Consumer
<1>7. ASSUME NEW t \in Threads, Refuse(t)  PROVE IInv'
  <2>1. CASE t \in Producers
    <3>1. IsFull /\ pc[t] = "body"
      BY <1>7, <2>1 DEF Refuse, Goto
    <3> QED  BY <2>1, <3>1, ProducersFindRoom
  <2>2. CASE t \in Consumers
    BY <1>7, <2>2, RefuseKeeps
  <2> QED  BY <2>1, <2>2, Roles
<1>8. ASSUME NEW t \in Threads, Thread(t)  PROVE IInv'
  BY <1>5, <1>6, <1>7, <1>8, LockKeeps, ErrorReturnKeeps, ExitKeeps DEF Thread
<1> QED  BY <1>1, <1>2, <1>3, <1>4, <1>8, StutterKeeps DEF Next

\* IInv holds in every reachable state.
THEOREM Invariance == Spec => []IInv
  BY InitKeeps, NextKeeps, PTL DEF Spec

\* In the first run every slot is accounted for by exactly one of: a unit of `empty`, a
\* producer that took one, a stored item, a consumer that owes one; and every stored
\* item by `full` and the threads in between.
THEOREM UnitsExact == Spec => []TokensExact
<1>1. IInv => TokensExact
  BY DEF IInv, ExactInv, TokensExact, Storing, Giving, Loading, Owing, N
<1> QED  BY <1>1, Invariance, PTL

\* In every run units of `empty` never outnumber free slots, so a producer that holds
\* one finds room.
THEOREM RoomForEveryUnit == Spec => []NeverOverfills
<1>1. IInv => NeverOverfills
  <2> SUFFICES ASSUME IInv, Opened  PROVE
        /\ Count + empty + Storing + Owing <= N - 1
        /\ \A p \in Producers : pc[p] = "body" => ~IsFull
    BY DEF NeverOverfills, Storing, Owing, N
  <2>1. empty # NoSem
    BY DEF IInv, StageInv
  <2> QED  BY <2>1, ProducersFindRoom DEF IInv, UnitInv
<1> QED  BY <1>1, Invariance, PTL

\* If there are producers and consumers, they never all wait for one another in the
\* first run, and while main joins them one of those left can take a step.
THEOREM ThreadsNeverStall ==
  ASSUME Producers # {}, Consumers # {}
  PROVE  Spec => []NoStall
<1>1. IInv => NoStall
  <2> SUFFICES ASSUME IInv, run = 1  PROVE
        /\ (main = "sleeping" /\ cancelled = {}) => \E t \in Threads : CanGoOn(t)
        /\ main = "joining" =>
             (\A t \in Threads : pc[t] = "exited") \/ (\E t \in Threads : CanGoOn(t))
    BY DEF NoStall
  <2>1. mutex # Nobody => \E t \in Threads : CanGoOn(t)
    BY DEF IInv, TypeOK, FirstRunInv, CanGoOn
  <2>2. ASSUME Opened, \A t \in Threads : ~CanGoOn(t)
        PROVE  \A t \in Threads : pc[t] = "exited" \/ (pc[t] = "waiting" /\ t \notin cancelled)
    <3> SUFFICES ASSUME NEW t \in Threads
                 PROVE  pc[t] = "exited" \/ (pc[t] = "waiting" /\ t \notin cancelled)
      OBVIOUS
    <3>1. mutex = Nobody
      BY <2>1, <2>2
    <3>2. ~CanGoOn(t) /\ pc[t] \in PCs /\ pc[t] # "none"
      BY <2>2 DEF IInv, TypeOK, StageInv
    <3> QED  BY <3>1, <3>2 DEF CanGoOn, PCs
  <2>3. ASSUME main = "joining", \A t \in Threads : ~CanGoOn(t)
        PROVE  \A t \in Threads : pc[t] = "exited"
    BY <2>2, <2>3 DEF IInv, StageInv, Opened
  <2>4. ASSUME main = "sleeping", cancelled = {}, \A t \in Threads : ~CanGoOn(t)
        PROVE  FALSE
    <3>1. Opened /\ \A t \in Threads : pc[t] = "waiting"
      BY <2>2, <2>4 DEF IInv, StageInv, Opened
    <3>2. empty = 0 /\ full = 0
      <4>1. PICK p \in Producers, c \in Consumers : TRUE
        OBVIOUS
      <4>2. ~(empty > 0) /\ ~(full > 0)
        BY <2>4, <3>1, <4>1, Roles DEF CanGoOn
      <4>3. empty # NoSem /\ full # NoSem
        BY <3>1 DEF IInv, StageInv, SemInv
      <4> QED  BY <4>2, <4>3, SizeType DEF IInv, TypeOK, NoSem, N
    <3>3. /\ \A p \in Producers : pc[p] \notin {"lock", "body", "stored"}
          /\ \A p \in Producers : pc[p] \notin {"post"}
          /\ \A c \in Consumers : pc[c] \notin {"lock", "body", "loaded"}
          /\ \A c \in Consumers : pc[c] \notin {"post"}
      BY <3>1, Roles
    <3>4. Storing = 0 /\ Giving = 0 /\ Loading = 0 /\ Owing = 0
      BY <3>3, NumberZero DEF Storing, Giving, Loading, Owing, At, Number
    <3> QED  BY <3>1, <3>2, <3>4, SizeType, CountIs DEF IInv, ExactInv
  <2> QED  BY <2>3, <2>4
<1> QED  BY <1>1, Invariance, PTL

-----------------------------------------------------------------------------
(* The buffer is a bounded queue. *)

\* The buffer is a ring of N slots.
LEMMA Ring ==
  N \in Nat \ {0} /\ Slots = 0..(N-1) /\ \A k \in Slots : Succ(k) = After(N, k)
  BY SizeType DEF Succ, After, N

\* The queue of the refinement.
LEMMA StoredIs == Stored = Contents(N, buffer, LiveHead, rear)
  BY DEF Stored, Contents, Dist, N

Got == [c \in Consumers |-> item[c]]

\* What leaves the queue and the items of the consumers alone.
LEMMA QueueStutters ==
  ASSUME UNCHANGED <<buffer, head, rear>>,
         \A c \in Consumers : pc'[c] = "loaded" <=> pc[c] = "loaded",
         \A c \in Consumers : item'[c] = item[c]
  PROVE  Stored' = Stored /\ Got' = Got
<1>1. LiveHead' = LiveHead
  BY DEF LiveHead
<1> QED  BY <1>1 DEF Stored, Got

\* Only the holder of the mutex can be between its load and its step of head.
LEMMA HeadIsLive ==
  ASSUME MutexInv, NEW t \in Threads, pc[t] \in {"body", "stored"}
  PROVE  LiveHead = head
  BY Roles DEF MutexInv, LiveHead

\* The initial state is an empty queue.
LEMMA QueueInit == Init => Queue!Init
<1> SUFFICES ASSUME Init  PROVE Queue!Init
  OBVIOUS
<1>1. LiveHead = 0 /\ rear = 0 /\ 0 \in Slots
  BY Roles, SizeType DEF Init, LiveHead
<1>2. Stored = <<>>
  BY <1>1, StoredIs, Ring, ContentsEmpty
<1>3. [c \in Consumers |-> item[c]] = [c \in Consumers |-> NoItem]
  BY Roles DEF Init
<1> QED  BY <1>2, <1>3 DEF Queue!Init

\* A new process starts with an empty queue.
LEMMA ResetsQueue == ASSUME FreshProcess  PROVE Queue!Reset
<1>1. /\ head' = 0 /\ rear' = 0 /\ 0 \in Slots
      /\ \A c \in Consumers : pc'[c] = "none" /\ item'[c] = NoItem
  BY Roles, SizeType DEF FreshProcess
<1>2. LiveHead' = 0
  BY <1>1 DEF LiveHead
<1>3. Stored' = Contents(N, buffer', LiveHead', rear')
  BY DEF Stored, Contents, Dist, N
<1>4. Stored' = <<>>
  BY <1>1, <1>2, <1>3, Ring, ContentsEmpty
<1> QED  BY <1>1, <1>4 DEF Queue!Reset

\* The step of rear puts the item into the queue, which has room.
LEMMA AdvanceRearPuts ==
  ASSUME IInv, NEW p \in Producers, AdvanceRear(p)
  PROVE  Queue!Put(item[p])
<1>1. /\ p \in Threads /\ pc[p] = "stored" /\ pc' = [pc EXCEPT ![p] = "post"]
      /\ rear' = Succ(rear) /\ UNCHANGED <<buffer, head, item>>
  BY Roles DEF AdvanceRear, Goto
<1>2. /\ LiveHead = head /\ head \in Slots /\ rear \in Slots
      /\ Succ(rear) # head /\ buffer[rear] = item[p] /\ buffer \in [Slots -> Items \cup {0}]
  BY <1>1, HeadIsLive DEF IInv, TypeOK, MutexInv, IsFull
<1>3. LiveHead' = head
  <2>1. \A c \in Consumers : pc[c] # "loaded"
    BY <1>1, Roles DEF IInv, MutexInv
  <2>2. \A c \in Consumers : pc'[c] # "loaded"
    BY <1>1, <2>1, Roles DEF IInv, TypeOK
  <2> QED  BY <1>1, <2>2 DEF LiveHead
<1>4. Stored = Contents(N, buffer, head, rear) /\ Stored' = Contents(N, buffer, head, Succ(rear))
  BY <1>1, <1>2, <1>3 DEF Stored, Contents, Dist, N
<1>5. Stored' = Append(Stored, item[p]) /\ Len(Stored) < N - 1
  <2> DEFINE V == Items \cup {0}
  <2> HIDE DEF V
  <2>1. /\ buffer \in [0..(N-1) -> V] /\ head \in 0..(N-1) /\ rear \in 0..(N-1)
        /\ Succ(rear) = After(N, rear) /\ After(N, rear) # head
    BY <1>2, Ring DEF V
  <2>2. N \in Nat \ {0}
    BY Ring
  <2>3. /\ Contents(N, buffer, head, After(N, rear))
             = Append(Contents(N, buffer, head, rear), buffer[rear])
        /\ Len(Contents(N, buffer, head, rear)) < N - 1
    BY <2>1, <2>2, ContentsAppend
  <2> QED  BY <1>2, <1>4, <2>1, <2>3
<1> QED  BY <1>1, <1>5 DEF Queue!Put, N

\* The copy takes the first item of the queue.
LEMMA LoadItemTakes ==
  ASSUME IInv, NEW c \in Consumers, LoadItem(c)
  PROVE  Queue!Take(c)
<1>1. /\ c \in Threads /\ pc[c] = "body" /\ pc' = [pc EXCEPT ![c] = "loaded"]
      /\ item' = [item EXCEPT ![c] = buffer[head]] /\ head # rear
      /\ UNCHANGED <<buffer, head, rear>>
  BY Roles DEF LoadItem, Goto, IsEmpty
<1>2. /\ LiveHead = head /\ head \in Slots /\ rear \in Slots
      /\ buffer \in [Slots -> Items \cup {0}]
  BY <1>1, HeadIsLive DEF IInv, TypeOK
<1>3. LiveHead' = Succ(head)
  <2>1. pc'[c] = "loaded"
    BY <1>1 DEF IInv, TypeOK
  <2> QED  BY <1>1, <2>1 DEF LiveHead, Succ
<1>4. Stored = Contents(N, buffer, head, rear) /\ Stored' = Contents(N, buffer, Succ(head), rear)
  BY <1>1, <1>2, <1>3 DEF Stored, Contents, Dist, N
<1>5. Stored # <<>> /\ Head(Stored) = buffer[head] /\ Stored' = Tail(Stored)
  <2> DEFINE V == Items \cup {0}
  <2> HIDE DEF V
  <2>1. /\ buffer \in [0..(N-1) -> V] /\ head \in 0..(N-1) /\ rear \in 0..(N-1)
        /\ Succ(head) = After(N, head)
    BY <1>2, Ring DEF V
  <2>2. N \in Nat \ {0}
    BY Ring
  <2> QED  BY <1>1, <1>4, <2>1, <2>2, ContentsTail
<1>6. [d \in Consumers |-> item[d]]'
        = [[d \in Consumers |-> item[d]] EXCEPT ![c] = buffer[head]]
  BY <1>1, Roles DEF IInv, TypeOK
<1> QED  BY <1>5, <1>6 DEF Queue!Take

\* Storing the item changes a slot that is not in the queue yet ...
LEMMA StoreItemStutters ==
  ASSUME IInv, NEW p \in Producers, StoreItem(p)
  PROVE  Stored' = Stored /\ Got' = Got
<1>1. /\ p \in Threads /\ pc[p] = "body" /\ pc' = [pc EXCEPT ![p] = "stored"]
      /\ buffer' = [buffer EXCEPT ![rear] = item[p]]
      /\ UNCHANGED <<head, rear, item>>
  BY Roles DEF StoreItem, Goto
<1>2. LiveHead = head /\ head \in Slots /\ rear \in Slots
  BY <1>1, HeadIsLive DEF IInv, TypeOK
<1>3. LiveHead' = head
  <2>1. \A c \in Consumers : pc[c] # "loaded"
    BY <1>1, Roles DEF IInv, MutexInv
  <2>2. \A c \in Consumers : pc'[c] # "loaded"
    BY <1>1, <2>1, Roles DEF IInv, TypeOK
  <2> QED  BY <1>1, <2>2 DEF LiveHead
<1>4. Stored = Contents(N, buffer, head, rear) /\ Stored' = Contents(N, buffer', head, rear)
  BY <1>1, <1>2, <1>3 DEF Stored, Contents, Dist, N
<1>5. \A k \in Slots \ {rear} : buffer'[k] = buffer[k]
  BY <1>1 DEF IInv, TypeOK
<1>6. Stored' = Stored
  BY <1>2, <1>4, <1>5, Ring, ContentsSame
<1> QED  BY <1>1, <1>6 DEF Got

\* ... and the step of head comes after the item has left it.
LEMMA AdvanceHeadStutters ==
  ASSUME IInv, NEW c \in Consumers, AdvanceHead(c)
  PROVE  Stored' = Stored /\ Got' = Got
<1>1. /\ c \in Threads /\ pc[c] = "loaded" /\ pc' = [pc EXCEPT ![c] = "post"]
      /\ head' = Succ(head) /\ UNCHANGED <<buffer, rear, item>>
  BY Roles DEF AdvanceHead, Goto
<1>2. LiveHead = Succ(head)
  BY <1>1 DEF LiveHead
<1>3. LiveHead' = Succ(head)
  <2>1. \A d \in Consumers \ {c} : pc[d] # "loaded"
    BY <1>1, Roles DEF IInv, MutexInv
  <2>2. \A d \in Consumers : pc'[d] # "loaded"
    BY <1>1, <2>1, Roles DEF IInv, TypeOK
  <2> QED  BY <1>1, <2>2 DEF LiveHead
<1>4. Stored' = Stored
  BY <1>1, <1>2, <1>3 DEF Stored
<1> QED  BY <1>1, <1>4 DEF Got

\* A step of one thread that neither enters nor leaves "loaded".
LEMMA QuietStep ==
  ASSUME TypeOK, NEW t \in Threads, NEW from, NEW to, Goto(t, from, to),
         from # "loaded", to # "loaded", UNCHANGED <<buffer, head, rear>>,
         \A c \in Consumers : item'[c] = item[c]
  PROVE  Stored' = Stored /\ Got' = Got
<1>1. \A c \in Consumers : pc'[c] = "loaded" <=> pc[c] = "loaded"
  BY Roles DEF Goto, TypeOK
<1> QED  BY <1>1, QueueStutters

\* The main thread does not touch the queue.
LEMMA MainStutters == IInv /\ (Main \/ UNCHANGED vars) => Stored' = Stored /\ Got' = Got
<1> SUFFICES ASSUME IInv, Main \/ UNCHANGED vars  PROVE Stored' = Stored /\ Got' = Got
  OBVIOUS
<1>1. /\ UNCHANGED <<buffer, head, rear, item>>
      /\ \A c \in Consumers : pc'[c] = "loaded" <=> pc[c] = "loaded"
  <2>1. CASE InitializeBuffer
    BY <2>1 DEF IInv, StageInv, InitializeBuffer
  <2>2. CASE CreateThreads
    BY <2>2, Roles DEF IInv, StageInv, CreateThreads
  <2>3. CASE Join \/ UNCHANGED vars
    BY <2>3 DEF Join, vars
  <2>4. ASSUME NEW t \in Threads, Cancel(t)
        PROVE  UNCHANGED <<buffer, head, rear, item, pc>>
    BY <2>4 DEF Cancel
  <2> QED  BY <2>1, <2>2, <2>3, <2>4 DEF Main
<1> QED  BY <1>1, QueueStutters

\* Every step is a step of the queue or leaves it alone.
LEMMA QueueNext == IInv /\ [Next]_vars => [Queue!Next]_<<Stored, Got>>
<1> SUFFICES ASSUME IInv, [Next]_vars
             PROVE  Queue!Next \/ (Stored' = Stored /\ Got' = Got)
  OBVIOUS
<1>1. CASE Main \/ Finished \/ UNCHANGED vars
  BY <1>1, MainStutters DEF Finished
<1>2. CASE Kill \/ Restart
  BY <1>2, ResetsQueue DEF Kill, Restart, Queue!Next
<1>3. ASSUME NEW p \in Producers, Producer(p)
      PROVE  Queue!Next \/ (Stored' = Stored /\ Got' = Got)
  <2>1. ASSUME NEW x \in Items, CallInsert(p, x)  PROVE Stored' = Stored /\ Got' = Got
    <3>1. Goto(p, "idle", "waiting") /\ UNCHANGED <<buffer, head, rear>>
      BY <2>1 DEF CallInsert
    <3>2. \A c \in Consumers : item'[c] = item[c]
      BY <2>1, Roles DEF CallInsert, IInv, TypeOK
    <3> QED  BY <3>1, <3>2, QuietStep, Roles DEF IInv
  <2>2. CASE WaitEmpty(p)
    BY <2>2, QuietStep, Roles DEF WaitEmpty, IInv
  <2>3. CASE StoreItem(p)
    BY <2>3, StoreItemStutters
  <2>4. CASE AdvanceRear(p)
    <3>1. item[p] \in Items
      BY <2>4 DEF IInv, RoleInv, AdvanceRear, Goto
    <3> QED  BY <2>4, <3>1, AdvanceRearPuts DEF Queue!Next, Queue!Step
  <2>5. CASE PostFull(p)
    BY <2>5, QuietStep, Roles DEF PostFull, IInv
  <2> QED  BY <1>3, <2>1, <2>2, <2>3, <2>4, <2>5 DEF Producer
<1>4. ASSUME NEW c \in Consumers, Consumer(c)
      PROVE  Queue!Next \/ (Stored' = Stored /\ Got' = Got)
  <2>1. CASE CallRemove(c)
    BY <2>1, QuietStep, Roles DEF CallRemove, IInv
  <2>2. CASE WaitFull(c)
    BY <2>2, QuietStep, Roles DEF WaitFull, IInv
  <2>3. CASE LoadItem(c)
    BY <2>3, LoadItemTakes DEF Queue!Next, Queue!Step
  <2>4. CASE AdvanceHead(c)
    BY <2>4, AdvanceHeadStutters
  <2>5. CASE PostEmpty(c)
    BY <2>5, QuietStep, Roles DEF PostEmpty, IInv
  <2> QED  BY <1>4, <2>1, <2>2, <2>3, <2>4, <2>5 DEF Consumer
<1>5. ASSUME NEW t \in Threads, Lock(t) \/ Refuse(t) \/ ErrorReturn(t) \/ Exit(t)
      PROVE  Stored' = Stored /\ Got' = Got
  <2>1. CASE Lock(t)
    BY <2>1, QuietStep DEF Lock, IInv
  <2>2. CASE Refuse(t)
    BY <2>2, QuietStep DEF Refuse, IInv
  <2>3. CASE ErrorReturn(t)
    BY <2>3, QuietStep DEF ErrorReturn, IInv
  <2>4. CASE Exit(t)
    <3>1. Goto(t, pc[t], "exited") /\ pc[t] # "loaded" /\ UNCHANGED <<buffer, head, rear, item>>
      BY <2>4 DEF Exit, Goto
    <3> QED  BY <3>1, QuietStep DEF IInv
  <2> QED  BY <1>5, <2>1, <2>2, <2>3, <2>4
<1>6. ASSUME NEW t \in Threads, Thread(t)
      PROVE  Queue!Next \/ (Stored' = Stored /\ Got' = Got)
  BY <1>3, <1>4, <1>5, <1>6 DEF Thread
<1> QED  BY <1>1, <1>2, <1>6 DEF Next

\* Whatever is stored is delivered once and in order, never more than BUFFER_SIZE - 1
\* items at a time; in every run.
THEOREM ImplementsBoundedQueue == Spec => IsBoundedQueue
<1>1. IInv /\ [Next]_vars => [Queue!Next]_<<Stored, [c \in Consumers |-> item[c]]>>
  BY QueueNext DEF Got
<1> QED  BY <1>1, QueueInit, Invariance, PTL DEF Spec, IsBoundedQueue, Queue!Spec
=============================================================================
