--------------------------- MODULE SemaphoreProofs ---------------------------
(***************************************************************************)
(* Safety of the two projects that synchronise their threads by semaphores *)
(* and a mutex: SleepingTA here, DiningPhilosophers in the second half.    *)
(*                                                                         *)
(* SleepingTA, for any number of students and chairs: the chairs are a     *)
(* ring, the semaphores balance, and one thread at a time is at the chairs. *)
(*                                                                         *)
(* The TA never finds the ring empty because of the semaphores: while it   *)
(* stands at the chairs it holds the announcement of an occupied one.  So  *)
(* the balance of sem_stu is part of the invariant that the ring needs,    *)
(* and the balance of sem_ta bounds that semaphore.                        *)
(***************************************************************************)
EXTENDS SleepingTA, DiningPhilosophers, ProofLemmas

Seated    == At({"seated", "notify"})
Attending == At({"seated", "notify", "waiting"})

\* Where the TA stands, as the semaphores see it.
Called   == IF ta \in {"awake", "calling"} THEN 1 ELSE 0
Lecture  == IF ta \in {"teaching", "finished"} THEN 1 ELSE 0

\* A chair is occupied if it is one of the `count` next ones; in these words
\* ChairsAreRing has no set in it.
Far(k) == Dist(NUM_SEAT, next_teach, k)
RingInv ==
  /\ \A k \in Seats : chair[k] # 0 <=> Far(k) < count
  /\ next_seat = (next_teach + count) % NUM_SEAT

\* SemaphoresBalance.
BalanceInv ==
  /\ count = sem_stu + Seated + Called
  /\ sem_ta + count + Lecture = 1 + Attending

\* The mutex: whoever is at the chairs is alone there and holds it.
AtChairs(s) == stu[s] \in {"office", "seated", "turned"}
TAInside  == ta \in {"calling", "teaching"}
OneAtChairs ==
  /\ \A s \in Students : AtChairs(s) => locked /\ ~TAInside
  /\ \A s, t \in Students : AtChairs(s) /\ AtChairs(t) => s = t
  /\ TAInside => locked

\* OfficeTypeOK, without the upper bounds of the semaphores: these follow from the balance.
Types ==
  /\ sem_stu \in Nat /\ sem_ta \in Nat
  /\ locked \in BOOLEAN
  /\ chair \in [Seats -> 0..student_num]
  /\ count \in 0..NUM_SEAT
  /\ next_seat \in Seats /\ next_teach \in Seats
  /\ studentStatus \in [Students -> {0, 1}]
  /\ stu \in [Students -> StudentPCs]
  /\ ta \in {"asleep", "awake", "calling", "teaching", "finished"}
  /\ created \in 0..student_num /\ cleared \in 0..student_num

\* The students main has created, in order.
MainInv == \A s \in Students : stu[s] = "none" <=> s > created

IInv == Types /\ RingInv /\ BalanceInv /\ OneAtChairs /\ MainInv

-----------------------------------------------------------------------------
\* There are finitely many students and at least one chair.
LEMMA Sizes ==
  /\ student_num \in Nat /\ NUM_SEAT \in Nat \ {0} /\ Seats = 0..(NUM_SEAT-1)
  /\ IsFiniteSet(Students) /\ Cardinality(Students) = student_num
<1>1. student_num \in Nat
  BY TAAssumption
<1>2. IsFiniteSet(1..student_num) /\ Cardinality(1..student_num) = student_num
  BY <1>1, FS_Interval
<1> QED  BY <1>1, <1>2, TAAssumption DEF Students, Seats

\* RingInv says of the chairs what ChairsAreRing says.
LEMMA WaitingIs ==
  ASSUME Types
  PROVE  \A k \in Seats : k \in Waiting <=> Far(k) < count
<1>1. next_teach \in 0..(NUM_SEAT-1) /\ count \in 0..NUM_SEAT
  BY Sizes DEF Types
<1>2. \A d \in 0..(NUM_SEAT-1) : \A k \in Seats :
        (next_teach + d) % NUM_SEAT = k <=> Far(k) = d
  BY <1>1, Sizes, DistInverse DEF Far
<1>3. \A k \in Seats : Far(k) \in 0..(NUM_SEAT-1)
  BY <1>1, Sizes, DistMoves DEF Far
<1>4. \A k \in Seats : k \in Waiting <=> \E d \in 0..(count-1) : (next_teach + d) % NUM_SEAT = k
  BY DEF Waiting
<1>5. ASSUME NEW k \in Seats  PROVE k \in Waiting <=> Far(k) < count
  <2>1. ASSUME NEW d \in 0..(count-1), (next_teach + d) % NUM_SEAT = k
        PROVE  Far(k) < count
    <3>1. d \in 0..(NUM_SEAT-1) /\ d < count
      BY <1>1, Sizes
    <3> QED  BY <2>1, <3>1, <1>2
  <2>2. ASSUME Far(k) < count
        PROVE  \E d \in 0..(count-1) : (next_teach + d) % NUM_SEAT = k
    <3>1. Far(k) \in 0..(count-1)
      BY <2>2, <1>1, <1>3
    <3> QED  BY <3>1, <1>2, <1>3
  <2> QED  BY <1>4, <2>1, <2>2
<1> QED  BY <1>5

\* The numbers of students are numbers, at most all of them.
LEMMA CountTypes ==
  /\ Seated \in Nat /\ Attending \in 0..student_num
  /\ Seated' \in Nat /\ Attending' \in 0..student_num
<1> DEFINE A == {"seated", "notify"}
           B == {"seated", "notify", "waiting"}
<1>1. /\ Seated = Number(Students, stu, A) /\ Seated' = Number(Students, stu', A)
      /\ Attending = Number(Students, stu, B) /\ Attending' = Number(Students, stu', B)
  BY DEF Seated, Attending, At, Number
<1> HIDE DEF A, B
<1>2. Seated \in Nat /\ Attending \in Nat /\ Seated' \in Nat /\ Attending' \in Nat
  BY <1>1, Sizes, NumberType
<1>3. Attending <= student_num /\ Attending' <= student_num
  BY <1>1, Sizes, NumberBound
<1> QED  BY <1>2, <1>3, Sizes

\* So the semaphores are bounded.
LEMMA TypesRight == IInv => OfficeTypeOK
<1> SUFFICES ASSUME IInv  PROVE OfficeTypeOK
  OBVIOUS
<1>1. Seated \in Nat /\ Called \in Nat /\ Lecture \in Nat /\ Attending \in 0..student_num
  BY CountTypes DEF Called, Lecture
<1>2. /\ sem_stu \in Nat /\ sem_ta \in Nat /\ count \in 0..NUM_SEAT
      /\ count = sem_stu + Seated + Called
      /\ sem_ta + count + Lecture = 1 + Attending
  BY DEF IInv, Types, BalanceInv
<1>3. sem_stu \in 0..NUM_SEAT /\ sem_ta \in 0..(student_num + 1)
  BY <1>1, <1>2, Sizes
<1> QED  BY <1>3 DEF IInv, Types, OfficeTypeOK

Bit(b) == IF b THEN 1 ELSE 0

\* What a step of student s does to them.
LEMMA CountSteps ==
  ASSUME Types, NEW s \in Students, NEW from, NEW to, Walk(s, from, to)
  PROVE  /\ Seated' = Seated + Bit(to \in {"seated", "notify"}) - Bit(from \in {"seated", "notify"})
         /\ Attending' = Attending + Bit(to \in {"seated", "notify", "waiting"})
                                   - Bit(from \in {"seated", "notify", "waiting"})
<1> DEFINE A == {"seated", "notify"}
           B == {"seated", "notify", "waiting"}
<1>1. stu[s] = from /\ stu'[s] = to /\ \A u \in Students \ {s} : stu'[u] = stu[u]
  BY DEF Walk, Types
<1>2. /\ Seated = Number(Students, stu, A) /\ Seated' = Number(Students, stu', A)
      /\ Attending = Number(Students, stu, B) /\ Attending' = Number(Students, stu', B)
  BY DEF Seated, Attending, At, Number
<1>3. SameBut(Students, s, stu, stu')
  BY <1>1 DEF SameBut
<1> HIDE DEF A, B
<1>4. Seated' = Seated + Bit(stu'[s] \in A) - Bit(stu[s] \in A)
  BY ZenonT(30), <1>2, <1>3, Sizes, NumberStep DEF Bit
<1>5. Attending' = Attending + Bit(stu'[s] \in B) - Bit(stu[s] \in B)
  BY ZenonT(30), <1>2, <1>3, Sizes, NumberStep DEF Bit
<1> QED  BY <1>1, <1>4, <1>5 DEF A, B

\* The next chair to sit down on is free, and it is the one `count` places on.
LEMMA NextSeatIs ==
  ASSUME Types, RingInv, count < NUM_SEAT
  PROVE  /\ \A k \in Seats : k = next_seat <=> Far(k) = count
         /\ Succ(next_seat) \in Seats
         /\ Succ(next_seat) = (next_teach + (count + 1)) % NUM_SEAT
<1>1. next_teach \in 0..(NUM_SEAT-1) /\ count \in 0..(NUM_SEAT-1)
  BY Sizes DEF Types
<1>2. \A k \in Seats : (next_teach + count) % NUM_SEAT = k <=> Far(k) = count
  BY <1>1, Sizes, DistInverse DEF Far
<1>3. next_seat \in 0..(NUM_SEAT-1)
  BY Sizes DEF Types
<1>4. Succ(next_seat) = (IF next_seat = NUM_SEAT - 1 THEN 0 ELSE next_seat + 1)
  BY <1>3, Sizes, AfterIs DEF Succ, After
<1>5. (next_teach + (count + 1)) % NUM_SEAT = Succ(next_seat)
  <2>1. Far(next_seat) = count
    BY <1>2, Sizes DEF RingInv, Types
  <2>2. Far(next_seat) = IF next_teach <= next_seat THEN next_seat - next_teach
                                                  ELSE next_seat - next_teach + NUM_SEAT
    BY <1>1, <1>3, Sizes, DistIs DEF Far
  <2>3. CASE next_seat = NUM_SEAT - 1
    <3>1. next_teach + (count + 1) = 0 + NUM_SEAT
      BY <2>1, <2>2, <2>3, <1>1, <1>3, Sizes
    <3>2. 0 \in 0..(NUM_SEAT-1)
      BY Sizes
    <3> QED  BY <3>1, <3>2, <1>4, <2>3, Sizes, ModAbove
  <2>4. CASE next_seat # NUM_SEAT - 1
    <3>1. next_seat + 1 \in 0..(NUM_SEAT-1)
      BY <2>4, <1>3, Sizes
    <3>2. (next_seat + 1) % NUM_SEAT = next_seat + 1 /\ ((next_seat + 1) + NUM_SEAT) % NUM_SEAT = next_seat + 1
      BY <3>1, Sizes, ModInside, ModAbove
    <3>3. next_teach + (count + 1) = next_seat + 1 \/ next_teach + (count + 1) = (next_seat + 1) + NUM_SEAT
      BY <2>1, <2>2, <1>1, <1>3, Sizes
    <3> QED  BY <3>2, <3>3, <1>4, <2>4
  <2> QED  BY <2>3, <2>4
<1>6. Succ(next_seat) \in Seats
  BY <1>3, <1>4, Sizes
<1> QED  BY <1>2, <1>5, <1>6 DEF RingInv

\* The TA moves on by one chair.
LEMMA NextTeachIs ==
  ASSUME Types, count >= 1, next_seat = (next_teach + count) % NUM_SEAT
  PROVE  /\ \A k \in Seats : k = next_teach <=> Far(k) = 0
         /\ Succ(next_teach) \in Seats
         /\ \A k \in Seats : Dist(NUM_SEAT, Succ(next_teach), k)
                               = (IF k = next_teach THEN NUM_SEAT ELSE Far(k)) - 1
         /\ next_seat = (Succ(next_teach) + (count - 1)) % NUM_SEAT
<1>1. next_teach \in 0..(NUM_SEAT-1) /\ next_seat \in 0..(NUM_SEAT-1) /\ count \in 1..NUM_SEAT
  BY Sizes DEF Types
<1>2. Succ(next_teach) = (IF next_teach = NUM_SEAT - 1 THEN 0 ELSE next_teach + 1)
  BY <1>1, Sizes, AfterIs DEF Succ, After
<1>3. Succ(next_teach) \in 0..(NUM_SEAT-1)
  BY <1>1, <1>2, Sizes
<1>4. \A k \in Seats : /\ Far(k) = (IF next_teach <= k THEN k - next_teach
                                                      ELSE k - next_teach + NUM_SEAT)
                       /\ Dist(NUM_SEAT, Succ(next_teach), k)
                            = (IF Succ(next_teach) <= k THEN k - Succ(next_teach)
                                                       ELSE k - Succ(next_teach) + NUM_SEAT)
  BY <1>1, <1>3, Sizes, DistIs DEF Far
<1>5. ASSUME NEW k \in Seats
      PROVE  /\ k = next_teach <=> Far(k) = 0
             /\ Dist(NUM_SEAT, Succ(next_teach), k)
                  = (IF k = next_teach THEN NUM_SEAT ELSE Far(k)) - 1
  <2>1. k \in 0..(NUM_SEAT-1) /\ NUM_SEAT \in Nat \ {0}
    BY Sizes
  <2>2. Far(k) = IF next_teach <= k THEN k - next_teach ELSE k - next_teach + NUM_SEAT
    BY <1>4
  <2>3. Dist(NUM_SEAT, Succ(next_teach), k)
          = IF Succ(next_teach) <= k THEN k - Succ(next_teach)
                                     ELSE k - Succ(next_teach) + NUM_SEAT
    BY <1>4
  <2> HIDE DEF Far
  <2> QED  BY <1>1, <1>2, <2>1, <2>2, <2>3
<1>6. count - 1 \in 0..(NUM_SEAT-1)
  BY <1>1, Sizes
<1>7. (Succ(next_teach) + (count - 1)) % NUM_SEAT = next_seat
  <2>1. CASE next_teach = NUM_SEAT - 1
    <3>1. next_teach + count = (count - 1) + NUM_SEAT /\ Succ(next_teach) + (count - 1) = count - 1
      BY <2>1, <1>1, <1>2, Sizes
    <3>2. ((count - 1) + NUM_SEAT) % NUM_SEAT = count - 1 /\ (count - 1) % NUM_SEAT = count - 1
      BY <1>6, Sizes, ModAbove, ModInside
    <3> QED  BY <3>1, <3>2
  <2>2. CASE next_teach # NUM_SEAT - 1
    <3>1. Succ(next_teach) + (count - 1) = next_teach + count
      BY <2>2, <1>1, <1>2, Sizes
    <3> QED  BY <3>1
  <2> QED  BY <2>1, <2>2
<1> QED  BY <1>3, <1>5, <1>7, Sizes

\* The TA at the chairs has been told of an occupied one.
LEMMA CallsSomebody ==
  ASSUME Types, RingInv, BalanceInv, ta \in {"awake", "calling"}
  PROVE  count >= 1 /\ chair[next_teach] \in Students
<1>1. count >= 1
  BY CountTypes DEF Types, BalanceInv, Called
<1>2. Far(next_teach) = 0 /\ next_teach \in Seats
  BY Sizes, DistMoves DEF Types, Far
<1>3. chair[next_teach] # 0
  BY <1>1, <1>2 DEF RingInv, Types
<1> QED  BY <1>1, <1>2, <1>3, Sizes DEF Types, Students

-----------------------------------------------------------------------------
(* One lemma per action. *)

\* A student gets the mutex.
LEMMA EnterOfficeKeeps ==
  ASSUME IInv, NEW s \in Students, EnterOffice(s)
  PROVE  IInv'
<1>1. Types /\ RingInv /\ BalanceInv /\ OneAtChairs /\ MainInv
  BY DEF IInv
<1>2. Seated' = Seated /\ Attending' = Attending
  <2>1. Walk(s, "programming", "office")
    BY DEF EnterOffice
  <2> QED  BY <1>1, <2>1, CountSteps, CountTypes DEF Bit
<1>3. RingInv'
  BY <1>1 DEF RingInv, Far, EnterOffice, chairVars, mainVars
<1>4. BalanceInv'
  BY <1>1, <1>2, CountTypes, Sizes DEF BalanceInv, Called, Lecture, Types, EnterOffice, chairVars, mainVars
<1>5. OneAtChairs'
  BY <1>1 DEF OneAtChairs, AtChairs, TAInside, Types, EnterOffice, Walk, chairVars, mainVars
<1>6. MainInv'
  BY <1>1, Sizes DEF MainInv, Types, Students, EnterOffice, Walk, chairVars, mainVars
<1>7. Types'
  <2>1. sem_stu' \in Nat /\ sem_ta' \in Nat /\ count' \in 0..NUM_SEAT
    BY <1>1, Sizes DEF Types, EnterOffice, chairVars, mainVars
  <2> QED
    BY <1>1, <2>1, Sizes DEF Types, StudentPCs, EnterOffice, Walk, chairVars, mainVars
<1> QED  BY <1>3, <1>4, <1>5, <1>6, <1>7 DEF IInv

\* It sits down behind the others.
LEMMA SitKeeps ==
  ASSUME IInv, NEW s \in Students, Sit(s)
  PROVE  IInv'
<1>1. Types /\ RingInv /\ BalanceInv /\ OneAtChairs /\ MainInv
  BY DEF IInv
<1>2. Seated' = Seated + 1 /\ Attending' = Attending + 1
  <2>1. Walk(s, "office", "seated")
    BY DEF Sit
  <2> QED  BY <1>1, <2>1, CountSteps, CountTypes DEF Bit
<1>3. count < NUM_SEAT /\ count \in Nat /\ next_seat \in Seats
  BY <1>1, Sizes DEF Sit, MaySit, Types
<1>4. /\ \A k \in Seats : k = next_seat <=> Far(k) = count
      /\ Succ(next_seat) \in Seats
      /\ Succ(next_seat) = (next_teach + (count + 1)) % NUM_SEAT
  BY <1>1, <1>3, NextSeatIs
<1>5. \A k \in Seats : Far(k) \in 0..(NUM_SEAT-1) /\ Far(k)' = Far(k)
  BY <1>1, Sizes, DistMoves DEF Far, Sit, Types
<1>6. s \in 1..student_num /\ s # 0
  BY Sizes DEF Students
<1>7. RingInv'
  <2>1. \A k \in Seats : chair'[k] = IF k = next_seat THEN s ELSE chair[k]
    BY <1>1, <1>3 DEF Sit, Types
  <2>2. ASSUME NEW k \in Seats
        PROVE  Far(k) < count + 1 <=> Far(k) < count \/ Far(k) = count
    <3>1. Far(k) \in Int
      BY <1>5, Sizes
    <3> QED  BY <1>3, <3>1
  <2>3. \A k \in Seats : chair'[k] # 0 <=> Far(k)' < count'
    BY <1>1, <1>4, <1>5, <1>6, <2>1, <2>2 DEF RingInv, Sit
  <2> QED  BY <1>4, <2>3 DEF RingInv, Sit
<1>8. BalanceInv'
  BY <1>1, <1>2, <1>3, <1>4, <1>6, CountTypes, Sizes DEF BalanceInv, Called, Lecture, Types, Sit, mainVars
<1>9. OneAtChairs'
  BY <1>1 DEF OneAtChairs, AtChairs, TAInside, Types, Sit, Walk, MaySit, mainVars
<1>10. MainInv'
  BY <1>1, Sizes DEF MainInv, Types, Students, Sit, Walk, MaySit, mainVars
<1>11. Types'
  <2>1. sem_stu' \in Nat /\ sem_ta' \in Nat /\ count' \in 0..NUM_SEAT
    BY <1>1, <1>3, Sizes DEF Types, Sit, MaySit, mainVars
  <2> QED
    BY <1>1, <1>3, <1>4, <1>6, <2>1, Sizes DEF Types, StudentPCs, Sit, Walk, MaySit, mainVars
<1> QED  BY <1>7, <1>8, <1>9, <1>10, <1>11 DEF IInv

\* It leaves the chairs, and is still to announce itself.
LEMMA SeatedUnlockKeeps ==
  ASSUME IInv, NEW s \in Students, SeatedUnlock(s)
  PROVE  IInv'
<1>1. Types /\ RingInv /\ BalanceInv /\ OneAtChairs /\ MainInv
  BY DEF IInv
<1>2. Seated' = Seated /\ Attending' = Attending
  <2>1. Walk(s, "seated", "notify")
    BY DEF SeatedUnlock
  <2> QED  BY <1>1, <2>1, CountSteps, CountTypes DEF Bit
<1>3. RingInv'
  BY <1>1 DEF RingInv, Far, SeatedUnlock, chairVars, mainVars
<1>4. BalanceInv'
  BY <1>1, <1>2, CountTypes, Sizes DEF BalanceInv, Called, Lecture, Types, SeatedUnlock, chairVars, mainVars
<1>5. OneAtChairs'
  BY <1>1 DEF OneAtChairs, AtChairs, TAInside, Types, SeatedUnlock, Walk, chairVars, mainVars
<1>6. MainInv'
  BY <1>1, Sizes DEF MainInv, Types, Students, SeatedUnlock, Walk, chairVars, mainVars
<1>7. Types'
  <2>1. sem_stu' \in Nat /\ sem_ta' \in Nat /\ count' \in 0..NUM_SEAT
    BY <1>1, Sizes DEF Types, SeatedUnlock, chairVars, mainVars
  <2> QED
    BY <1>1, <2>1, Sizes DEF Types, StudentPCs, SeatedUnlock, Walk, chairVars, mainVars
<1> QED  BY <1>3, <1>4, <1>5, <1>6, <1>7 DEF IInv

\* The chair's announcement goes to sem_stu.
LEMMA NotifyTAKeeps ==
  ASSUME IInv, NEW s \in Students, NotifyTA(s)
  PROVE  IInv'
<1>1. Types /\ RingInv /\ BalanceInv /\ OneAtChairs /\ MainInv
  BY DEF IInv
<1>2. Seated' = Seated - 1 /\ Attending' = Attending
  <2>1. Walk(s, "notify", "waiting")
    BY DEF NotifyTA
  <2> QED  BY <1>1, <2>1, CountSteps, CountTypes DEF Bit
<1>3. RingInv'
  BY <1>1 DEF RingInv, Far, NotifyTA, chairVars, mainVars
<1>4. BalanceInv'
  BY <1>1, <1>2, CountTypes, Sizes DEF BalanceInv, Called, Lecture, Types, NotifyTA, chairVars, mainVars
<1>5. OneAtChairs'
  BY <1>1 DEF OneAtChairs, AtChairs, TAInside, Types, NotifyTA, Walk, chairVars, mainVars
<1>6. MainInv'
  BY <1>1, Sizes DEF MainInv, Types, Students, NotifyTA, Walk, chairVars, mainVars
<1>7. Types'
  <2>1. sem_stu' \in Nat /\ sem_ta' \in Nat /\ count' \in 0..NUM_SEAT
    BY <1>1, Sizes DEF Types, NotifyTA, chairVars, mainVars
  <2> QED
    BY <1>1, <2>1, Sizes DEF Types, StudentPCs, NotifyTA, Walk, chairVars, mainVars
<1> QED  BY <1>3, <1>4, <1>5, <1>6, <1>7 DEF IInv

\* A student is released.
LEMMA AwaitTAKeeps ==
  ASSUME IInv, NEW s \in Students, AwaitTA(s)
  PROVE  IInv'
<1>1. Types /\ RingInv /\ BalanceInv /\ OneAtChairs /\ MainInv
  BY DEF IInv
<1>2. Seated' = Seated /\ Attending' = Attending - 1
  <2>1. Walk(s, "waiting", "programming")
    BY DEF AwaitTA
  <2> QED  BY <1>1, <2>1, CountSteps, CountTypes DEF Bit
<1>3. RingInv'
  BY <1>1 DEF RingInv, Far, AwaitTA, chairVars, mainVars
<1>4. BalanceInv'
  BY <1>1, <1>2, CountTypes, Sizes DEF BalanceInv, Called, Lecture, Types, AwaitTA, chairVars, mainVars
<1>5. OneAtChairs'
  BY <1>1 DEF OneAtChairs, AtChairs, TAInside, Types, AwaitTA, Walk, chairVars, mainVars
<1>6. MainInv'
  BY <1>1, Sizes DEF MainInv, Types, Students, AwaitTA, Walk, chairVars, mainVars
<1>7. Types'
  <2>1. sem_stu' \in Nat /\ sem_ta' \in Nat /\ count' \in 0..NUM_SEAT
    BY <1>1, Sizes DEF Types, AwaitTA, chairVars, mainVars
  <2> QED
    BY <1>1, <2>1, Sizes DEF Types, StudentPCs, AwaitTA, Walk, chairVars, mainVars
<1> QED  BY <1>3, <1>4, <1>5, <1>6, <1>7 DEF IInv

\* A student finds no chair, or has been taught.
LEMMA TurnAwayKeeps ==
  ASSUME IInv, NEW s \in Students, TurnAway(s)
  PROVE  IInv'
<1>1. Types /\ RingInv /\ BalanceInv /\ OneAtChairs /\ MainInv
  BY DEF IInv
<1>2. Seated' = Seated /\ Attending' = Attending
  <2>1. Walk(s, "office", "turned")
    BY DEF TurnAway
  <2> QED  BY <1>1, <2>1, CountSteps, CountTypes DEF Bit
<1>3. RingInv'
  BY <1>1 DEF RingInv, Far, TurnAway, chairVars, mainVars
<1>4. BalanceInv'
  BY <1>1, <1>2, CountTypes, Sizes DEF BalanceInv, Called, Lecture, Types, TurnAway, chairVars, mainVars
<1>5. OneAtChairs'
  BY <1>1 DEF OneAtChairs, AtChairs, TAInside, Types, TurnAway, Walk, chairVars, mainVars
<1>6. MainInv'
  BY <1>1, Sizes DEF MainInv, Types, Students, TurnAway, Walk, chairVars, mainVars
<1>7. Types'
  <2>1. sem_stu' \in Nat /\ sem_ta' \in Nat /\ count' \in 0..NUM_SEAT
    BY <1>1, Sizes DEF Types, TurnAway, chairVars, mainVars
  <2> QED
    BY <1>1, <2>1, Sizes DEF Types, StudentPCs, TurnAway, Walk, chairVars, mainVars
<1> QED  BY <1>3, <1>4, <1>5, <1>6, <1>7 DEF IInv

\* A student that has been taught leaves.
LEMMA LeaveKeeps ==
  ASSUME IInv, NEW s \in Students, Leave(s)
  PROVE  IInv'
<1>1. Types /\ RingInv /\ BalanceInv /\ OneAtChairs /\ MainInv
  BY DEF IInv
<1>2. Seated' = Seated /\ Attending' = Attending
  <2>1. Walk(s, "turned", "gone")
    BY DEF Leave
  <2> QED  BY <1>1, <2>1, CountSteps, CountTypes DEF Bit
<1>3. RingInv'
  BY <1>1 DEF RingInv, Far, Leave, chairVars, mainVars
<1>4. BalanceInv'
  BY <1>1, <1>2, CountTypes, Sizes DEF BalanceInv, Called, Lecture, Types, Leave, chairVars, mainVars
<1>5. OneAtChairs'
  BY <1>1 DEF OneAtChairs, AtChairs, TAInside, Types, Leave, Walk, chairVars, mainVars
<1>6. MainInv'
  BY <1>1, Sizes DEF MainInv, Types, Students, Leave, Walk, chairVars, mainVars
<1>7. Types'
  <2>1. sem_stu' \in Nat /\ sem_ta' \in Nat /\ count' \in 0..NUM_SEAT
    BY <1>1, Sizes DEF Types, Leave, chairVars, mainVars
  <2> QED
    BY <1>1, <2>1, Sizes DEF Types, StudentPCs, Leave, Walk, chairVars, mainVars
<1> QED  BY <1>3, <1>4, <1>5, <1>6, <1>7 DEF IInv

\* A student that has not been taught goes home.
LEMMA TurnedUnlockKeeps ==
  ASSUME IInv, NEW s \in Students, TurnedUnlock(s)
  PROVE  IInv'
<1>1. Types /\ RingInv /\ BalanceInv /\ OneAtChairs /\ MainInv
  BY DEF IInv
<1>2. Seated' = Seated /\ Attending' = Attending
  <2>1. Walk(s, "turned", "home")
    BY DEF TurnedUnlock
  <2> QED  BY <1>1, <2>1, CountSteps, CountTypes DEF Bit
<1>3. RingInv'
  BY <1>1 DEF RingInv, Far, TurnedUnlock, chairVars, mainVars
<1>4. BalanceInv'
  BY <1>1, <1>2, CountTypes, Sizes DEF BalanceInv, Called, Lecture, Types, TurnedUnlock, chairVars, mainVars
<1>5. OneAtChairs'
  BY <1>1 DEF OneAtChairs, AtChairs, TAInside, Types, TurnedUnlock, Walk, chairVars, mainVars
<1>6. MainInv'
  BY <1>1, Sizes DEF MainInv, Types, Students, TurnedUnlock, Walk, chairVars, mainVars
<1>7. Types'
  <2>1. sem_stu' \in Nat /\ sem_ta' \in Nat /\ count' \in 0..NUM_SEAT
    BY <1>1, Sizes DEF Types, TurnedUnlock, chairVars, mainVars
  <2> QED
    BY <1>1, <2>1, Sizes DEF Types, StudentPCs, TurnedUnlock, Walk, chairVars, mainVars
<1> QED  BY <1>3, <1>4, <1>5, <1>6, <1>7 DEF IInv

\* At home, its status is cleared again.
LEMMA GoHomeKeeps ==
  ASSUME IInv, NEW s \in Students, GoHome(s)
  PROVE  IInv'
<1>1. Types /\ RingInv /\ BalanceInv /\ OneAtChairs /\ MainInv
  BY DEF IInv
<1>2. Seated' = Seated /\ Attending' = Attending
  <2>1. Walk(s, "home", "programming")
    BY DEF GoHome
  <2> QED  BY <1>1, <2>1, CountSteps, CountTypes DEF Bit
<1>3. RingInv'
  BY <1>1 DEF RingInv, Far, GoHome, chairVars, mainVars
<1>4. BalanceInv'
  BY <1>1, <1>2, CountTypes, Sizes DEF BalanceInv, Called, Lecture, Types, GoHome, chairVars, mainVars
<1>5. OneAtChairs'
  BY <1>1 DEF OneAtChairs, AtChairs, TAInside, Types, GoHome, Walk, chairVars, mainVars
<1>6. MainInv'
  BY <1>1, Sizes DEF MainInv, Types, Students, GoHome, Walk, chairVars, mainVars
<1>7. Types'
  <2>1. sem_stu' \in Nat /\ sem_ta' \in Nat /\ count' \in 0..NUM_SEAT
    BY <1>1, Sizes DEF Types, GoHome, chairVars, mainVars
  <2> QED
    BY <1>1, <2>1, Sizes DEF Types, StudentPCs, GoHome, Walk, chairVars, mainVars
<1> QED  BY <1>3, <1>4, <1>5, <1>6, <1>7 DEF IInv

\* main starts a student.
LEMMA CreateStudentKeeps ==
  ASSUME IInv, CreateStudent
  PROVE  IInv'
<1>1. Types /\ RingInv /\ BalanceInv /\ OneAtChairs /\ MainInv
  BY DEF IInv
<1>2. Seated' = Seated /\ Attending' = Attending
  <2>1. created + 1 \in Students
    BY <1>1, Sizes DEF CreateStudent, Types, Students
  <2>2. Walk(created + 1, "none", "programming")
    <3>1. created \in Nat /\ created + 1 > created
      BY <1>1, Sizes DEF Types
    <3>2. stu[created + 1] = "none"
      BY <1>1, <2>1, <3>1 DEF MainInv
    <3> QED  BY <3>2 DEF CreateStudent, Walk
  <2> QED  BY <1>1, <2>1, <2>2, CountSteps, CountTypes DEF Bit
<1>3. RingInv'
  BY <1>1 DEF RingInv, Far, CreateStudent, chairVars
<1>4. BalanceInv'
  BY <1>1, <1>2, CountTypes, Sizes DEF BalanceInv, Called, Lecture, Types, CreateStudent, chairVars
<1>5. OneAtChairs'
  BY <1>1 DEF OneAtChairs, AtChairs, TAInside, Types, CreateStudent, chairVars
<1>6. MainInv'
  BY <1>1, Sizes DEF MainInv, Types, Students, CreateStudent, chairVars
<1>7. Types'
  <2>1. sem_stu' \in Nat /\ sem_ta' \in Nat /\ count' \in 0..NUM_SEAT
    BY <1>1, Sizes DEF Types, CreateStudent, chairVars
  <2> QED
    BY SMTT(30), <1>1, <2>1, Sizes DEF Types, StudentPCs, CreateStudent, chairVars, Students
<1> QED  BY <1>3, <1>4, <1>5, <1>6, <1>7 DEF IInv

\* main clears the status of the student it has started.
LEMMA ClearStatusKeeps ==
  ASSUME IInv, ClearStatus
  PROVE  IInv'
<1>1. Types /\ RingInv /\ BalanceInv /\ OneAtChairs /\ MainInv
  BY DEF IInv
<1>2. Seated' = Seated /\ Attending' = Attending
  BY DEF Seated, Attending, At, ClearStatus
<1>3. RingInv'
  BY <1>1 DEF RingInv, Far, ClearStatus, chairVars
<1>4. BalanceInv'
  BY <1>1, <1>2, CountTypes, Sizes DEF BalanceInv, Called, Lecture, Types, ClearStatus, chairVars
<1>5. OneAtChairs'
  BY <1>1 DEF OneAtChairs, AtChairs, TAInside, Types, ClearStatus, chairVars
<1>6. MainInv'
  BY <1>1, Sizes DEF MainInv, Types, Students, ClearStatus, chairVars
<1>7. Types'
  <2>1. sem_stu' \in Nat /\ sem_ta' \in Nat /\ count' \in 0..NUM_SEAT
    BY <1>1, Sizes DEF Types, ClearStatus, chairVars
  <2> QED
    BY <1>1, <2>1, Sizes DEF Types, StudentPCs, ClearStatus, chairVars, Students
<1> QED  BY <1>3, <1>4, <1>5, <1>6, <1>7 DEF IInv

\* An announcement goes from sem_stu to the TA.
LEMMA WakeUpKeeps ==
  ASSUME IInv, WakeUp
  PROVE  IInv'
<1>1. Types /\ RingInv /\ BalanceInv /\ OneAtChairs /\ MainInv
  BY DEF IInv
<1>2. Seated' = Seated /\ Attending' = Attending
  BY DEF Seated, Attending, At, WakeUp
<1>3. RingInv'
  BY <1>1 DEF RingInv, Far, WakeUp, chairVars, mainVars
<1>4. BalanceInv'
  BY <1>1, <1>2, CountTypes, Sizes DEF BalanceInv, Called, Lecture, Types, WakeUp, chairVars, mainVars
<1>5. OneAtChairs'
  BY <1>1 DEF OneAtChairs, AtChairs, TAInside, Types, WakeUp, chairVars, mainVars
<1>6. MainInv'
  BY <1>1, Sizes DEF MainInv, Types, Students, WakeUp, chairVars, mainVars
<1>7. Types'
  <2>1. sem_stu' \in Nat /\ sem_ta' \in Nat /\ count' \in 0..NUM_SEAT
    BY <1>1, Sizes DEF Types, WakeUp, chairVars, mainVars
  <2> QED
    BY <1>1, <2>1, Sizes DEF Types, StudentPCs, WakeUp, chairVars, mainVars
<1> QED  BY <1>3, <1>4, <1>5, <1>6, <1>7 DEF IInv

\* The TA gets the mutex.
LEMMA LockChairsKeeps ==
  ASSUME IInv, LockChairs
  PROVE  IInv'
<1>1. Types /\ RingInv /\ BalanceInv /\ OneAtChairs /\ MainInv
  BY DEF IInv
<1>2. Seated' = Seated /\ Attending' = Attending
  BY DEF Seated, Attending, At, LockChairs
<1>3. RingInv'
  BY <1>1 DEF RingInv, Far, LockChairs, chairVars, mainVars
<1>4. BalanceInv'
  BY <1>1, <1>2, CountTypes, Sizes DEF BalanceInv, Called, Lecture, Types, LockChairs, chairVars, mainVars
<1>5. OneAtChairs'
  BY <1>1 DEF OneAtChairs, AtChairs, TAInside, Types, LockChairs, chairVars, mainVars
<1>6. MainInv'
  BY <1>1, Sizes DEF MainInv, Types, Students, LockChairs, chairVars, mainVars
<1>7. Types'
  <2>1. sem_stu' \in Nat /\ sem_ta' \in Nat /\ count' \in 0..NUM_SEAT
    BY <1>1, Sizes DEF Types, LockChairs, chairVars, mainVars
  <2> QED
    BY <1>1, <2>1, Sizes DEF Types, StudentPCs, LockChairs, chairVars, mainVars
<1> QED  BY <1>3, <1>4, <1>5, <1>6, <1>7 DEF IInv

\* The TA takes the student of the oldest chair.
LEMMA TeachKeeps ==
  ASSUME IInv, Teach
  PROVE  IInv'
<1>1. Types /\ RingInv /\ BalanceInv /\ OneAtChairs /\ MainInv
  BY DEF IInv
<1>2. Seated' = Seated /\ Attending' = Attending
  BY DEF Seated, Attending, At, Teach
<1>3. count \in 1..NUM_SEAT /\ chair[next_teach] \in Students /\ next_teach \in Seats
  BY <1>1, CallsSomebody, Sizes DEF Teach, Types
<1>4. /\ \A k \in Seats : k = next_teach <=> Far(k) = 0
      /\ Succ(next_teach) \in Seats
      /\ \A k \in Seats : Dist(NUM_SEAT, Succ(next_teach), k)
                            = (IF k = next_teach THEN NUM_SEAT ELSE Far(k)) - 1
      /\ next_seat = (Succ(next_teach) + (count - 1)) % NUM_SEAT
  BY <1>1, <1>3, NextTeachIs, Sizes DEF RingInv
<1>5. \A k \in Seats : Far(k) \in 0..(NUM_SEAT-1)
  BY <1>1, Sizes, DistMoves DEF Far, Types
<1>6. \A k \in Seats : Far(k)' = (IF k = next_teach THEN NUM_SEAT ELSE Far(k)) - 1
  BY <1>4 DEF Far, Teach
<1>7. RingInv'
  <2>1. \A k \in Seats : chair'[k] = IF k = next_teach THEN 0 ELSE chair[k]
    BY <1>1, <1>3 DEF Teach, Types
  <2>2. ASSUME NEW k \in Seats
        PROVE  Far(k)' < count - 1 <=> k # next_teach /\ Far(k) < count
    <3>1. Far(k) \in 0..(NUM_SEAT-1) /\ Far(k)' = (IF k = next_teach THEN NUM_SEAT ELSE Far(k)) - 1
      BY <1>5, <1>6
    <3> QED  BY <1>3, <3>1, Sizes
  <2>3. \A k \in Seats : chair'[k] # 0 <=> Far(k)' < count'
    BY <1>1, <2>1, <2>2 DEF RingInv, Teach
  <2> QED  BY <1>4, <2>3 DEF RingInv, Teach
<1>8. BalanceInv'
  BY <1>1, <1>2, <1>3, <1>4, CountTypes, Sizes DEF BalanceInv, Called, Lecture, Types, Teach, mainVars
<1>9. OneAtChairs'
  BY <1>1 DEF OneAtChairs, AtChairs, TAInside, Types, Teach, mainVars
<1>10. MainInv'
  BY <1>1, Sizes DEF MainInv, Types, Students, Teach, mainVars
<1>11. Types'
  <2>1. sem_stu' \in Nat /\ sem_ta' \in Nat /\ count' \in 0..NUM_SEAT
    BY <1>1, <1>3, Sizes DEF Types, Teach, mainVars
  <2>2. chair' \in [Seats -> 0..student_num]
    <3>1. chair \in [Seats -> 0..student_num] /\ 0 \in 0..student_num
      BY <1>1, Sizes DEF Types
    <3> QED  BY <3>1 DEF Teach
  <2>3. studentStatus' \in [Students -> {0, 1}]
    BY <1>1, <1>3, <1>4 DEF Types, Teach
  <2>4. next_teach' \in Seats /\ ta' = "teaching"
    BY <1>1, <1>3, <1>4, Sizes DEF Types, Teach
  <2> QED
    BY <1>1, <2>1, <2>2, <2>3, <2>4 DEF Types, Teach, mainVars
<1> QED  BY <1>7, <1>8, <1>9, <1>10, <1>11 DEF IInv

\* It leaves the chairs.
LEMMA UnlockChairsKeeps ==
  ASSUME IInv, UnlockChairs
  PROVE  IInv'
<1>1. Types /\ RingInv /\ BalanceInv /\ OneAtChairs /\ MainInv
  BY DEF IInv
<1>2. Seated' = Seated /\ Attending' = Attending
  BY DEF Seated, Attending, At, UnlockChairs
<1>3. RingInv'
  BY <1>1 DEF RingInv, Far, UnlockChairs, chairVars, mainVars
<1>4. BalanceInv'
  BY <1>1, <1>2, CountTypes, Sizes DEF BalanceInv, Called, Lecture, Types, UnlockChairs, chairVars, mainVars
<1>5. OneAtChairs'
  BY <1>1 DEF OneAtChairs, AtChairs, TAInside, Types, UnlockChairs, chairVars, mainVars
<1>6. MainInv'
  BY <1>1, Sizes DEF MainInv, Types, Students, UnlockChairs, chairVars, mainVars
<1>7. Types'
  <2>1. sem_stu' \in Nat /\ sem_ta' \in Nat /\ count' \in 0..NUM_SEAT
    BY <1>1, Sizes DEF Types, UnlockChairs, chairVars, mainVars
  <2> QED
    BY <1>1, <2>1, Sizes DEF Types, StudentPCs, UnlockChairs, chairVars, mainVars
<1> QED  BY <1>3, <1>4, <1>5, <1>6, <1>7 DEF IInv

\* The end of the lesson goes to sem_ta.
LEMMA ReleaseStudentKeeps ==
  ASSUME IInv, ReleaseStudent
  PROVE  IInv'
<1>1. Types /\ RingInv /\ BalanceInv /\ OneAtChairs /\ MainInv
  BY DEF IInv
<1>2. Seated' = Seated /\ Attending' = Attending
  BY DEF Seated, Attending, At, ReleaseStudent
<1>3. RingInv'
  BY <1>1 DEF RingInv, Far, ReleaseStudent, chairVars, mainVars
<1>4. BalanceInv'
  BY <1>1, <1>2, CountTypes, Sizes DEF BalanceInv, Called, Lecture, Types, ReleaseStudent, chairVars, mainVars
<1>5. OneAtChairs'
  BY <1>1 DEF OneAtChairs, AtChairs, TAInside, Types, ReleaseStudent, chairVars, mainVars
<1>6. MainInv'
  BY <1>1, Sizes DEF MainInv, Types, Students, ReleaseStudent, chairVars, mainVars
<1>7. Types'
  <2>1. sem_stu' \in Nat /\ sem_ta' \in Nat /\ count' \in 0..NUM_SEAT
    BY <1>1, Sizes DEF Types, ReleaseStudent, chairVars, mainVars
  <2> QED
    BY <1>1, <2>1, Sizes DEF Types, StudentPCs, ReleaseStudent, chairVars, mainVars, Students
<1> QED  BY <1>3, <1>4, <1>5, <1>6, <1>7 DEF IInv

\* Nothing moves.
LEMMA StandstillKeeps ==
  ASSUME IInv, UNCHANGED officeVars
  PROVE  IInv'
<1>1. Seated' = Seated /\ Attending' = Attending
  BY DEF Seated, Attending, At, officeVars
<1> QED
  BY <1>1 DEF IInv, Types, RingInv, Far, BalanceInv, Called, Lecture, OneAtChairs,
              AtChairs, TAInside, MainInv, officeVars, chairVars, mainVars

-----------------------------------------------------------------------------
\* In the initial state there is nobody.
LEMMA InitHolds == OfficeInit => IInv
<1> SUFFICES ASSUME OfficeInit  PROVE IInv
  OBVIOUS
<1>1. Types
  <2>1. 0 \in Seats /\ 0 \in 0..NUM_SEAT /\ 0 \in 0..student_num
    BY Sizes
  <2> QED  BY <2>1 DEF OfficeInit, Types, StudentPCs
<1>2. RingInv
  <2>1. \A k \in Seats : Far(k) \in 0..(NUM_SEAT-1)
    BY <1>1, Sizes, DistMoves DEF Types, Far
  <2>2. \A k \in Seats : ~(Far(k) < 0)
    BY <2>1, Sizes
  <2>3. 0 % NUM_SEAT = 0
    BY Sizes, ModInside, 0 \in 0..(NUM_SEAT-1)
  <2> QED  BY <2>2, <2>3 DEF OfficeInit, RingInv
<1>3. BalanceInv
  <2>1. Seated = 0 /\ Attending = 0
    <3>1. /\ \A s \in Students : stu[s] \notin {"seated", "notify"}
          /\ \A s \in Students : stu[s] \notin {"seated", "notify", "waiting"}
      BY DEF OfficeInit
    <3> QED  BY <3>1, NumberZero DEF Seated, Attending, At, Number
  <2> QED  BY <2>1 DEF OfficeInit, BalanceInv, Called, Lecture
<1>4. OneAtChairs /\ MainInv
  BY Sizes DEF OfficeInit, OneAtChairs, AtChairs, TAInside, MainInv, Students
<1> QED  BY <1>1, <1>2, <1>3, <1>4 DEF IInv

\* Every step keeps the invariant.
LEMMA NextKeeps == IInv /\ [OfficeNext]_officeVars => IInv'
<1> SUFFICES ASSUME IInv, [OfficeNext]_officeVars  PROVE IInv'
  OBVIOUS
<1>1. CASE \E s \in Students : Student(s)
  BY <1>1, EnterOfficeKeeps, SitKeeps, SeatedUnlockKeeps, NotifyTAKeeps, AwaitTAKeeps,
     TurnAwayKeeps, LeaveKeeps, TurnedUnlockKeeps, GoHomeKeeps DEF Student
<1>2. CASE TA
  BY <1>2, WakeUpKeeps, LockChairsKeeps, TeachKeeps, UnlockChairsKeeps, ReleaseStudentKeeps DEF TA
<1>3. CASE CreateStudent \/ ClearStatus
  BY <1>3, CreateStudentKeeps, ClearStatusKeeps
<1>4. CASE Closed \/ UNCHANGED officeVars
  BY <1>4, StandstillKeeps DEF Closed
<1> QED  BY <1>1, <1>2, <1>3, <1>4 DEF OfficeNext

\* The invariant holds in every reachable state.
THEOREM Invariance == OfficeSpec => []IInv
  BY InitHolds, NextKeeps, PTL DEF OfficeSpec

\* OfficeTypeOK: in particular, sem_stu never exceeds NUM_SEAT.
THEOREM OfficeTypeCorrect == OfficeSpec => []OfficeTypeOK
  BY Invariance, TypesRight, PTL

\* One thread at a time is at the chairs, which is what makes a section of the
\* code under the mutex one step of the model.
THEOREM OneAtTheChairs == OfficeSpec => []OneAtChairs
<1>1. IInv => OneAtChairs
  BY DEF IInv
<1> QED  BY <1>1, Invariance, PTL

\* The TA never calls an empty chair and nobody sits down on an occupied one:
\* the test `count < NUM_SEAT` and the semaphore are enough.
THEOREM ChairsStayRing == OfficeSpec => []ChairsAreRing
<1>1. IInv => ChairsAreRing
  <2> SUFFICES ASSUME IInv  PROVE ChairsAreRing
    OBVIOUS
  <2>1. \A k \in Seats : chair[k] # 0 <=> k \in Waiting
    BY WaitingIs DEF IInv, RingInv
  <2>2. ta = "calling" => chair[next_teach] # 0
    BY CallsSomebody, Sizes DEF IInv, Students
  <2> QED  BY <2>1, <2>2 DEF ChairsAreRing, IInv, RingInv
<1> QED  BY <1>1, Invariance, PTL

\* sem_stu and sem_ta neither lose nor gain a unit, however the students and
\* the TA overtake one another.
THEOREM SemaphoresStayBalanced == OfficeSpec => []SemaphoresBalance
<1>1. IInv => SemaphoresBalance
  BY DEF IInv, BalanceInv, SemaphoresBalance, Seated, Attending, Called, Lecture
<1> QED  BY <1>1, Invariance, PTL

-----------------------------------------------------------------------------
(***************************************************************************)
(* The dining philosophers, for every N >= 2: the semaphores are binary,   *)
(* neighbours exclude each other, no wake-up is lost.                      *)
(*                                                                         *)
(* The properties are not inductive.  TableInv adds what keeps them: who   *)
(* is inside the mutex, what state[] says at each program point, where the *)
(* unit of a private semaphore comes from, and that a test whose condition *)
(* held still holds when its second half runs.                             *)
(***************************************************************************)
\* At most one philosopher is inside, and then the mutex is taken.
MutexInv ==
  /\ \A i, j \in Phil : pc[i] \in Inside /\ pc[j] \in Inside => i = j
  /\ mutex = 0 <=> \E i \in Phil : pc[i] \in Inside

\* What state[i] can be, given where thread i stands.
StateInv ==
  \A i \in Phil :
    /\ pc[i] \in {"thinking", "hungry"} => state[i] = THINKING
    /\ pc[i] \in {"testSelf", "setSelf"} => state[i] = HUNGRY
    /\ pc[i] \in {"postTake", "waiting"} => state[i] \in {HUNGRY, EATING}
    /\ pc[i] \in {"eating", "putting"} => state[i] = EATING
    /\ pc[i] \in {"testLeft", "setLeft", "testRight", "setRight", "postPut", "gone"}
         => state[i] = THINKING

\* S[i] holds the unit that test(i) posted, until thread i takes it.
PostInv ==
  \A i \in Phil :
    S[i] = 1 <=> (state[i] = EATING /\ pc[i] \in {"postTake", "waiting"})

\* Neighbours are never both EATING.
EatInv == \A i \in Phil : ~(state[i] = EATING /\ state[Right(i)] = EATING)

\* Between the two halves of test(j) its condition goes on holding.
GrantInv ==
  \A i \in Phil :
    /\ pc[i] = "setSelf"  => CanEat(i)
    /\ pc[i] = "setLeft"  => CanEat(Left(i))
    /\ pc[i] = "setRight" => CanEat(Right(i))

\* Thread k is about to test philosopher i.
Tests(k, i) ==
  \/ k = i /\ pc[k] \in {"testSelf", "setSelf"}
  \/ i = Left(k)  /\ pc[k] \in {"testLeft", "setLeft"}
  \/ i = Right(k) /\ pc[k] \in {"testLeft", "setLeft", "testRight", "setRight"}

\* A hungry philosopher has an eating neighbour or is about to be tested.
WakeInv ==
  \A i \in Phil : state[i] = HUNGRY =>
    \/ state[Left(i)] = EATING
    \/ state[Right(i)] = EATING
    \/ \E k \in Phil : Tests(k, i)

TableInv == TypeOK /\ MutexInv /\ StateInv /\ PostInv /\ EatInv /\ GrantInv /\ WakeInv
-----------------------------------------------------------------------------
\* The modulus, on the numbers the macros LEFT and RIGHT apply it to.
LEMMA SmallMod == ASSUME NEW a \in Nat, a < N  PROVE a % N = a
  BY NAssumption

LEMMA OverMod == ASSUME NEW a \in Nat, a < N  PROVE (a + N) % N = a
  BY NAssumption

\* LEFT and RIGHT without the modulus.
LEMMA Neighbours ==
  ASSUME NEW i \in Phil
  PROVE  /\ Left(i)  = IF i = 0 THEN N - 1 ELSE i - 1
         /\ Right(i) = IF i = N - 1 THEN 0 ELSE i + 1
<1>1. i \in Nat /\ i < N /\ N \in Nat /\ N >= 2
  BY NAssumption DEF Phil
<1>2. Left(i) = IF i = 0 THEN N - 1 ELSE i - 1
  <2>1. CASE i = 0
    <3>1. N - 1 \in Nat /\ N - 1 < N /\ i + (N - 1) = N - 1
      BY <1>1, <2>1
    <3> QED  BY <3>1, <2>1, SmallMod DEF Left
  <2>2. CASE i # 0
    <3>1. i - 1 \in Nat /\ i - 1 < N /\ i + (N - 1) = (i - 1) + N
      BY <1>1, <2>2
    <3>2. ((i - 1) + N) % N = i - 1
      BY <3>1, OverMod
    <3> QED  BY <3>1, <3>2, <2>2 DEF Left
  <2> QED  BY <2>1, <2>2
<1>3. Right(i) = IF i = N - 1 THEN 0 ELSE i + 1
  <2>1. CASE i = N - 1
    <3>1. i + 1 = 0 + N
      BY <1>1, <2>1
    <3>2. (0 + N) % N = 0
      BY <1>1, OverMod
    <3> QED  BY <3>1, <3>2, <2>1 DEF Right
  <2>2. CASE i # N - 1
    <3>1. i + 1 \in Nat /\ i + 1 < N
      BY <1>1, <2>2
    <3> QED  BY <3>1, <2>2, SmallMod DEF Right
  <2> QED  BY <2>1, <2>2
<1> QED  BY <1>2, <1>3

\* The table is round: what the proofs need of it.
LEMMA Table ==
  ASSUME NEW i \in Phil
  PROVE  /\ Left(i) \in Phil /\ Right(i) \in Phil
         /\ Left(i) # i /\ Right(i) # i
         /\ Left(Right(i)) = i /\ Right(Left(i)) = i
<1>1. i \in Nat /\ i < N /\ N \in Nat /\ N >= 2
  BY NAssumption DEF Phil
<1>2. /\ Left(i) \in Phil /\ Right(i) \in Phil
      /\ Left(i) # i /\ Right(i) # i
  BY <1>1, Neighbours DEF Phil
<1>3. Left(Right(i)) = i
  BY <1>1, <1>2, Neighbours DEF Phil
<1>4. Right(Left(i)) = i
  BY <1>1, <1>2, Neighbours DEF Phil
<1> QED  BY <1>2, <1>3, <1>4
-----------------------------------------------------------------------------
\* One lemma per action: it keeps every part of TableInv.

\* The mutex was free, so nobody else is inside.
LEMMA TakeLockKeeps ==
  ASSUME NEW i \in Phil, TableInv, TakeLock(i)
  PROVE  TableInv'
<1>1. TypeOK'
  BY DEF TableInv, TypeOK, TakeLock, Lock, Goto, PCs, Inside, TakePC
<1>2. MutexInv'
  BY DEF TableInv, TypeOK, MutexInv, TakeLock, Lock, Goto, Inside, TakePC
<1>3. StateInv'
  BY DEF TableInv, StateInv, TakeLock, Lock, Goto
<1>4. PostInv'
  BY DEF TableInv, PostInv, TakeLock, Lock, Goto
<1>5. EatInv'
  BY DEF TableInv, EatInv, TakeLock, Lock
<1>6. GrantInv'
  BY DEF TableInv, GrantInv, CanEat, TakeLock, Lock, Goto
<1>7. WakeInv'
  BY DEF TableInv, WakeInv, Tests, TakeLock, Lock, Goto
<1> QED  BY <1>1, <1>2, <1>3, <1>4, <1>5, <1>6, <1>7 DEF TableInv

\* From here on thread i itself is about to test i.
LEMMA BecomeHungryKeeps ==
  ASSUME NEW i \in Phil, TableInv, BecomeHungry(i)
  PROVE  TableInv'
<1>1. TypeOK'
  BY DEF TableInv, TypeOK, BecomeHungry, Goto, PCs, Inside, TakePC
<1>2. MutexInv'
  BY DEF TableInv, MutexInv, BecomeHungry, Goto, Inside, TakePC
<1>3. StateInv'
  BY DEF TableInv, TypeOK, StateInv, BecomeHungry, Goto
<1>4. PostInv'
  BY DEF TableInv, PostInv, BecomeHungry, Goto
<1>5. EatInv'
  BY DEF TableInv, EatInv, BecomeHungry, HUNGRY, EATING
<1>6. GrantInv'
  BY DEF TableInv, GrantInv, CanEat, BecomeHungry, Goto, HUNGRY, EATING
<1>7. WakeInv'
  BY DEF TableInv, TypeOK, WakeInv, StateInv, Tests, BecomeHungry, Goto,
         THINKING, EATING
<1> QED  BY <1>1, <1>2, <1>3, <1>4, <1>5, <1>6, <1>7 DEF TableInv

\* Either i may eat, or it stays hungry beside an eating neighbour.
LEMMA TestSelfKeeps ==
  ASSUME NEW i \in Phil, TableInv, TestSelf(i)
  PROVE  TableInv'
<1>1. TypeOK'
  BY DEF TableInv, TypeOK, TestSelf, Check, Goto, PCs, Inside, TakePC
<1>2. MutexInv'
  BY DEF TableInv, MutexInv, TestSelf, Check, Goto, Inside, TakePC
<1>3. StateInv'
  BY DEF TableInv, StateInv, TestSelf, Check, Goto
<1>4. PostInv'
  BY DEF TableInv, PostInv, StateInv, TestSelf, Check, Goto, HUNGRY, EATING
<1>5. EatInv'
  BY DEF TableInv, EatInv, TestSelf, Check
<1>6. GrantInv'
  BY DEF TableInv, GrantInv, CanEat, TestSelf, Check, Goto
<1>7. WakeInv'
  BY DEF TableInv, WakeInv, Tests, CanEat, TestSelf, Check, Goto
<1> QED  BY <1>1, <1>2, <1>3, <1>4, <1>5, <1>6, <1>7 DEF TableInv

\* The condition tested before still holds: nobody else has been inside.
LEMMA GrantSelfKeeps ==
  ASSUME NEW i \in Phil, TableInv, GrantSelf(i)
  PROVE  TableInv'
<1>1. TypeOK'
  BY DEF TableInv, TypeOK, PostInv, GrantSelf, Grant, Goto, PCs, Inside, TakePC
<1>2. MutexInv'
  BY DEF TableInv, MutexInv, GrantSelf, Grant, Goto, Inside, TakePC
<1>3. StateInv'
  BY DEF TableInv, TypeOK, StateInv, GrantSelf, Grant, Goto
<1>4. PostInv'
  BY DEF TableInv, TypeOK, PostInv, GrantSelf, Grant, Goto
<1>5. EatInv'
  BY Table DEF TableInv, EatInv, GrantInv, CanEat, GrantSelf, Grant, Goto
<1>6. GrantInv'
  BY DEF TableInv, TypeOK, GrantInv, MutexInv, GrantSelf, Grant, Goto, Inside,
         TakePC, PutPC
<1>7. WakeInv'
  BY DEF TableInv, TypeOK, WakeInv, Tests, GrantSelf, Grant, Goto, HUNGRY,
         EATING
<1> QED  BY <1>1, <1>2, <1>3, <1>4, <1>5, <1>6, <1>7 DEF TableInv

\* Thread i was the one inside.
LEMMA TakeUnlockKeeps ==
  ASSUME NEW i \in Phil, TableInv, TakeUnlock(i)
  PROVE  TableInv'
<1>1. TypeOK'
  BY DEF TableInv, TypeOK, MutexInv, TakeUnlock, Unlock, Goto, PCs
<1>2. MutexInv'
  BY DEF TableInv, TypeOK, MutexInv, TakeUnlock, Unlock, Goto, Inside, TakePC,
         PutPC
<1>3. StateInv'
  BY DEF TableInv, StateInv, TakeUnlock, Unlock, Goto
<1>4. PostInv'
  BY DEF TableInv, PostInv, TakeUnlock, Unlock, Goto
<1>5. EatInv'
  BY DEF TableInv, EatInv, TakeUnlock, Unlock
<1>6. GrantInv'
  BY DEF TableInv, GrantInv, CanEat, TakeUnlock, Unlock, Goto
<1>7. WakeInv'
  BY DEF TableInv, WakeInv, Tests, TakeUnlock, Unlock, Goto
<1> QED  BY <1>1, <1>2, <1>3, <1>4, <1>5, <1>6, <1>7 DEF TableInv

\* The unit that thread i takes was posted when state[i] became EATING.
LEMMA AwaitForksKeeps ==
  ASSUME NEW i \in Phil, TableInv, AwaitForks(i)
  PROVE  TableInv'
<1>1. TypeOK'
  BY DEF TableInv, TypeOK, AwaitForks, Goto, PCs
<1>2. MutexInv'
  BY DEF TableInv, MutexInv, AwaitForks, Goto, Inside, TakePC, PutPC
<1>3. StateInv'
  BY DEF TableInv, TypeOK, StateInv, PostInv, AwaitForks, Goto
<1>4. PostInv'
  BY DEF TableInv, TypeOK, PostInv, AwaitForks, Goto
<1>5. EatInv'
  BY DEF TableInv, EatInv, AwaitForks
<1>6. GrantInv'
  BY DEF TableInv, GrantInv, CanEat, AwaitForks, Goto
<1>7. WakeInv'
  BY DEF TableInv, WakeInv, Tests, AwaitForks, Goto
<1> QED  BY <1>1, <1>2, <1>3, <1>4, <1>5, <1>6, <1>7 DEF TableInv

\* The mutex was free, so nobody else is inside.
LEMMA PutLockKeeps ==
  ASSUME NEW i \in Phil, TableInv, PutLock(i)
  PROVE  TableInv'
<1>1. TypeOK'
  BY DEF TableInv, TypeOK, PutLock, Lock, Goto, PCs, Inside, PutPC
<1>2. MutexInv'
  BY DEF TableInv, TypeOK, MutexInv, PutLock, Lock, Goto, Inside, PutPC
<1>3. StateInv'
  BY DEF TableInv, StateInv, PutLock, Lock, Goto
<1>4. PostInv'
  BY DEF TableInv, PostInv, PutLock, Lock, Goto
<1>5. EatInv'
  BY DEF TableInv, EatInv, PutLock, Lock
<1>6. GrantInv'
  BY DEF TableInv, GrantInv, CanEat, PutLock, Lock, Goto
<1>7. WakeInv'
  BY DEF TableInv, WakeInv, Tests, PutLock, Lock, Goto
<1> QED  BY <1>1, <1>2, <1>3, <1>4, <1>5, <1>6, <1>7 DEF TableInv

\* Both neighbours may lose the eater beside them: thread i will test both.
LEMMA BecomeThinkingKeeps ==
  ASSUME NEW i \in Phil, TableInv, BecomeThinking(i)
  PROVE  TableInv'
<1>1. TypeOK'
  BY DEF TableInv, TypeOK, BecomeThinking, Goto, PCs, Inside, PutPC
<1>2. MutexInv'
  BY DEF TableInv, MutexInv, BecomeThinking, Goto, Inside, PutPC
<1>3. StateInv'
  BY DEF TableInv, TypeOK, StateInv, BecomeThinking, Goto
<1>4. PostInv'
  BY DEF TableInv, PostInv, BecomeThinking, Goto
<1>5. EatInv'
  BY DEF TableInv, EatInv, BecomeThinking, THINKING, EATING
<1>6. GrantInv'
  BY DEF TableInv, GrantInv, CanEat, StateInv, BecomeThinking, Goto, HUNGRY,
         EATING
<1>7. WakeInv'
  BY Table DEF TableInv, TypeOK, WakeInv, Tests, BecomeThinking, Goto, THINKING,
               HUNGRY
<1> QED  BY <1>1, <1>2, <1>3, <1>4, <1>5, <1>6, <1>7 DEF TableInv

\* Either the left neighbour may eat, or it is not hungry or has an eater
\* beside it.
LEMMA TestLeftKeeps ==
  ASSUME NEW i \in Phil, TableInv, TestLeft(i)
  PROVE  TableInv'
<1>1. TypeOK'
  BY DEF TableInv, TypeOK, TestLeft, Check, Goto, PCs, Inside, PutPC
<1>2. MutexInv'
  BY DEF TableInv, MutexInv, TestLeft, Check, Goto, Inside, PutPC
<1>3. StateInv'
  BY DEF TableInv, StateInv, TestLeft, Check, Goto
<1>4. PostInv'
  BY DEF TableInv, PostInv, TestLeft, Check, Goto
<1>5. EatInv'
  BY DEF TableInv, EatInv, TestLeft, Check
<1>6. GrantInv'
  BY DEF TableInv, GrantInv, CanEat, TestLeft, Check, Goto
<1>7. WakeInv'
  BY DEF TableInv, WakeInv, Tests, CanEat, TestLeft, Check, Goto
<1> QED  BY <1>1, <1>2, <1>3, <1>4, <1>5, <1>6, <1>7 DEF TableInv

\* The left neighbour, hungry and not posted yet, is given its forks.
LEMMA GrantLeftKeeps ==
  ASSUME NEW i \in Phil, TableInv, GrantLeft(i)
  PROVE  TableInv'
<1>1. TypeOK'
  BY Table DEF TableInv, TypeOK, PostInv, GrantInv, CanEat, GrantLeft, Grant,
               Goto, PCs, Inside, PutPC, HUNGRY, EATING
<1>2. MutexInv'
  BY DEF TableInv, MutexInv, GrantLeft, Grant, Goto, Inside, PutPC
<1>3. StateInv'
  BY DEF TableInv, StateInv, MutexInv, GrantInv, CanEat, GrantLeft, Grant, Goto,
         Inside, TakePC, PutPC, THINKING, HUNGRY
<1>4. PostInv'
  BY DEF TableInv, TypeOK, PostInv, StateInv, MutexInv, GrantInv, CanEat,
         GrantLeft, Grant, Goto, PCs, THINKING, HUNGRY, EATING
<1>5. EatInv'
  BY Table DEF TableInv, EatInv, GrantInv, CanEat, GrantLeft, Grant, Goto
<1>6. GrantInv'
  BY DEF TableInv, TypeOK, GrantInv, MutexInv, GrantLeft, Grant, Goto, Inside,
         TakePC, PutPC
<1>7. WakeInv'
  BY DEF TableInv, TypeOK, WakeInv, Tests, GrantLeft, Grant, Goto, HUNGRY,
         EATING
<1> QED  BY <1>1, <1>2, <1>3, <1>4, <1>5, <1>6, <1>7 DEF TableInv

\* As for the left neighbour.
LEMMA TestRightKeeps ==
  ASSUME NEW i \in Phil, TableInv, TestRight(i)
  PROVE  TableInv'
<1>1. TypeOK'
  BY DEF TableInv, TypeOK, TestRight, Check, Goto, PCs, Inside, PutPC
<1>2. MutexInv'
  BY DEF TableInv, MutexInv, TestRight, Check, Goto, Inside, PutPC
<1>3. StateInv'
  BY DEF TableInv, StateInv, TestRight, Check, Goto
<1>4. PostInv'
  BY DEF TableInv, PostInv, TestRight, Check, Goto
<1>5. EatInv'
  BY DEF TableInv, EatInv, TestRight, Check
<1>6. GrantInv'
  BY DEF TableInv, GrantInv, CanEat, TestRight, Check, Goto
<1>7. WakeInv'
  BY DEF TableInv, WakeInv, Tests, CanEat, TestRight, Check, Goto
<1> QED  BY <1>1, <1>2, <1>3, <1>4, <1>5, <1>6, <1>7 DEF TableInv

\* The right neighbour, hungry and not posted yet, is given its forks.
LEMMA GrantRightKeeps ==
  ASSUME NEW i \in Phil, TableInv, GrantRight(i)
  PROVE  TableInv'
<1>1. TypeOK'
  BY Table DEF TableInv, TypeOK, PostInv, GrantInv, CanEat, GrantRight, Grant,
               Goto, PCs, Inside, PutPC, HUNGRY, EATING
<1>2. MutexInv'
  BY DEF TableInv, MutexInv, GrantRight, Grant, Goto, Inside, PutPC
<1>3. StateInv'
  BY DEF TableInv, StateInv, MutexInv, GrantInv, CanEat, GrantRight, Grant,
         Goto, Inside, TakePC, PutPC, THINKING, HUNGRY
<1>4. PostInv'
  BY DEF TableInv, TypeOK, PostInv, StateInv, MutexInv, GrantInv, CanEat,
         GrantRight, Grant, Goto, PCs, THINKING, HUNGRY, EATING
<1>5. EatInv'
  BY Table DEF TableInv, EatInv, GrantInv, CanEat, GrantRight, Grant, Goto
<1>6. GrantInv'
  BY DEF TableInv, TypeOK, GrantInv, MutexInv, GrantRight, Grant, Goto, Inside,
         TakePC, PutPC
<1>7. WakeInv'
  BY DEF TableInv, TypeOK, WakeInv, Tests, GrantRight, Grant, Goto, HUNGRY,
         EATING
<1> QED  BY <1>1, <1>2, <1>3, <1>4, <1>5, <1>6, <1>7 DEF TableInv

\* Thread i was the one inside.
LEMMA PutUnlockKeeps ==
  ASSUME NEW i \in Phil, TableInv, PutUnlock(i)
  PROVE  TableInv'
<1>1. TypeOK'
  BY DEF TableInv, TypeOK, MutexInv, PutUnlock, Unlock, Goto, PCs
<1>2. MutexInv'
  BY DEF TableInv, TypeOK, MutexInv, PutUnlock, Unlock, Goto, Inside, TakePC,
         PutPC
<1>3. StateInv'
  BY DEF TableInv, StateInv, PutUnlock, Unlock, Goto
<1>4. PostInv'
  BY DEF TableInv, PostInv, PutUnlock, Unlock, Goto
<1>5. EatInv'
  BY DEF TableInv, EatInv, PutUnlock, Unlock
<1>6. GrantInv'
  BY DEF TableInv, GrantInv, CanEat, PutUnlock, Unlock, Goto
<1>7. WakeInv'
  BY DEF TableInv, WakeInv, Tests, PutUnlock, Unlock, Goto
<1> QED  BY <1>1, <1>2, <1>3, <1>4, <1>5, <1>6, <1>7 DEF TableInv
-----------------------------------------------------------------------------
\* The table starts in TableInv: everybody thinks and the mutex is free.
LEMMA InitInv == Init => TableInv
<1> SUFFICES ASSUME Init PROVE TableInv
  OBVIOUS
<1>1. TypeOK
  BY DEF Init, TypeOK, PCs
<1>2. MutexInv
  BY DEF Init, MutexInv, Inside, TakePC, PutPC
<1>3. StateInv /\ PostInv /\ EatInv /\ GrantInv /\ WakeInv
  BY Table DEF Init, StateInv, PostInv, EatInv, GrantInv, WakeInv,
               THINKING, HUNGRY, EATING
<1> QED  BY <1>1, <1>2, <1>3 DEF TableInv

\* Every step keeps TableInv.
LEMMA StepInv == TableInv /\ [Next]_vars => TableInv'
<1> SUFFICES ASSUME TableInv, [Next]_vars PROVE TableInv'
  OBVIOUS
<1>1. ASSUME NEW i \in Phil, Philosopher(i)
      PROVE  TableInv'
  BY <1>1, TakeLockKeeps, BecomeHungryKeeps, TestSelfKeeps, GrantSelfKeeps,
     TakeUnlockKeeps, AwaitForksKeeps, PutLockKeeps, BecomeThinkingKeeps,
     TestLeftKeeps, GrantLeftKeeps, TestRightKeeps, GrantRightKeeps,
     PutUnlockKeeps DEF Philosopher
<1>2. CASE UNCHANGED vars
  BY <1>2 DEF vars, TableInv, TypeOK, MutexInv, StateInv, PostInv, EatInv,
              GrantInv, WakeInv, CanEat, Tests
<1>3. CASE Joined
  BY <1>3, <1>2 DEF Joined
<1> QED  BY <1>1, <1>2, <1>3 DEF Next

\* TableInv holds in every reachable state, for every number of philosophers.
THEOREM TableInvariance == Spec => []TableInv
<1>1. Init => TableInv
  BY InitInv
<1>2. TableInv /\ [Next]_vars => TableInv'
  BY StepInv
<1> QED  BY <1>1, <1>2, PTL DEF Spec

\* All the semaphores of the program stay binary: no sem_post is ever done
\* twice for the same permission.
THEOREM SemaphoresBinary == Spec => []TypeOK
<1>1. TableInv => TypeOK
  BY DEF TableInv
<1> QED  BY <1>1, TableInvariance, PTL

\* Neighbours never hold their forks together (take_fork, test, put_fork).
THEOREM ForksExclusive == Spec => []NeighboursExclude
<1>1. TableInv => NeighboursExclude
  <2> SUFFICES ASSUME TableInv, NEW i \in Phil, HoldsForks(i), HoldsForks(Right(i))
               PROVE  FALSE
    BY DEF NeighboursExclude
  <2>1. ASSUME NEW j \in Phil, HoldsForks(j)
        PROVE  state[j] = EATING
    BY <2>1 DEF TableInv, StateInv, PostInv, HoldsForks
  <2>2. Right(i) \in Phil
    BY Table
  <2>3. state[i] = EATING /\ state[Right(i)] = EATING
    BY <2>1, <2>2
  <2> QED  BY <2>3 DEF TableInv, EatInv
<1> QED  BY <1>1, TableInvariance, PTL

\* When nobody is inside take_fork or put_fork, a hungry philosopher has a
\* neighbour that eats and will test it (the two calls of test in put_fork).
THEOREM WakeupKept == Spec => []NoLostWakeup
<1>1. TableInv => NoLostWakeup
  <2> SUFFICES ASSUME TableInv, mutex = 1, NEW i \in Phil, state[i] = HUNGRY
               PROVE  state[Left(i)] = EATING \/ state[Right(i)] = EATING
    BY DEF NoLostWakeup
  <2>1. \A k \in Phil : pc[k] \notin Inside
    BY DEF TableInv, MutexInv, TypeOK
  <2>2. \A k \in Phil : ~Tests(k, i)
    BY <2>1 DEF Tests, Inside, TakePC, PutPC
  <2> QED  BY <2>2 DEF TableInv, WakeInv
<1> QED  BY <1>1, TableInvariance, PTL
=============================================================================
