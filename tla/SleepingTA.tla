----------------------------- MODULE SleepingTA -----------------------------
(***************************************************************************)
(* project5/project5_2/sleepingTA.c: students take one of NUM_SEAT chairs, *)
(* a ring that the teaching assistant serves in order.                     *)
(*                                                                         *)
(* The mutex guards the chairs and `count`.  studentStatus is also written *)
(* outside of it: by main, after it has created the student (line 67), and *)
(* by a student that goes home (line 132), so the tests of line 95 and 117 *)
(* are separate steps.  A student may read its status before main has set  *)
(* it: malloc is called before anything is freed, so what it then reads is *)
(* fresh memory, 0 as well.                                                *)
(***************************************************************************)
EXTENDS Integers, FiniteSets

CONSTANTS
  student_num,      \* read from the user
  NUM_SEAT

ASSUME TAAssumption ==
  /\ student_num \in Nat
  /\ NUM_SEAT \in Nat \ {0}

VARIABLES
  sem_stu, sem_ta,  \* semaphores, initially 0 and 1
  locked,           \* the mutex: TRUE while somebody holds it
  chair, count, next_seat, next_teach,
  studentStatus,    \* 1: taught
  stu,              \* where each student stands
  ta,               \* where the TA stands
  created, cleared  \* main's loop: students created; statuses set to 0

chairVars == <<chair, count, next_seat, next_teach>>
mainVars  == <<created, cleared>>
officeVars ==
  <<sem_stu, sem_ta, locked, chairVars, studentStatus, stu, ta, mainVars>>

Students == 1..student_num
Seats    == 0..(NUM_SEAT - 1)
Succ(k)  == (k + 1) % NUM_SEAT

OfficeInit ==
  /\ sem_stu = 0 /\ sem_ta = 1
  /\ locked = FALSE
  /\ chair = [k \in Seats |-> 0]
  /\ count = 0 /\ next_seat = 0 /\ next_teach = 0
  /\ studentStatus = [s \in Students |-> 0]
  /\ stu = [s \in Students |-> "none"]
  /\ ta = "asleep"
  /\ created = 0 /\ cleared = 0

-----------------------------------------------------------------------------
\* main: the TA thread exists before the first student.
CreateStudent ==
  /\ created < student_num /\ cleared = created
  /\ created' = created + 1
  /\ stu' = [stu EXCEPT ![created + 1] = "programming"]
  /\ UNCHANGED <<sem_stu, sem_ta, locked, chairVars, studentStatus, ta, cleared>>

ClearStatus ==
  /\ cleared < created
  /\ cleared' = created
  /\ studentStatus' = [studentStatus EXCEPT ![created] = 0]
  /\ UNCHANGED <<sem_stu, sem_ta, locked, chairVars, stu, ta, created>>

-----------------------------------------------------------------------------
\* stu_programming, student s
Walk(s, from, to) ==
  /\ stu[s] = from
  /\ stu' = [stu EXCEPT ![s] = to]

EnterOffice(s) ==
  /\ ~locked
  /\ Walk(s, "programming", "office")
  /\ locked' = TRUE
  /\ UNCHANGED <<sem_stu, sem_ta, chairVars, studentStatus, ta, mainVars>>

\* Mutant: a student that has been taught takes a chair again.
MayAlwaysSit(s) == count < NUM_SEAT

\* line 95
MaySit(s) == count < NUM_SEAT /\ studentStatus[s] = 0

Sit(s) ==
  /\ MaySit(s)
  /\ Walk(s, "office", "seated")
  /\ chair' = [chair EXCEPT ![next_seat] = s]
  /\ count' = count + 1
  /\ next_seat' = Succ(next_seat)
  /\ UNCHANGED <<sem_stu, sem_ta, locked, next_teach, studentStatus, ta, mainVars>>

SeatedUnlock(s) ==
  /\ Walk(s, "seated", "notify")
  /\ locked' = FALSE
  /\ UNCHANGED <<sem_stu, sem_ta, chairVars, studentStatus, ta, mainVars>>

\* Mutant: the wake-up of the TA is missing.
NotifyNobody(s) ==
  /\ Walk(s, "notify", "waiting")
  /\ UNCHANGED <<sem_stu, sem_ta, locked, chairVars, studentStatus, ta, mainVars>>

NotifyTA(s) ==
  /\ Walk(s, "notify", "waiting")
  /\ sem_stu' = sem_stu + 1
  /\ UNCHANGED <<sem_ta, locked, chairVars, studentStatus, ta, mainVars>>

AwaitTA(s) ==
  /\ sem_ta > 0
  /\ Walk(s, "waiting", "programming")
  /\ sem_ta' = sem_ta - 1
  /\ UNCHANGED <<sem_stu, locked, chairVars, studentStatus, ta, mainVars>>

TurnAway(s) ==
  /\ ~MaySit(s)
  /\ Walk(s, "office", "turned")
  /\ UNCHANGED <<sem_stu, sem_ta, locked, chairVars, studentStatus, ta, mainVars>>

\* line 117: the student has been taught and the thread ends,
Leave(s) ==
  /\ studentStatus[s] = 1
  /\ Walk(s, "turned", "gone")
  /\ locked' = FALSE
  /\ UNCHANGED <<sem_stu, sem_ta, chairVars, studentStatus, ta, mainVars>>

\* or it goes home and, without the mutex, sets its status to 0.
TurnedUnlock(s) ==
  /\ studentStatus[s] # 1
  /\ Walk(s, "turned", "home")
  /\ locked' = FALSE
  /\ UNCHANGED <<sem_stu, sem_ta, chairVars, studentStatus, ta, mainVars>>

GoHome(s) ==
  /\ Walk(s, "home", "programming")
  /\ studentStatus' = [studentStatus EXCEPT ![s] = 0]
  /\ UNCHANGED <<sem_stu, sem_ta, locked, chairVars, ta, mainVars>>

Student(s) ==
  \/ EnterOffice(s) \/ Sit(s) \/ SeatedUnlock(s) \/ NotifyTA(s) \/ AwaitTA(s)
  \/ TurnAway(s) \/ Leave(s) \/ TurnedUnlock(s) \/ GoHome(s)

-----------------------------------------------------------------------------
\* ta_teaching
WakeUp ==
  /\ ta = "asleep" /\ sem_stu > 0
  /\ ta' = "awake"
  /\ sem_stu' = sem_stu - 1
  /\ UNCHANGED <<sem_ta, locked, chairVars, studentStatus, stu, mainVars>>

LockChairs ==
  /\ ta = "awake" /\ ~locked
  /\ ta' = "calling"
  /\ locked' = TRUE
  /\ UNCHANGED <<sem_stu, sem_ta, chairVars, studentStatus, stu, mainVars>>

\* Mutant: the chair is not marked empty.
TeachKeepsChair ==
  /\ ta = "calling"
  /\ ta' = "teaching"
  /\ count' = count - 1
  /\ studentStatus' = [studentStatus EXCEPT ![chair[next_teach]] = 1]
  /\ next_teach' = Succ(next_teach)
  /\ UNCHANGED <<sem_stu, sem_ta, locked, chair, next_seat, stu, mainVars>>

\* chair[next_teach] is never 0 (ChairsAreRing), so studentStatus[-1] is not
\* written.
Teach ==
  /\ ta = "calling"
  /\ ta' = "teaching"
  /\ count' = count - 1
  /\ studentStatus' = [studentStatus EXCEPT ![chair[next_teach]] = 1]
  /\ chair' = [chair EXCEPT ![next_teach] = 0]
  /\ next_teach' = Succ(next_teach)
  /\ UNCHANGED <<sem_stu, sem_ta, locked, next_seat, stu, mainVars>>

UnlockChairs ==
  /\ ta = "teaching"
  /\ ta' = "finished"
  /\ locked' = FALSE
  /\ UNCHANGED <<sem_stu, sem_ta, chairVars, studentStatus, stu, mainVars>>

\* Mutant: the student is not told that the TA is free.
NobodyReleased ==
  /\ ta = "finished"
  /\ ta' = "asleep"
  /\ UNCHANGED <<sem_stu, sem_ta, locked, chairVars, studentStatus, stu, mainVars>>

ReleaseStudent ==
  /\ ta = "finished"
  /\ ta' = "asleep"
  /\ sem_ta' = sem_ta + 1
  /\ UNCHANGED <<sem_stu, locked, chairVars, studentStatus, stu, mainVars>>

TA == WakeUp \/ LockChairs \/ Teach \/ UnlockChairs \/ ReleaseStudent

\* Every student thread has ended.  The TA sleeps for ever, and main waits
\* for it for ever in its first pthread_join.
Closed ==
  /\ \A s \in Students : stu[s] = "gone"
  /\ ta = "asleep" /\ sem_stu = 0
  /\ UNCHANGED officeVars

OfficeNext ==
  \/ CreateStudent \/ ClearStatus \/ Closed
  \/ TA \/ \E s \in Students : Student(s)

\* Every thread is scheduled.  The TA and the students wait for at most one
\* thing at a time, the mutex or a semaphore, and between two requests of the
\* same thread lies a sleep of at least a second: whoever waits for a thing
\* that is free over and over again gets it.
OfficeFairness ==
  /\ WF_officeVars(CreateStudent \/ ClearStatus)
  /\ SF_officeVars(TA)
  /\ \A s \in Students : SF_officeVars(Student(s))

OfficeSpec == OfficeInit /\ [][OfficeNext]_officeVars
OfficeFairSpec == OfficeSpec /\ OfficeFairness

-----------------------------------------------------------------------------
StudentPCs == {"none", "programming", "office", "seated", "notify", "waiting",
               "turned", "home", "gone"}

OfficeTypeOK ==
  /\ sem_stu \in 0..NUM_SEAT
  /\ sem_ta \in 0..(student_num + 1)
  /\ locked \in BOOLEAN
  /\ chair \in [Seats -> 0..student_num]
  /\ count \in 0..NUM_SEAT
  /\ next_seat \in Seats /\ next_teach \in Seats
  /\ studentStatus \in [Students -> {0, 1}]
  /\ stu \in [Students -> StudentPCs]
  /\ ta \in {"asleep", "awake", "calling", "teaching", "finished"}
  /\ created \in 0..student_num /\ cleared \in 0..student_num

\* The occupied chairs are the `count` chairs from next_teach on, in the order
\* of arrival, and no others: the TA never calls an empty chair (which would
\* write studentStatus[-1]) and nobody sits down on an occupied one.
Waiting == {(next_teach + k) % NUM_SEAT : k \in 0..(count - 1)}
ChairsAreRing ==
  /\ \A k \in Seats : chair[k] # 0 <=> k \in Waiting
  /\ next_seat = (next_teach + count) % NUM_SEAT
  /\ ta = "calling" => chair[next_teach] # 0

\* The two semaphores balance: every occupied chair is known to the TA or about
\* to be announced, and sem_ta, which starts at 1, is one ahead of the lessons
\* the waiting students still have to get.
At(pcs) == Cardinality({s \in Students : stu[s] \in pcs})
SemaphoresBalance ==
  /\ count = sem_stu + At({"seated", "notify"})
               + (IF ta \in {"awake", "calling"} THEN 1 ELSE 0)
  /\ sem_ta + count + (IF ta \in {"teaching", "finished"} THEN 1 ELSE 0)
       = 1 + At({"seated", "notify", "waiting"})

\* sleepingTA.c:122, "if teaching is done for student by TA": once a lesson is
\* recorded, the student's thread ends, whatever the others do.  The record is
\* one int that three threads write, two of them without the mutex; its student
\* may by then be on a second chair (sem_ta starts at 1) or before a full room.
\* Two writes may erase the record and are exempt: main's of line 67, if it is
\* still to come, and the student's own of line 132, if it is on its way there.
LessonKept ==
  \A s \in Students :
    (studentStatus[s] = 1 /\ stu[s] # "home" /\ cleared >= s) ~> stu[s] = "gone"

\* Whoever sits on a chair is called.
EveryChairServed == \A k \in Seats : (chair[k] # 0) ~> (chair[k] = 0)
=============================================================================
