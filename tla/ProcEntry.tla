------------------------------ MODULE ProcEntry -------------------------------
(***************************************************************************)
(* The modules of project1 and project2/task_info: each makes one entry    *)
(* under /proc, "jiffies", "seconds" or "pid".  A program that reads an    *)
(* entry calls proc_read until it returns 0; the static variable completed *)
(* makes every second call do that, whoever calls.  Calls of different     *)
(* programs run concurrently and without a lock: each access to a shared   *)
(* variable is a step.                                                     *)
(*                                                                         *)
(* clock counts the ticks since the model starts; the kernel's counter     *)
(* jiffies wraps around at Wrap, and may be about to.                      *)
(***************************************************************************)
EXTENDS Integers, Sequences

CONSTANTS
  HZ, Wrap, MaxClock,
  Boots,                \* the values jiffies may have when the model starts
  Numeral,              \* the number of each word that kstrtol() can convert
  Existing              \* the numbers of processes

Parameters ==
  /\ HZ \in Nat \ {0} /\ Wrap \in Nat \ {0} /\ MaxClock \in Nat
  /\ MaxClock < Wrap /\ Boots \subseteq 0..(Wrap - 1) /\ 0 \in Boots

VARIABLES
  entry,         \* which of the three modules this is
  module,        \* "out", "creating" while proc_init runs, "in", "removed"
  completed, pid, init_jiffies,
  boot, clock,   \* jiffies when the model starts, and the ticks since
  calls,         \* the programs that have the entry open, with their locals
  loadedAt,      \* history: the clock when init_jiffies was set
  left           \* history: a program has stopped before it read to the end

vars == <<entry, module, completed, pid, init_jiffies, boot, clock, calls, loadedAt, left>>

\* "none": no module is loaded in this session.
Entries == {"none", "jiffies", "seconds", "pid"}
KeepsTime == entry \in {"jiffies", "seconds"}

jiffies == (boot + clock) % Wrap

Init ==
  /\ entry \in Entries
  /\ module = "out"
  /\ completed = 0 /\ pid = 0 /\ init_jiffies = 0
  /\ boot \in (IF KeepsTime THEN Boots ELSE {0}) /\ clock = 0
  /\ calls = <<>>
  /\ loadedAt = 0 /\ left = FALSE

-----------------------------------------------------------------------------
(* Loading and removing the module. *)

\* proc_create(): from now on the entry can be opened.
Create ==
  /\ module = "out" /\ entry # "none"
  /\ module' = IF entry = "seconds" THEN "creating" ELSE "in"
  /\ UNCHANGED <<entry, completed, pid, init_jiffies, boot, clock, calls, loadedAt, left>>

\* project1_2 sets init_jiffies after that.
SetStart ==
  /\ module = "creating"
  /\ init_jiffies' = jiffies
  /\ loadedAt' = clock
  /\ module' = "in"
  /\ UNCHANGED <<entry, completed, pid, boot, clock, calls, left>>

\* proc_exit(): remove_proc_entry() waits for the calls that are under way.
Remove ==
  /\ module = "in"
  /\ \A r \in DOMAIN calls : calls[r].at = "call"
  /\ module' = "removed"
  /\ UNCHANGED <<entry, completed, pid, init_jiffies, boot, clock, calls, loadedAt, left>>

\* task_info does not look at the time.
Tick ==
  /\ KeepsTime /\ clock < MaxClock
  /\ clock' = clock + 1
  /\ UNCHANGED <<entry, module, completed, pid, init_jiffies, boot, calls, loadedAt, left>>

-----------------------------------------------------------------------------
(* Reading.  The fields since and calm are history: the clock when the entry *)
(* was opened, and whether nobody else has been reading or writing since     *)
(* then; clear, whether a first call would have answered.                    *)

CanOpen == module \in {"creating", "in"}

Disturbed == [r \in DOMAIN calls |-> [calls[r] EXCEPT !.calm = FALSE]]

Opened == [at |-> "call", answers |-> <<>>, number |-> 0, found |-> FALSE,
           since |-> clock, clear |-> completed = 0,
           calm |-> calls = <<>> /\ module = "in"]

\* open(), external.
OpenEntry(r) ==
  /\ r \notin DOMAIN calls /\ CanOpen
  /\ calls' = [q \in DOMAIN calls \cup {r} |-> IF q = r THEN Opened ELSE Disturbed[q]]
  /\ UNCHANGED <<entry, module, completed, pid, init_jiffies, boot, clock, loadedAt, left>>

Become(r, locals) == calls' = [calls EXCEPT ![r] = locals]
Close(r) == calls' = [q \in DOMAIN calls \ {r} |-> calls[q]]

\* Mutant: a call that finds completed set leaves it set.
TestKeeps(r) == IF completed = 1 THEN "eof" ELSE "mark"

\* if(completed)
Tested(r) == IF completed = 1 THEN "reset" ELSE "mark"

Test(r) ==
  /\ calls[r].at = "call" /\ module # "removed"
  /\ Become(r, [calls[r] EXCEPT !.at = Tested(r)])
  /\ UNCHANGED <<completed, left>>

\* completed=0; return 0
Reset(r) ==
  /\ calls[r].at = "reset"
  /\ completed' = 0
  /\ Become(r, [calls[r] EXCEPT !.at = "eof"])
  /\ UNCHANGED left

\* completed=1
Mark(r) ==
  /\ calls[r].at = "mark"
  /\ completed' = 1
  /\ Become(r, [calls[r] EXCEPT !.at = IF entry = "pid" THEN "look" ELSE "format"])
  /\ UNCHANGED left

\* pid_task(find_vpid(pid))
LookUp(r) ==
  /\ calls[r].at = "look"
  /\ Become(r, [calls[r] EXCEPT !.at = "format", !.number = pid, !.found = pid \in Existing])
  /\ UNCHANGED <<completed, left>>

\* Mutant: the time since boot.
SecondsSinceBoot == jiffies \div HZ

\* (jiffies-init_jiffies)/HZ, of unsigned numbers.
seconds == ((jiffies - init_jiffies) % Wrap) \div HZ

\* What sprintf() prints; the compiler may keep the pid looked up or load it anew.
Printed(r) ==
  CASE entry = "jiffies" -> {jiffies}
    [] entry = "seconds" -> {seconds}
    [] entry = "pid"     -> {<<n, calls[r].found>> : n \in {calls[r].number, pid}}

Format(r) ==
  /\ calls[r].at = "format"
  /\ \E answer \in Printed(r) :
       Become(r, [calls[r] EXCEPT !.at = "call", !.answers = Append(@, answer)])
  /\ UNCHANGED <<completed, left>>

\* The program has seen the end of the file, or an error after the removal.
CloseEntry(r) ==
  /\ calls[r].at = "eof" \/ (calls[r].at = "call" /\ module = "removed")
  /\ Close(r)
  /\ UNCHANGED <<completed, left>>

\* A program that stops after the first answer.
LeaveEntry(r) ==
  /\ calls[r].at = "call" /\ calls[r].answers # <<>>
  /\ Close(r)
  /\ left' = TRUE
  /\ UNCHANGED completed

Quietly(A) == A /\ UNCHANGED <<entry, module, pid, init_jiffies, boot, clock, loadedAt>>

proc_read(r) ==
  Quietly(Test(r) \/ Reset(r) \/ Mark(r) \/ LookUp(r) \/ Format(r))

\* Only task_info has a proc_write; kstrtol() leaves pid alone if it fails.
proc_write(word) ==
  /\ pid' = IF entry = "pid" /\ word \in DOMAIN Numeral THEN Numeral[word] ELSE pid
  /\ calls' = Disturbed
  /\ UNCHANGED <<entry, module, completed, init_jiffies, boot, clock, loadedAt, left>>

-----------------------------------------------------------------------------
\* The half-finished state of a read outlives its reader only if the reader
\* stopped early: with nobody at the entry, the next one gets an answer.
QuietMeansClear == (CanOpen /\ calls = <<>> /\ ~left) => completed = 0

\* What was true of the entry at some time since the reader opened it.
Truths(r) ==
  CASE entry = "jiffies" -> {(boot + c) % Wrap : c \in calls[r].since..clock}
    [] entry = "seconds" -> {(c - loadedAt) \div HZ : c \in calls[r].since..clock}
    [] entry = "pid"     -> {<<pid, pid \in Existing>>}

\* A program that has the entry to itself gets one answer, and a true one.
AnswersTrue ==
  \A r \in DOMAIN calls : (calls[r].calm /\ calls[r].clear) =>
    /\ Len(calls[r].answers) <= 1
    /\ calls[r].at = "eof" => Len(calls[r].answers) = 1
    /\ \A k \in DOMAIN calls[r].answers : calls[r].answers[k] \in Truths(r)
=============================================================================
