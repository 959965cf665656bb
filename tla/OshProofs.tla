------------------------------ MODULE OshProofs -------------------------------
(***************************************************************************)
(* The shell and the entry, for every set of lines and programs, any       *)
(* number of processes and descriptors and every clock.                    *)
(*                                                                         *)
(* The entry recovers (QuietMeansClear): as long as completed is set, some *)
(* reader has not yet seen the end of the file (ReaderRemains).  And it    *)
(* tells the truth (AnswersTrue): a reader that is alone goes from call to *)
(* call with completed as it left it (Progress), and what it has been told *)
(* was true since it opened the entry (Answered).                          *)
(*                                                                         *)
(* The shell (PromptIsClean, RunsWhatIsTyped, PipelineDelivers): its args  *)
(* hold the words of the line, with a NULL from open() to waitpid()        *)
(* (ArgsInv); descriptors are closed or counted (FilesInv); the processes  *)
(* are the shell's children and at most one child of each (TreeInv), and   *)
(* what fork() copied stays right in them until execvp() (SoundInv); and   *)
(* units are lost in no pipe (PipeInv).                                    *)
(***************************************************************************)
EXTENDS Osh, ProofLemmas

\* Every reader has a place in the calls it makes.
Placed(c) == "at" \in DOMAIN c
CallsInv  == \A r \in DOMAIN calls : Placed(calls[r])

\* Before the module is loaded nobody has the entry open.
UnloadedInv == module = "out" => completed = 0 /\ DOMAIN calls = {}

ReaderRemains ==
  (completed = 1 /\ Entry!CanOpen /\ ~left) =>
    \E r \in DOMAIN calls : calls[r].at # "eof"

IInv == completed \in {0, 1} /\ CallsInv /\ UnloadedInv /\ ReaderRemains
-----------------------------------------------------------------------------
\* At the start nobody has the entry open.
LEMMA InitInv == Init => IInv
  BY DEF Init, Entry!Init, IInv, CallsInv, UnloadedInv, ReaderRemains

\* The invariant says it for a moment when nobody reads.
LEMMA QuietFollows == IInv => QuietMeansClear
  BY DEF IInv, ReaderRemains, QuietMeansClear, Entry!QuietMeansClear

\* The shell and the programs that leave the entry alone keep it.
LEMMA UnchangedInv == IInv /\ UNCHANGED entryVars => IInv'
  BY DEF IInv, CallsInv, Placed, UnloadedInv, ReaderRemains, Entry!CanOpen, entryVars

\* A step of reader r that leaves completed alone, and what it sees alone too.
LEMMA BecomeInv ==
  ASSUME NEW r, NEW c, IInv, r \in DOMAIN calls, Placed(c),
         Entry!Become(r, c), completed' = completed, c.at # "eof",
         UNCHANGED <<module, left>>
  PROVE  IInv'
<1>1. /\ DOMAIN calls' = DOMAIN calls
      /\ \A q \in DOMAIN calls : calls'[q] = IF q = r THEN c ELSE calls[q]
  BY DEF Entry!Become, IInv, CallsInv
<1>2. CallsInv'
  BY <1>1 DEF IInv, CallsInv, Placed
<1>3. UnloadedInv' /\ ReaderRemains'
  BY <1>1 DEF IInv, UnloadedInv, ReaderRemains, Entry!CanOpen
<1> QED  BY <1>2, <1>3 DEF IInv

\* One step of proc_read moves the reader on, and to "eof" only when it clears
\* completed.
LEMMA ReadInv ==
  ASSUME NEW r, IInv, r \in DOMAIN calls, Entry!proc_read(r)
  PROVE  IInv'
<1>0. UNCHANGED <<module, left>> /\ Placed(calls[r])
  BY DEF Entry!proc_read, Entry!Quietly, Entry!Test, Entry!Reset, Entry!Mark,
         Entry!LookUp, Entry!Format, IInv, CallsInv
<1>1. CASE Entry!Test(r)
  <2> DEFINE c == [calls[r] EXCEPT !.at = Entry!Tested(r)]
  <2>1. Placed(c) /\ c.at = Entry!Tested(r)
    BY <1>0 DEF Placed
  <2>2. c.at # "eof"
    BY <2>1 DEF Entry!Tested
  <2>3. Entry!Become(r, c) /\ completed' = completed
    BY <1>1 DEF Entry!Test
  <2> HIDE DEF c
  <2> QED  BY <1>0, <2>1, <2>2, <2>3, BecomeInv
<1>2. CASE Entry!Reset(r)
  <2> DEFINE c == [calls[r] EXCEPT !.at = "eof"]
  <2>1. Placed(c)
    BY <1>0 DEF Placed
  <2>2. Entry!Become(r, c) /\ completed' = 0
    BY <1>2 DEF Entry!Reset
  <2> HIDE DEF c
  <2>3. CallsInv' /\ DOMAIN calls' = DOMAIN calls
    BY <2>1, <2>2 DEF Entry!Become, IInv, CallsInv, Placed
  <2> QED  BY <1>0, <2>2, <2>3 DEF IInv, UnloadedInv, ReaderRemains
<1>3. CASE Entry!Mark(r)
  <2> DEFINE at == IF entry = "pid" THEN "look" ELSE "format"
             c == [calls[r] EXCEPT !.at = at]
  <2>1. Placed(c) /\ c.at = at
    BY <1>0 DEF Placed
  <2>2. c.at # "eof"
    BY <2>1
  <2>3. Entry!Become(r, c) /\ completed' = 1
    BY <1>3 DEF Entry!Mark
  <2> HIDE DEF c
  <2>4. CallsInv' /\ DOMAIN calls' = DOMAIN calls /\ calls'[r].at # "eof"
    BY <2>1, <2>2, <2>3 DEF Entry!Become, IInv, CallsInv, Placed
  <2> QED  BY <1>0, <2>3, <2>4 DEF IInv, UnloadedInv, ReaderRemains
<1>4. CASE Entry!LookUp(r)
  <2> DEFINE c == [calls[r] EXCEPT !.at = "format", !.number = pid,
                                   !.found = pid \in Existing]
  <2>1. Placed(c) /\ c.at = "format"
    BY <1>0 DEF Placed
  <2>2. Entry!Become(r, c) /\ completed' = completed
    BY <1>4 DEF Entry!LookUp
  <2> HIDE DEF c
  <2> QED  BY <1>0, <2>1, <2>2, BecomeInv
<1>5. CASE Entry!Format(r)
  <2>1. PICK answer : Entry!Become(r,
          [calls[r] EXCEPT !.at = "call", !.answers = Append(@, answer)])
    BY <1>5 DEF Entry!Format
  <2> DEFINE c == [calls[r] EXCEPT !.at = "call", !.answers = Append(@, answer)]
  <2>2. Placed(c) /\ c.at = "call"
    BY <1>0 DEF Placed
  <2>3. Entry!Become(r, c) /\ completed' = completed
    BY <1>5, <2>1 DEF Entry!Format
  <2> HIDE DEF c
  <2> QED  BY <1>0, <2>2, <2>3, BecomeInv
<1> QED  BY <1>1, <1>2, <1>3, <1>4, <1>5 DEF Entry!proc_read, Entry!Quietly

\* A new reader has not seen the end of the file.
LEMMA OpenInv ==
  ASSUME NEW r, IInv, Entry!OpenEntry(r)
  PROVE  IInv'
<1>1. Placed(Entry!Opened) /\ Entry!Opened.at = "call"
  BY DEF Placed, Entry!Opened
<1>2. \A q \in DOMAIN calls : Placed([calls[q] EXCEPT !.calm = FALSE]) /\
        [calls[q] EXCEPT !.calm = FALSE].at = calls[q].at
  BY DEF IInv, CallsInv, Placed
<1>3. r \notin DOMAIN calls /\ module # "out" /\ UNCHANGED <<completed, module, left>>
  BY DEF Entry!OpenEntry, Entry!CanOpen
<1>4. /\ DOMAIN calls' = DOMAIN calls \cup {r}
      /\ calls'[r] = Entry!Opened
      /\ \A q \in DOMAIN calls : calls'[q] = [calls[q] EXCEPT !.calm = FALSE]
  BY <1>3 DEF Entry!OpenEntry, Entry!Disturbed
<1>5. CallsInv'
  BY <1>1, <1>2, <1>4 DEF IInv, CallsInv, Placed
<1>6. UnloadedInv' /\ ReaderRemains'
  BY <1>1, <1>3, <1>4 DEF IInv, UnloadedInv, ReaderRemains
<1> QED  BY <1>3, <1>5, <1>6 DEF IInv

\* A write sets pid and leaves the readers and completed alone.
LEMMA WriteInv ==
  ASSUME NEW word, IInv, Entry!proc_write(word)
  PROVE  IInv'
<1>1. \A q \in DOMAIN calls : Placed([calls[q] EXCEPT !.calm = FALSE]) /\
        [calls[q] EXCEPT !.calm = FALSE].at = calls[q].at
  BY DEF IInv, CallsInv, Placed
<1>2. /\ DOMAIN calls' = DOMAIN calls
      /\ \A q \in DOMAIN calls : calls'[q] = [calls[q] EXCEPT !.calm = FALSE]
      /\ UNCHANGED <<completed, module, left>>
  BY DEF Entry!proc_write, Entry!Disturbed
<1>3. CallsInv'
  BY <1>1, <1>2 DEF IInv, CallsInv, Placed
<1>4. UnloadedInv' /\ ReaderRemains'
  BY <1>1, <1>2 DEF IInv, UnloadedInv, ReaderRemains, Entry!CanOpen
<1> QED  BY <1>2, <1>3, <1>4 DEF IInv

\* While the entry exists only a reader at "eof" closes it; one that stops early
\* is recorded in left.
LEMMA CloseInv ==
  ASSUME NEW r, IInv, r \in DOMAIN calls,
         Entry!Quietly(Entry!CloseEntry(r)) \/ Entry!Quietly(Entry!LeaveEntry(r))
  PROVE  IInv'
<1>1. /\ DOMAIN calls' = DOMAIN calls \ {r}
      /\ \A q \in DOMAIN calls' : calls'[q] = calls[q]
      /\ UNCHANGED <<completed, module>>
  BY DEF Entry!Quietly, Entry!CloseEntry, Entry!LeaveEntry, Entry!Close
<1>2. CallsInv' /\ UnloadedInv'
  BY <1>1 DEF IInv, CallsInv, Placed, UnloadedInv
<1>3. ReaderRemains'
  BY <1>1 DEF IInv, ReaderRemains, Entry!CanOpen, Entry!Quietly, Entry!CloseEntry,
              Entry!LeaveEntry
<1> QED  BY <1>1, <1>2, <1>3 DEF IInv

\* Loading the module clears completed; unloading and time leave it alone.
LEMMA KernelInv ==
  ASSUME IInv, Kernel
  PROVE  IInv'
<1>1. UNCHANGED <<completed, calls, left>>
  BY DEF Kernel, Entry!Create, Entry!SetStart, Entry!Remove, Entry!Tick
<1>2. /\ module' = "out" => module = "out"
      /\ Entry!CanOpen' => Entry!CanOpen \/ module = "out"
  BY DEF Kernel, Entry!Create, Entry!SetStart, Entry!Remove, Entry!Tick, Entry!CanOpen
<1> QED  BY <1>1, <1>2 DEF IInv, CallsInv, Placed, UnloadedInv, ReaderRemains

\* The invariant is inductive: one case for each kind of step.
LEMMA StepInv == IInv /\ [Next]_vars => IInv'
<1> SUFFICES ASSUME IInv, [Next]_vars
             PROVE  IInv'
  OBVIOUS
<1>1. CASE Type \/ RunShell \/ UNCHANGED vars
  BY <1>1, UnchangedInv DEF Type, RunShell, vars, entryVars
<1>2. CASE Kernel
  BY <1>2, KernelInv
<1>3. ASSUME NEW q \in Pids, Process(q)
      PROVE  IInv'
  <2>1. CASE Ordinary(q)
    BY <2>1, UnchangedInv DEF Ordinary
  <2>2. CASE ReadEntry(q)
    BY <2>2, OpenInv, ReadInv, CloseInv, UnchangedInv DEF ReadEntry
  <2>3. CASE WriteEntry(q)
    BY <2>3, WriteInv, UnchangedInv DEF WriteEntry
  <2> QED  BY <1>3, <2>1, <2>2, <2>3 DEF Process
<1> QED  BY <1>1, <1>2, <1>3 DEF Next

-----------------------------------------------------------------------------
\* With nobody reading the entry, and nobody having stopped early, completed is 0
\* and the next reader gets an answer, however proc_read and proc_write of the
\* programs before were interleaved.
THEOREM EntryRecovers == Spec => []QuietMeansClear
<1>1. Init => IInv
  BY InitInv
<1>2. IInv /\ [Next]_vars => IInv'
  BY StepInv
<1>3. IInv => QuietMeansClear
  BY QuietFollows
<1> QED  BY <1>1, <1>2, <1>3, PTL DEF Spec

-----------------------------------------------------------------------------
(* The answers. *)

\* A reader has the fields that OpenEntry gives it.
Reader(c) == c = [at |-> c.at, answers |-> c.answers, number |-> c.number,
                  found |-> c.found, since |-> c.since, clear |-> c.clear,
                  calm |-> c.calm]
ReadersInv == \A r \in DOMAIN calls : Reader(calls[r])

TimeInv ==
  /\ clock \in 0..MaxClock /\ boot \in 0..(Wrap - 1) /\ loadedAt \in 0..clock
  /\ entry \in Entry!Entries
  /\ (entry = "seconds" /\ module \in {"in", "removed"}) =>
       init_jiffies = (boot + loadedAt) % Wrap
  /\ module # "out" => entry # "none"

\* Where the calls of a reader that is alone stand, if the first one answers.
Progress(c, done) ==
  /\ done = IF c.at \in {"look", "format", "reset"} \/ (c.at = "call" /\ c.answers # <<>>)
                 THEN 1 ELSE 0
  /\ c.at \in {"mark", "look", "format"} => c.answers = <<>>
  /\ c.at \in {"reset", "eof"} => c.answers # <<>>
  /\ (c.at = "format" /\ entry = "pid") =>
       c.number = pid /\ c.found = (pid \in Existing)

\* It has no answer or one, and that a true one.
Answered(r) ==
  calls[r].answers # <<>> =>
    \E a \in Entry!Truths(r) : calls[r].answers = <<a>>

\* A reader that nobody has disturbed is alone; the module was loaded before.
CalmInv ==
  \A r \in DOMAIN calls : calls[r].calm =>
    /\ DOMAIN calls = {r}
    /\ module \in {"in", "removed"}
    /\ calls[r].since \in loadedAt..clock
    /\ calls[r].clear => Progress(calls[r], completed) /\ Answered(r)

AnswerInv == ReadersInv /\ TimeInv /\ CalmInv
-----------------------------------------------------------------------------
\* Moving on, looking up, answering and being disturbed change no other field.
LEMMA MovedReader ==
  ASSUME NEW c, Reader(c), NEW at
  PROVE  /\ Reader([c EXCEPT !.at = at]) /\ [c EXCEPT !.at = at].at = at
         /\ [c EXCEPT !.at = at].answers = c.answers
         /\ [c EXCEPT !.at = at].number = c.number
         /\ [c EXCEPT !.at = at].found = c.found
         /\ [c EXCEPT !.at = at].since = c.since
         /\ [c EXCEPT !.at = at].clear = c.clear
         /\ [c EXCEPT !.at = at].calm = c.calm
<1> DEFINE R == [at |-> at, answers |-> c.answers, number |-> c.number,
                 found |-> c.found, since |-> c.since, clear |-> c.clear,
                 calm |-> c.calm]
<1>1. [c EXCEPT !.at = at] = R
  BY DEF Reader
<1>2. /\ R.at = at /\ R.answers = c.answers /\ R.number = c.number /\ R.found = c.found
      /\ R.since = c.since /\ R.clear = c.clear /\ R.calm = c.calm
  OBVIOUS
<1>3. Reader(R)
  BY DEF Reader
<1> QED  BY <1>1, <1>2, <1>3

\* The number that proc_read for pid has looked up,
LEMMA NumberedReader ==
  ASSUME NEW c, Reader(c), NEW number
  PROVE  /\ Reader([c EXCEPT !.number = number]) /\ [c EXCEPT !.number = number].number = number
         /\ [c EXCEPT !.number = number].at = c.at
         /\ [c EXCEPT !.number = number].answers = c.answers
         /\ [c EXCEPT !.number = number].found = c.found
         /\ [c EXCEPT !.number = number].since = c.since
         /\ [c EXCEPT !.number = number].clear = c.clear
         /\ [c EXCEPT !.number = number].calm = c.calm
<1> DEFINE R == [at |-> c.at, answers |-> c.answers, number |-> number,
                 found |-> c.found, since |-> c.since, clear |-> c.clear,
                 calm |-> c.calm]
<1>1. [c EXCEPT !.number = number] = R
  BY DEF Reader
<1>2. /\ R.at = c.at /\ R.answers = c.answers /\ R.number = number /\ R.found = c.found
      /\ R.since = c.since /\ R.clear = c.clear /\ R.calm = c.calm
  OBVIOUS
<1>3. Reader(R)
  BY DEF Reader
<1> QED  BY <1>1, <1>2, <1>3

\* and whether there is such a process.
LEMMA FoundReader ==
  ASSUME NEW c, Reader(c), NEW found
  PROVE  /\ Reader([c EXCEPT !.found = found]) /\ [c EXCEPT !.found = found].found = found
         /\ [c EXCEPT !.found = found].at = c.at
         /\ [c EXCEPT !.found = found].answers = c.answers
         /\ [c EXCEPT !.found = found].number = c.number
         /\ [c EXCEPT !.found = found].since = c.since
         /\ [c EXCEPT !.found = found].clear = c.clear
         /\ [c EXCEPT !.found = found].calm = c.calm
<1> DEFINE R == [at |-> c.at, answers |-> c.answers, number |-> c.number,
                 found |-> found, since |-> c.since, clear |-> c.clear,
                 calm |-> c.calm]
<1>1. [c EXCEPT !.found = found] = R
  BY DEF Reader
<1>2. /\ R.at = c.at /\ R.answers = c.answers /\ R.number = c.number /\ R.found = found
      /\ R.since = c.since /\ R.clear = c.clear /\ R.calm = c.calm
  OBVIOUS
<1>3. Reader(R)
  BY DEF Reader
<1> QED  BY <1>1, <1>2, <1>3

\* An answer is added to those of a reader,
LEMMA AnsweredReader ==
  ASSUME NEW c, Reader(c), NEW answers
  PROVE  /\ Reader([c EXCEPT !.answers = answers]) /\ [c EXCEPT !.answers = answers].answers = answers
         /\ [c EXCEPT !.answers = answers].at = c.at
         /\ [c EXCEPT !.answers = answers].number = c.number
         /\ [c EXCEPT !.answers = answers].found = c.found
         /\ [c EXCEPT !.answers = answers].since = c.since
         /\ [c EXCEPT !.answers = answers].clear = c.clear
         /\ [c EXCEPT !.answers = answers].calm = c.calm
<1> DEFINE R == [at |-> c.at, answers |-> answers, number |-> c.number,
                 found |-> c.found, since |-> c.since, clear |-> c.clear,
                 calm |-> c.calm]
<1>1. [c EXCEPT !.answers = answers] = R
  BY DEF Reader
<1>2. /\ R.at = c.at /\ R.answers = answers /\ R.number = c.number /\ R.found = c.found
      /\ R.since = c.since /\ R.clear = c.clear /\ R.calm = c.calm
  OBVIOUS
<1>3. Reader(R)
  BY DEF Reader
<1> QED  BY <1>1, <1>2, <1>3

\* and what makes the answers of a reader disturbed or stale is noted.
LEMMA RemarkedReader ==
  ASSUME NEW c, Reader(c), NEW calm
  PROVE  Reader([c EXCEPT !.calm = calm]) /\ [c EXCEPT !.calm = calm].calm = calm
<1> DEFINE R == [at |-> c.at, answers |-> c.answers, number |-> c.number,
                 found |-> c.found, since |-> c.since, clear |-> c.clear,
                 calm |-> calm]
<1>1. [c EXCEPT !.calm = calm] = R
  BY DEF Reader
<1>2. Reader(R) /\ R.calm = calm
  BY DEF Reader
<1> QED  BY <1>1, <1>2

\* A disturbed reader is still a reader.
LEMMA DisturbedReader ==
  ASSUME NEW c, Reader(c)
  PROVE  Reader([c EXCEPT !.calm = FALSE]) /\ ~[c EXCEPT !.calm = FALSE].calm
<1>1. Reader([c EXCEPT !.calm = FALSE]) /\ [c EXCEPT !.calm = FALSE].calm = FALSE
  BY RemarkedReader, Zenon
<1> QED  BY <1>1

\* At the start there are no readers.
LEMMA AnswerInit == Init => AnswerInv
<1> SUFFICES ASSUME Init
             PROVE  AnswerInv
  OBVIOUS
<1>1. DOMAIN calls = {} /\ module = "out"
  BY DEF Init, Entry!Init
<1>2. TimeInv
  BY OshAssumption DEF Init, Entry!Init, TimeInv, Entry!Parameters, Entry!KeepsTime
<1> QED  BY <1>1, <1>2 DEF AnswerInv, ReadersInv, CalmInv

\* Time goes on, and nothing else changes at the entry but the module's state.
LEMMA TruthsGrow ==
  ASSUME NEW r \in DOMAIN calls, TimeInv, calls[r].since \in loadedAt..clock,
         UNCHANGED <<entry, pid, boot, calls, loadedAt>>,
         clock' \in Nat, clock <= clock', entry # "none"
  PROVE  Entry!Truths(r) \subseteq Entry!Truths(r)'
<1>1. calls[r].since..clock \subseteq calls[r].since..clock'
  BY DEF TimeInv
<1>2. calls'[r] = calls[r]
  OBVIOUS
<1>3. CASE entry = "jiffies"
  BY <1>1, <1>2, <1>3 DEF Entry!Truths
<1>4. CASE entry = "seconds"
  BY <1>1, <1>2, <1>4 DEF Entry!Truths
<1>5. CASE entry = "pid"
  BY <1>5 DEF Entry!Truths
<1> QED  BY <1>3, <1>4, <1>5 DEF TimeInv, Entry!Entries

\* jiffies - init_jiffies is the time since the module was loaded, although
\* both are counted modulo Wrap.
LEMMA SinceLoaded ==
  ASSUME NEW n \in Nat \ {0}, NEW a \in Nat, NEW b \in Nat, b <= a, a < n,
         NEW s \in 0..(n-1)
  PROVE  (((s + a) % n) - ((s + b) % n)) % n = a - b
<1>1. \A x \in 0..(n-1) : x % n = x
  BY SMT
<1>2. \A x \in n..(2*n-1) : x % n = x - n
  BY SMT
<1>3. \A x \in (-n)..(-1) : x % n = x + n
  BY SMT
<1>4. s + a \in 0..(2*n-1) /\ s + b \in 0..(2*n-1) /\ a - b \in 0..(n-1)
  OBVIOUS
<1>5. CASE s + a < n
  <2>1. (s + a) % n = s + a /\ (s + b) % n = s + b
    BY <1>1, <1>5
  <2> QED  BY <2>1, <1>1, <1>4
<1>6. CASE s + a >= n /\ s + b >= n
  <2>1. (s + a) % n = s + a - n /\ (s + b) % n = s + b - n
    BY <1>2, <1>4, <1>6
  <2> QED  BY <2>1, <1>1, <1>4
<1>7. CASE s + a >= n /\ s + b < n
  <2>1. (s + a) % n = s + a - n /\ (s + b) % n = s + b
    BY <1>1, <1>2, <1>4, <1>7
  <2>2. (s + a - n) - (s + b) = (a - b) - n /\ (a - b) - n \in (-n)..(-1)
    BY <1>4, <1>7
  <2>3. ((a - b) - n) % n = a - b
    BY <2>2, <1>3
  <2> QED  BY <2>1, <2>2, <2>3
<1> QED  BY <1>5, <1>6, <1>7

\* What sprintf() prints is true now.
LEMMA PrintedTrue ==
  ASSUME NEW r \in DOMAIN calls, TimeInv, module \in {"in", "removed"},
         calls[r].since \in loadedAt..clock, entry # "none",
         entry = "pid" => calls[r].number = pid /\ calls[r].found = (pid \in Existing)
  PROVE  Entry!Printed(r) \subseteq Entry!Truths(r)
<1>1. clock \in calls[r].since..clock
  BY DEF TimeInv
<1>2. CASE entry = "jiffies"
  BY <1>1, <1>2 DEF Entry!Printed, Entry!Truths, Entry!jiffies
<1>3. CASE entry = "seconds"
  <2>1. /\ clock \in Nat /\ loadedAt \in Nat /\ loadedAt <= clock /\ clock < Wrap
        /\ boot \in 0..(Wrap-1) /\ Wrap \in Nat \ {0}
    BY OshAssumption DEF TimeInv, Entry!Parameters
  <2>2. init_jiffies = (boot + loadedAt) % Wrap
    BY <1>3 DEF TimeInv
  <2>3. (Entry!jiffies - init_jiffies) % Wrap = clock - loadedAt
    BY <2>1, <2>2, SinceLoaded DEF Entry!jiffies
  <2>4. Entry!seconds = (clock - loadedAt) \div HZ
    BY <2>3 DEF Entry!seconds
  <2> QED  BY <1>1, <1>3, <2>4 DEF Entry!Printed, Entry!Truths
<1>4. CASE entry = "pid"
  BY <1>4 DEF Entry!Printed, Entry!Truths
<1> QED  BY <1>2, <1>3, <1>4 DEF TimeInv, Entry!Entries

\* One reader goes on and, if it is undisturbed, keeps to the calls' order.
LEMMA ReaderGoesOn ==
  ASSUME AnswerInv, NEW r \in DOMAIN calls, NEW c, Reader(c), Entry!Become(r, c),
         UNCHANGED <<entry, module, pid, init_jiffies, boot, clock, loadedAt>>,
         c.since = calls[r].since, c.clear = calls[r].clear, c.calm = calls[r].calm,
         (calls[r].calm /\ calls[r].clear) =>
           /\ Progress(c, completed')
           /\ c.answers # <<>> => \E a \in Entry!Truths(r) : c.answers = <<a>>
  PROVE  AnswerInv'
<1>1. /\ DOMAIN calls' = DOMAIN calls
      /\ calls'[r] = c
      /\ \A q \in DOMAIN calls : q # r => calls'[q] = calls[q]
  BY DEF Entry!Become
<1>2. ReadersInv'
  BY <1>1 DEF AnswerInv, ReadersInv
<1>3. TimeInv'
  BY DEF AnswerInv, TimeInv
<1>4. Entry!Truths(r)' = Entry!Truths(r)
  BY <1>1 DEF Entry!Truths
<1>5. ASSUME NEW q \in DOMAIN calls', calls'[q].calm
      PROVE  /\ DOMAIN calls' = {q}
             /\ module' \in {"in", "removed"}
             /\ calls'[q].since \in loadedAt'..clock'
             /\ calls'[q].clear => Progress(calls[q], completed)' /\ Answered(q)'
  <2>1. calls[q].calm
    BY <1>1, <1>5
  <2>2. DOMAIN calls = {q} /\ module \in {"in", "removed"} /\ calls[q].since \in loadedAt..clock
    BY <1>1, <1>5, <2>1 DEF AnswerInv, CalmInv
  <2>3. q = r
    BY <2>2
  <2>4. calls'[q].clear => Progress(c, completed') /\ Answered(q)'
    BY <1>1, <1>4, <2>1, <2>3 DEF Answered
  <2>5. Progress(calls[q], completed)' <=> Progress(c, completed')
    BY <1>1, <2>3 DEF Progress
  <2> QED  BY <1>1, <2>2, <2>3, <2>4, <2>5
<1>6. CalmInv'
  BY <1>5 DEF CalmInv
<1> QED  BY <1>2, <1>3, <1>6 DEF AnswerInv

\* A call of proc_read: only of a reader that is alone does it matter what is answered.
LEMMA ReadAnswers ==
  ASSUME NEW r, AnswerInv, r \in DOMAIN calls, Entry!proc_read(r)
  PROVE  AnswerInv'
<1>0. /\ UNCHANGED <<entry, module, pid, init_jiffies, boot, clock, loadedAt>>
      /\ Reader(calls[r])
  BY DEF Entry!proc_read, Entry!Quietly, AnswerInv, ReadersInv
<1>a. (calls[r].calm /\ calls[r].clear) =>
        /\ Progress(calls[r], completed)
        /\ calls[r].answers # <<>> => \E a \in Entry!Truths(r) : calls[r].answers = <<a>>
  BY DEF AnswerInv, CalmInv, Answered
<1>1. CASE Entry!Test(r)
  <2> DEFINE c == [calls[r] EXCEPT !.at = Entry!Tested(r)]
  <2>1. /\ Reader(c) /\ c.at = Entry!Tested(r) /\ c.answers = calls[r].answers
        /\ c.since = calls[r].since /\ c.clear = calls[r].clear /\ c.calm = calls[r].calm
    BY <1>0, MovedReader
  <2>2. Entry!Become(r, c) /\ completed' = completed /\ calls[r].at = "call"
    BY <1>1 DEF Entry!Test
  <2> HIDE DEF c
  <2>3. (calls[r].calm /\ calls[r].clear) => Progress(c, completed')
    BY <1>a, <2>1, <2>2 DEF Progress, Entry!Tested
  <2> QED  BY <1>0, <1>a, <2>1, <2>2, <2>3, ReaderGoesOn
<1>2. CASE Entry!Reset(r)
  <2> DEFINE c == [calls[r] EXCEPT !.at = "eof"]
  <2>1. /\ Reader(c) /\ c.at = "eof" /\ c.answers = calls[r].answers
        /\ c.since = calls[r].since /\ c.clear = calls[r].clear /\ c.calm = calls[r].calm
    BY <1>0, MovedReader
  <2>2. Entry!Become(r, c) /\ completed' = 0 /\ calls[r].at = "reset"
    BY <1>2 DEF Entry!Reset
  <2> HIDE DEF c
  <2>3. (calls[r].calm /\ calls[r].clear) => Progress(c, completed')
    BY <1>a, <2>1, <2>2 DEF Progress
  <2> QED  BY <1>0, <1>a, <2>1, <2>2, <2>3, ReaderGoesOn
<1>3. CASE Entry!Mark(r)
  <2> DEFINE at == IF entry = "pid" THEN "look" ELSE "format"
             c == [calls[r] EXCEPT !.at = at]
  <2>1. /\ Reader(c) /\ c.at = at /\ c.answers = calls[r].answers
        /\ c.since = calls[r].since /\ c.clear = calls[r].clear /\ c.calm = calls[r].calm
    BY <1>0, MovedReader
  <2>2. Entry!Become(r, c) /\ completed' = 1 /\ calls[r].at = "mark"
    BY <1>3 DEF Entry!Mark
  <2> HIDE DEF c
  <2>3. (calls[r].calm /\ calls[r].clear) => Progress(c, completed')
    BY <1>a, <2>1, <2>2 DEF Progress
  <2> QED  BY <1>0, <1>a, <2>1, <2>2, <2>3, ReaderGoesOn
<1>4. CASE Entry!LookUp(r)
  <2> DEFINE there == pid \in Existing
             m == [calls[r] EXCEPT !.at = "format"]
             n == [m EXCEPT !.number = pid]
             c == [n EXCEPT !.found = there]
  <2>0. [calls[r] EXCEPT !.at = "format", !.number = pid, !.found = pid \in Existing] = c
    OBVIOUS
  <2>a. /\ Reader(m) /\ m.at = "format" /\ m.answers = calls[r].answers
        /\ m.since = calls[r].since /\ m.clear = calls[r].clear /\ m.calm = calls[r].calm
    BY <1>0, MovedReader
  <2> HIDE DEF m
  <2>b. /\ Reader(n) /\ n.at = "format" /\ n.answers = calls[r].answers /\ n.number = pid
        /\ n.since = calls[r].since /\ n.clear = calls[r].clear /\ n.calm = calls[r].calm
    BY <2>a, NumberedReader
  <2>d. there = (pid \in Existing)
    OBVIOUS
  <2> HIDE DEF n, there
  <2>1. /\ Reader(c) /\ c.at = "format" /\ c.answers = calls[r].answers
        /\ c.number = pid /\ c.found = there
        /\ c.since = calls[r].since /\ c.clear = calls[r].clear /\ c.calm = calls[r].calm
    BY <2>b, FoundReader
  <2>2. Entry!Become(r, c) /\ completed' = completed /\ calls[r].at = "look"
    BY <1>4, <2>0 DEF Entry!LookUp
  <2> HIDE DEF c
  <2>3. (calls[r].calm /\ calls[r].clear) => Progress(c, completed')
    BY <1>a, <2>1, <2>2, <2>d DEF Progress
  <2> QED  BY <1>0, <1>a, <2>1, <2>2, <2>3, ReaderGoesOn
<1>5. CASE Entry!Format(r)
  <2>1. PICK answer \in Entry!Printed(r) : Entry!Become(r,
          [calls[r] EXCEPT !.at = "call", !.answers = Append(@, answer)])
    BY <1>5 DEF Entry!Format
  <2> DEFINE answers == Append(calls[r].answers, answer)
             m == [calls[r] EXCEPT !.at = "call"]
             c == [m EXCEPT !.answers = answers]
  <2>a. [calls[r] EXCEPT !.at = "call", !.answers = Append(@, answer)] = c
    OBVIOUS
  <2>b. /\ Reader(m) /\ m.at = "call" /\ m.since = calls[r].since
        /\ m.clear = calls[r].clear /\ m.calm = calls[r].calm
    BY <1>0, MovedReader
  <2>d. answers = Append(calls[r].answers, answer)
    OBVIOUS
  <2> HIDE DEF m, answers
  <2>2. /\ Reader(c) /\ c.at = "call" /\ c.answers = answers
        /\ c.since = calls[r].since /\ c.clear = calls[r].clear /\ c.calm = calls[r].calm
    BY <2>b, AnsweredReader
  <2> HIDE DEF c
  <2>3. Entry!Become(r, c) /\ completed' = completed /\ calls[r].at = "format"
    BY <1>5, <2>1, <2>a DEF Entry!Format
  <2>4. ASSUME calls[r].calm, calls[r].clear
        PROVE  /\ Progress(c, completed')
               /\ \E a \in Entry!Truths(r) : c.answers = <<a>>
    <3>1. completed = 1 /\ calls[r].answers = <<>>
      BY <1>a, <2>3, <2>4 DEF Progress
    <3>2. c.answers = <<answer>> /\ c.answers # <<>>
      BY <2>2, <2>d, <3>1
    <3>3. Progress(c, completed')
      BY <2>2, <2>3, <3>1, <3>2 DEF Progress
    <3>4. /\ module \in {"in", "removed"} /\ calls[r].since \in loadedAt..clock
          /\ entry # "none" /\ TimeInv
      BY <2>4 DEF AnswerInv, CalmInv, TimeInv
    <3>5. entry = "pid" => calls[r].number = pid /\ calls[r].found = (pid \in Existing)
      BY <1>a, <2>3, <2>4 DEF Progress
    <3>6. answer \in Entry!Truths(r)
      BY <2>1, <3>4, <3>5, PrintedTrue
    <3> QED  BY <3>2, <3>3, <3>6
  <2> QED  BY <1>0, <2>2, <2>3, <2>4, ReaderGoesOn
<1> QED  BY <1>1, <1>2, <1>3, <1>4, <1>5 DEF Entry!proc_read, Entry!Quietly

\* A reader that comes while there is another one disturbs both.
LEMMA OpenAnswers ==
  ASSUME NEW r, AnswerInv, Entry!OpenEntry(r)
  PROVE  AnswerInv'
<1>1. /\ r \notin DOMAIN calls /\ Entry!CanOpen
      /\ DOMAIN calls' = DOMAIN calls \cup {r}
      /\ calls'[r] = Entry!Opened
      /\ \A q \in DOMAIN calls : calls'[q] = [calls[q] EXCEPT !.calm = FALSE]
      /\ UNCHANGED <<entry, module, completed, pid, init_jiffies, boot, clock, loadedAt>>
  BY DEF Entry!OpenEntry, Entry!Disturbed
<1>2. \A q \in DOMAIN calls : Reader(calls'[q]) /\ ~calls'[q].calm
  BY <1>1, DisturbedReader DEF AnswerInv, ReadersInv
<1>3. /\ Entry!Opened.at = "call" /\ Entry!Opened.answers = <<>>
      /\ Entry!Opened.since = clock
      /\ Reader(Entry!Opened)
  BY DEF Entry!Opened, Reader
<1>4. Entry!Opened.clear = (completed = 0)
  BY DEF Entry!Opened
<1>5. Entry!Opened.calm = (calls = <<>> /\ module = "in")
  BY DEF Entry!Opened
<1>6. ReadersInv' /\ TimeInv'
  BY <1>1, <1>2, <1>3 DEF AnswerInv, ReadersInv, TimeInv
<1>7. ASSUME Entry!Opened.calm
      PROVE  /\ DOMAIN calls' = {r} /\ module' \in {"in", "removed"}
             /\ calls'[r].since \in loadedAt'..clock'
             /\ calls'[r].clear => Progress(calls[r], completed)' /\ Answered(r)'
  <2>0. calls = <<>> /\ module = "in"
    BY <1>5, <1>7
  <2>1. DOMAIN calls' = {r} /\ module' = "in"
    BY <1>1, <2>0
  <2>2. calls'[r].since \in loadedAt'..clock'
    BY <1>1, <1>3 DEF AnswerInv, TimeInv
  <2>3. Answered(r)'
    BY <1>1, <1>3 DEF Answered
  <2>4. calls'[r].clear => Progress(calls[r], completed)'
    BY <1>1, <1>3, <1>4 DEF Progress
  <2> QED  BY <2>1, <2>2, <2>3, <2>4
<1>8. CalmInv'
  BY <1>1, <1>2, <1>7 DEF CalmInv
<1> QED  BY <1>6, <1>8 DEF AnswerInv

\* A write disturbs every reader,
LEMMA WriteAnswers ==
  ASSUME NEW word, AnswerInv, Entry!proc_write(word)
  PROVE  AnswerInv'
<1>1. /\ DOMAIN calls' = DOMAIN calls
      /\ \A q \in DOMAIN calls : calls'[q] = [calls[q] EXCEPT !.calm = FALSE]
      /\ UNCHANGED <<entry, module, init_jiffies, boot, clock, loadedAt>>
  BY DEF Entry!proc_write, Entry!Disturbed
<1>2. \A q \in DOMAIN calls : Reader(calls'[q]) /\ ~calls'[q].calm
  BY <1>1, DisturbedReader DEF AnswerInv, ReadersInv
<1> QED  BY <1>1, <1>2 DEF AnswerInv, ReadersInv, TimeInv, CalmInv

\* and one that closes the entry leaves none that is alone.
LEMMA CloseAnswers ==
  ASSUME NEW r, AnswerInv, r \in DOMAIN calls,
         Entry!Quietly(Entry!CloseEntry(r)) \/ Entry!Quietly(Entry!LeaveEntry(r))
  PROVE  AnswerInv'
<1>1. /\ DOMAIN calls' = DOMAIN calls \ {r}
      /\ \A q \in DOMAIN calls' : calls'[q] = calls[q]
      /\ UNCHANGED <<entry, module, init_jiffies, boot, clock, loadedAt>>
  BY DEF Entry!Quietly, Entry!CloseEntry, Entry!LeaveEntry, Entry!Close
<1>2. \A q \in DOMAIN calls' : ~calls'[q].calm
  BY <1>1 DEF AnswerInv, CalmInv
<1> QED  BY <1>1, <1>2 DEF AnswerInv, ReadersInv, TimeInv, CalmInv

\* Loading, unloading and ticks make more answers true, never fewer.
LEMMA KernelAnswers ==
  ASSUME AnswerInv, Kernel
  PROVE  AnswerInv'
<1>1. /\ UNCHANGED <<entry, completed, pid, boot, calls>>
      /\ clock' \in 0..MaxClock /\ clock <= clock' /\ clock \in Nat
  BY OshAssumption DEF Kernel, Entry!Create, Entry!SetStart, Entry!Remove, Entry!Tick,
     Entry!Parameters, AnswerInv, TimeInv
<1>2. \/ module' = module
      \/ module = "out" /\ module' \in {"creating", "in"}
      \/ module = "creating" /\ module' = "in"
      \/ module = "in" /\ module' = "removed"
  BY DEF Kernel, Entry!Create, Entry!SetStart, Entry!Remove, Entry!Tick
<1>3. module \in {"in", "removed"} => UNCHANGED <<loadedAt, init_jiffies>>
  BY DEF Kernel, Entry!Create, Entry!SetStart, Entry!Remove, Entry!Tick
<1>4. TimeInv'
  BY OshAssumption DEF Kernel, Entry!Create, Entry!SetStart, Entry!Remove, Entry!Tick,
     Entry!Parameters, AnswerInv, TimeInv, Entry!jiffies
<1>5. ASSUME NEW r \in DOMAIN calls', calls'[r].calm
      PROVE  /\ DOMAIN calls' = {r} /\ module' \in {"in", "removed"}
             /\ calls'[r].since \in loadedAt'..clock'
             /\ calls'[r].clear => Progress(calls[r], completed)' /\ Answered(r)'
  <2>1. /\ DOMAIN calls = {r} /\ module \in {"in", "removed"}
        /\ calls[r].since \in loadedAt..clock
        /\ calls[r].clear => Progress(calls[r], completed) /\ Answered(r)
        /\ TimeInv /\ entry # "none"
    BY <1>1, <1>5 DEF AnswerInv, CalmInv, TimeInv
  <2>2. module' \in {"in", "removed"} /\ UNCHANGED <<loadedAt, init_jiffies>>
    BY <1>2, <1>3, <2>1
  <2>3. calls'[r].since \in loadedAt'..clock'
    BY <1>1, <2>1, <2>2 DEF TimeInv
  <2>4. Entry!Truths(r) \subseteq Entry!Truths(r)'
    BY <1>1, <2>1, <2>2, TruthsGrow
  <2>5. Progress(calls[r], completed) => Progress(calls[r], completed)'
    BY <1>1 DEF Progress
  <2>6. Answered(r) => Answered(r)'
    BY <1>1, <2>4 DEF Answered
  <2> QED  BY <1>1, <2>1, <2>2, <2>3, <2>5, <2>6
<1>6. CalmInv'
  BY <1>5 DEF CalmInv
<1>7. ReadersInv'
  BY <1>1 DEF AnswerInv, ReadersInv
<1> QED  BY <1>4, <1>6, <1>7 DEF AnswerInv

\* The shell and the programs that leave the entry alone keep it.
LEMMA UnchangedAnswers == AnswerInv /\ UNCHANGED entryVars => AnswerInv'
<1> SUFFICES ASSUME AnswerInv, UNCHANGED entryVars
             PROVE  AnswerInv'
  OBVIOUS
<1>1. ReadersInv' /\ TimeInv'
  BY DEF AnswerInv, ReadersInv, TimeInv, entryVars
<1>2. \A r : Entry!Truths(r)' = Entry!Truths(r)
  BY DEF Entry!Truths, entryVars
<1>3. \A r : Answered(r)' <=> Answered(r)
  BY <1>2 DEF Answered, entryVars
<1>4. CalmInv'
  BY <1>3 DEF AnswerInv, CalmInv, Progress, entryVars
<1> QED  BY <1>1, <1>4 DEF AnswerInv

\* The invariant is inductive: one case for each kind of step.
LEMMA StepAnswers == AnswerInv /\ [Next]_vars => AnswerInv'
<1> SUFFICES ASSUME AnswerInv, [Next]_vars
             PROVE  AnswerInv'
  OBVIOUS
<1>1. CASE Type \/ RunShell \/ UNCHANGED vars
  BY <1>1, UnchangedAnswers DEF Type, RunShell, vars, entryVars
<1>2. CASE Kernel
  BY <1>2, KernelAnswers
<1>3. ASSUME NEW q \in Pids, Process(q)
      PROVE  AnswerInv'
  <2>1. CASE Ordinary(q)
    BY <2>1, UnchangedAnswers DEF Ordinary
  <2>2. CASE ReadEntry(q)
    BY <2>2, OpenAnswers, ReadAnswers, CloseAnswers, UnchangedAnswers DEF ReadEntry
  <2>3. CASE WriteEntry(q)
    BY <2>3, WriteAnswers, UnchangedAnswers DEF WriteEntry
  <2> QED  BY <1>3, <2>1, <2>2, <2>3 DEF Process
<1> QED  BY <1>1, <1>2, <1>3 DEF Next

\* A reader that was alone throughout has exactly one answer, and a true one.
LEMMA AnswersFollow == AnswerInv => AnswersTrue
<1> SUFFICES ASSUME AnswerInv, NEW r \in DOMAIN calls, calls[r].calm, calls[r].clear
             PROVE  /\ Len(calls[r].answers) <= 1
                    /\ calls[r].at = "eof" => Len(calls[r].answers) = 1
                    /\ \A k \in DOMAIN calls[r].answers :
                         calls[r].answers[k] \in Entry!Truths(r)
  BY DEF AnswersTrue, Entry!AnswersTrue
<1>1. Progress(calls[r], completed) /\ Answered(r)
  BY DEF AnswerInv, CalmInv
<1>2. CASE calls[r].answers = <<>>
  BY <1>1, <1>2 DEF Progress
<1>3. CASE calls[r].answers # <<>>
  <2>1. PICK a \in Entry!Truths(r) : calls[r].answers = <<a>>
    BY <1>1, <1>3 DEF Answered
  <2> QED  BY <2>1
<1> QED  BY <1>2, <1>3

\* A program that has the entry to itself, and finds completed clear, gets one
\* answer and one that was true while it had the entry open: for every clock,
\* also across the wrap of jiffies, and for every command that runs meanwhile.
THEOREM ReadersGetTheTruth == Spec => []AnswersTrue
<1> QED  BY AnswerInit, StepAnswers, AnswersFollow, PTL DEF Spec

-----------------------------------------------------------------------------
(* The invariant of the shell. *)

\* Where the NULL goes in a line, and what is in the buffer: the words of the
\* line, with a NULL in slot h and nowhere else.
End(line) ==
  LET c == Sh!Parsed(line)
  IN IF Sh!Has(c, "<") THEN c["<"]
     ELSE IF Sh!Has(c, ">") THEN c[">"]
     ELSE IF Sh!Has(c, "&") THEN Len(line) - 1 ELSE Len(line)
Buffered(a, line, h) ==
  /\ a = [k \in Sh!Slots |-> a[k]]
  /\ \A k \in Sh!Slots : a[k] = NULL <=> k = h
  /\ \A k \in Sh!Slots : (k < Len(line) /\ k # h) => a[k] = line[k+1]

\* The locals once the NULL is in its place,
Ready(a, n, t, c, line) ==
  /\ c = Sh!Parsed(line) /\ n = End(line) /\ Buffered(a, line, n)
  /\ t # NULL /\ (n < Len(line) => t = line[n+1])
\* and after MakePipe has put the word back.
Split(a, n, t, c, line) ==
  /\ c = Sh!Parsed(line) /\ n = End(line) /\ Buffered(a, line, -1)
  /\ Sh!Has(c, "|") /\ t = "|"

\* What fd refers to, if the line has one redirection and n descriptors leak.
FileRight(n, f, line) ==
  LET c == Sh!Parsed(line)
  IN /\ (Sh!Has(c, ">") /\ ~Sh!Has(c, "<")) => f = line[c[">"] + 2]
     /\ (Sh!Has(c, "<") /\ ~Sh!Has(c, ">")) =>
          IF line[c["<"] + 2] \in CannotRead THEN f = "terminal"
          ELSE f = line[c["<"] + 2] \/ (n = MaxFd - 2 /\ f = "terminal")

TypedInv ==
  /\ typed \in Lines \cup {<<>>}
  /\ his.words = typed /\ his.cmd = Sh!Parsed(typed)
  /\ entry \in DOMAIN Sessions
  /\ pc \in {"prompt", "open", "fork", "wait", "ended"}

ArgsInv ==
  /\ args = [k \in Sh!Slots |-> args[k]]
  /\ pc = "prompt" => \A k \in Sh!Slots : args[k] # NULL
  /\ pc = "open" => /\ typed # <<>> /\ prompt_cnt = Len(typed)
                    /\ cmd = Sh!Parsed(typed) /\ Buffered(args, typed, -1)
  /\ pc \in {"fork", "wait"} =>
       typed # <<>> /\ Ready(args, prompt_cnt, tmp_ptr, cmd, typed)

FilesInv ==
  /\ DOMAIN files \subseteq 3..MaxFd
  /\ pc \in {"prompt", "open"} => Cardinality(DOMAIN files) = inputs
  /\ pc \in {"fork", "wait"} => Cardinality(DOMAIN Sh!CloseOutput) = inputs
  /\ inputs \in 0..(MaxFd-2)
  /\ pc = "fork" => FileRight(inputs, Sh!File(files, fd), typed)

Fields == {"at", "parent", "line", "mem", "argv", "in", "out", "left", "got", "holds"}

\* The processes: the children of the shell, and of those at most one each.
TreeInv ==
  /\ DOMAIN procs \subseteq Pids
  /\ \A q \in DOMAIN procs :
       /\ DOMAIN procs[q] = Fields
       /\ procs[q].line \in Lines \ {<<>>}
       /\ \/ procs[q].parent = 1 /\ procs[q].at \in {"child", "second", "command", "zombie"}
          \/ /\ procs[q].at \in {"first", "command", "zombie"}
             /\ procs[q].parent \in DOMAIN procs
             /\ procs[procs[q].parent].at = "second"
             /\ procs[procs[q].parent].line = procs[q].line
             /\ procs[procs[q].parent].parent = 1
  /\ \A c, d \in DOMAIN procs :
       procs[c].parent = procs[d].parent /\ procs[c].parent # 1 => c = d

\* A process of a line without an "&" is the one that the shell waits for, or a
\* child of that.
ForegroundInv ==
  /\ (pc = "wait" /\ ~InBackground(typed)) =>
       child \in DOMAIN procs /\ procs[child].parent = 1
  /\ \A q \in DOMAIN procs : ~InBackground(procs[q].line) =>
       pc = "wait" /\ ~InBackground(typed) /\ child \in {q, procs[q].parent}

\* What a process has in its memory until it runs its program.
Remembers(n, p) ==
  /\ p.at = "child" =>
       /\ DOMAIN p.mem = {"args", "prompt_cnt", "tmp_ptr", "cmd", "file", "open"}
       /\ Ready(p.mem.args, p.mem.prompt_cnt, p.mem.tmp_ptr, p.mem.cmd, p.line)
       /\ FileRight(n, p.mem.file, p.line)
  /\ p.at \in {"first", "second"} =>
       Split(p.mem.args, p.mem.prompt_cnt, p.mem.tmp_ptr, p.mem.cmd, p.line)
MemInv == \A q \in DOMAIN procs : Remembers(inputs, procs[q])

\* A process p with n units in the pipe that it has made,
Holds(p, n) ==
  /\ p.at \in {"child", "first", "second"} => p.got = 0
  /\ p.at = "command" =>
       /\ p.left \in Nat /\ p.got \in Nat
       /\ p.parent = 1 => p.out # "pipe"
       /\ p.in = "pipe" => p.parent = 1 /\ p.got + n = OutputOf(p.line[1])
  /\ n # 0 => p.at = "second" \/ (p.at = "command" /\ p.in = "pipe")

\* and one that writes into a pipe, with n units in it.
Feeds(p, n) ==
  /\ p.at = "first" => n = 0
  /\ p.at = "command" => p.out = "pipe" /\ n + p.left = OutputOf(p.line[1])
  /\ p.at = "zombie" => n = OutputOf(p.line[1])

PipeInv ==
  /\ pipes = [q \in Pids |-> pipes[q]]
  /\ \A q \in Pids : pipes[q] \in Nat /\ (pipes[q] # 0 => q \in DOMAIN procs)
  /\ \A q \in DOMAIN procs :
       /\ Holds(procs[q], pipes[q])
       /\ procs[q].parent # 1 => Feeds(procs[q], pipes[procs[q].parent])

\* What a process runs that runs a program: the words of its line up to the NULL,
\* and on each side of a pipe.
RightRun(n, p) == p.at = "command" =>
  LET c == Sh!Parsed(p.line)
  IN IF ~Sh!Has(c, "|")
     THEN /\ p.argv = SubSeq(p.line, 1, End(p.line))
          /\ \E f \in {p.in, p.out, "terminal"} :
               /\ FileRight(n, f, p.line)
               /\ p.in = IF Sh!Has(c, "<") THEN f ELSE "terminal"
               /\ p.out = IF Sh!Has(c, ">") THEN f ELSE "terminal"
     ELSE IF p.parent # 1
     THEN /\ p.argv = SubSeq(p.line, 1, c["|"])
          /\ p.in = "terminal" /\ p.out = "pipe"
     ELSE /\ p.argv = SubSeq(p.line, c["|"] + 2, End(p.line))
          /\ p.in = "pipe" /\ p.out = "terminal"
RunInv == \A q \in DOMAIN procs : RightRun(inputs, procs[q])

\* No file has the name of a pipe.
NamesInv ==
  /\ \A d \in DOMAIN files : files[d] # "pipe"
  /\ \A q \in DOMAIN procs : procs[q].at = "child" => procs[q].mem.file # "pipe"

-----------------------------------------------------------------------------
(* The lines. *)

\* The least element is the only one that is below the others.
LEMMA LeastIs ==
  ASSUME NEW T, T \subseteq Nat, NEW m \in T, \A y \in T : m <= y
  PROVE  Sh!Min(T) = m
<1>1. \A x \in T : (\A y \in T : x <= y) => x = m
  OBVIOUS
<1> QED  BY <1>1 DEF Sh!Min

\* A set of naturals that is not empty has a least element,
LEMMA MinIs ==
  ASSUME NEW T, T \subseteq Nat, T # {}
  PROVE  Sh!Min(T) \in T /\ \A y \in T : Sh!Min(T) <= y
<1>1. PICK m \in T : \A y \in T : m <= y
  BY LeastNumber
<1> QED  BY <1>1, LeastIs

\* and one below n a greatest.
LEMMA MaxIs ==
  ASSUME NEW n \in Nat, NEW T, T \subseteq 1..n, T # {}
  PROVE  Sh!Max(T) \in T /\ \A y \in T : y <= Sh!Max(T)
<1> DEFINE U == {x \in Nat : n - x \in T}
<1>1. U \subseteq Nat /\ U # {}
  <2>1. PICK y \in T : TRUE
    OBVIOUS
  <2>2. n - y \in U
    BY <2>1
  <2> QED  BY <2>2
<1>2. PICK m \in U : \A x \in U : m <= x
  BY <1>1, LeastNumber
<1>3. n - m \in T /\ \A y \in T : y <= n - m
  <2>1. ASSUME NEW y \in T  PROVE y <= n - m
    <3>1. n - y \in U
      OBVIOUS
    <3> QED  BY <3>1, <1>2
  <2> QED  BY <1>2, <2>1
<1>4. \E x \in T : \A y \in T : x >= y
  BY <1>3
<1> QED  BY <1>4 DEF Sh!Max

\* The words of a line fit into args and are neither NULL nor a stream.
LEMMA LineIs ==
  ASSUME NEW line \in Lines
  PROVE  /\ line \in Seq({line[k] : k \in DOMAIN line} \ {NULL, "terminal", "pipe"})
         /\ Len(line) \in Nat /\ Len(line) < MAX_LINE /\ DOMAIN line = 1..Len(line)
         /\ \A k \in 1..Len(line) : line[k] \notin {NULL, "terminal", "pipe"}
         /\ \A k \in 1..Len(line) : line[k] \in {"<", ">"} =>
              k < Len(line) /\ \A l \in 1..Len(line) : line[l] # "|"
         /\ MAX_LINE \in Nat
<1>1. /\ line \in Seq({line[k] : k \in DOMAIN line} \ {NULL, "terminal", "pipe"})
      /\ Len(line) < MAX_LINE /\ MAX_LINE \in Nat
      /\ \A k \in DOMAIN line : line[k] \in {"<", ">"} =>
            k < Len(line) /\ \A l \in DOMAIN line : line[l] # "|"
  BY OshAssumption DEF Sh!Parameters
<1>2. Len(line) \in Nat /\ DOMAIN line = 1..Len(line)
  BY <1>1
<1>3. \A k \in 1..Len(line) : line[k] \in {line[l] : l \in DOMAIN line} \ {NULL, "terminal", "pipe"}
  BY <1>1
<1> QED  BY <1>1, <1>2, <1>3

\* The index that the loop leaves behind: of the last place of the symbol.
LEMMA ParsedIs ==
  ASSUME NEW line \in Lines, NEW s \in Sh!Symbols
  PROVE  LET i == Sh!Parsed(line)[s]
         IN /\ Sh!Has(Sh!Parsed(line), s) <=> \E k \in 1..Len(line) : line[k] = s
            /\ Sh!Has(Sh!Parsed(line), s) =>
                 /\ i \in 0..(Len(line)-1) /\ line[i+1] = s
                 /\ \A k \in 1..Len(line) : line[k] = s => k <= i + 1
<1> DEFINE P == Sh!Places(line, s)
<1>0. Len(line) \in Nat
  BY LineIs
<1>1. P \subseteq 1..Len(line) /\ \A k \in 1..Len(line) : k \in P <=> line[k] = s
  BY DEF Sh!Places
<1>2. Sh!Parsed(line)[s] = IF P = {} THEN -1 ELSE Sh!Max(P) - 1
  BY DEF Sh!Parsed
<1> HIDE DEF P
<1>3. CASE P = {}
  <2>1. ~Sh!Has(Sh!Parsed(line), s)
    BY <1>2, <1>3 DEF Sh!Has
  <2> QED  BY <1>1, <1>3, <2>1
<1>4. CASE P # {}
  <2>1. Sh!Max(P) \in P /\ \A y \in P : y <= Sh!Max(P)
    BY <1>0, <1>1, <1>4, MaxIs
  <2>2. Sh!Parsed(line)[s] = Sh!Max(P) - 1 /\ Sh!Max(P) \in 1..Len(line)
    BY <1>1, <1>2, <1>4, <2>1
  <2>3. Sh!Has(Sh!Parsed(line), s)
    BY <2>2, <1>0 DEF Sh!Has
  <2>4. Sh!Parsed(line)[s] \in 0..(Len(line)-1) /\ Sh!Parsed(line)[s] + 1 = Sh!Max(P)
    BY <2>2, <1>0
  <2> QED  BY <1>1, <2>1, <2>2, <2>3, <2>4
<1> QED  BY <1>3, <1>4

\* A line with an "&" does not end in "|".
LEMMA Bars ==
  ASSUME NEW line \in Lines, NEW k \in 1..Len(line), line[k] = "&"
  PROVE  line[Len(line)] # "|"
  BY LineIs, OshAssumption DEF Sh!Parameters

\* The NULL goes into a slot of the line or right behind it, and behind a pipe.
LEMMA EndIs ==
  ASSUME NEW line \in Lines
  PROVE  LET c == Sh!Parsed(line)
         IN /\ End(line) \in 0..Len(line) /\ End(line) \in Sh!Slots
            /\ Sh!Has(c, "|") => c["|"] < End(line) /\ ~Sh!Has(c, "<") /\ ~Sh!Has(c, ">")
            /\ \A s \in {"<", ">"} : Sh!Has(c, s) => c[s] + 1 < Len(line)
            /\ Sh!Has(c, "&") => Len(line) >= 1
<1> DEFINE c == Sh!Parsed(line)
<1>1. {"<", ">", "|", "&"} \subseteq Sh!Symbols
  BY DEF Sh!Symbols
<1>2. \A s \in {"<", ">", "|", "&"} :
        Sh!Has(c, s) => c[s] \in 0..(Len(line)-1) /\ line[c[s]+1] = s
  BY <1>1, ParsedIs
<1> HIDE DEF c
<1>3. Len(line) \in Nat /\ Len(line) < MAX_LINE /\ MAX_LINE \in Nat
  BY LineIs
<1>4. ASSUME NEW s \in {"<", ">"}, Sh!Has(c, s)
      PROVE  c[s] + 1 < Len(line) /\ \A l \in 1..Len(line) : line[l] # "|"
  <2>1. c[s] + 1 \in 1..Len(line) /\ line[c[s]+1] = s
    BY <1>2, <1>3, <1>4
  <2> QED  BY <2>1, LineIs
<1>5. Sh!Has(c, "|") => ~Sh!Has(c, "<") /\ ~Sh!Has(c, ">")
  <2>1. Sh!Has(c, "|") => c["|"] + 1 \in 1..Len(line) /\ line[c["|"]+1] = "|"
    BY <1>2, <1>3
  <2> QED  BY <1>4, <2>1
<1>6. Sh!Has(c, "&") => Len(line) >= 1
  BY <1>2, <1>3
<1>7. End(line) = IF Sh!Has(c, "<") THEN c["<"]
                  ELSE IF Sh!Has(c, ">") THEN c[">"]
                  ELSE IF Sh!Has(c, "&") THEN Len(line) - 1 ELSE Len(line)
  BY DEF End, c
<1>8. End(line) \in 0..Len(line)
  BY <1>2, <1>3, <1>6, <1>7
<1>9. End(line) \in Sh!Slots
  BY <1>3, <1>8 DEF Sh!Slots
<1>10. ASSUME Sh!Has(c, "|")
       PROVE  c["|"] < End(line)
  <2>1. c["|"] \in 0..(Len(line)-1) /\ line[c["|"]+1] = "|"
    BY <1>2, <1>10
  <2>2. CASE Sh!Has(c, "&")
    <3>1. c["&"] + 1 \in 1..Len(line) /\ line[c["&"]+1] = "&"
      BY <1>2, <1>3, <2>2
    <3>2. line[Len(line)] # "|"
      BY <3>1, Bars
    <3>3. c["|"] # Len(line) - 1
      BY <2>1, <3>2, <1>3
    <3>4. End(line) = Len(line) - 1
      BY <1>5, <1>7, <1>10, <2>2
    <3> QED  BY <2>1, <3>3, <3>4, <1>3
  <2>3. CASE ~Sh!Has(c, "&")
    BY <1>3, <1>5, <1>7, <1>10, <2>1, <2>3
  <2> QED  BY <2>2, <2>3
<1> QED  BY <1>4, <1>5, <1>6, <1>8, <1>9, <1>10 DEF c

\* The arguments up to the NULL are the words that are there.
LEMMA ArgvIs ==
  ASSUME NEW line \in Lines, NEW h \in 0..Len(line), NEW k \in 0..h, NEW a,
         \A e \in k..(h-1) : a[e] = line[e+1], a[h] = NULL
  PROVE  Sh!ArgvFrom(a, k) = SubSeq(line, k+1, h)
<1>1. Len(line) \in Nat /\ Len(line) < MAX_LINE /\ MAX_LINE \in Nat
  BY LineIs
<1> DEFINE T == {e \in k..(MAX_LINE - 1) : a[e] = NULL}
<1>2. h \in T
  BY <1>1
<1>3. ASSUME NEW e \in T  PROVE h <= e
  <2>1. SUFFICES ASSUME e < h  PROVE FALSE
    BY <1>1
  <2>2. e \in k..(h-1) /\ a[e] = line[e+1] /\ a[e] = NULL /\ e + 1 \in 1..Len(line)
    BY <1>1, <2>1
  <2> QED  BY <2>2, LineIs
<1>4. T \subseteq Nat
  BY <1>1
<1>5. Sh!Min(T) = h
  BY <1>2, <1>3, <1>4, LeastIs
<1> DEFINE f == [e \in 1..h |-> a[e-1]]
           V == {line[i] : i \in 1..Len(line)}
<1>6. Sh!ArgvFrom(a, k) = SubSeq(f, k+1, h)
  BY <1>5 DEF Sh!ArgvFrom
<1>7. \A i \in k+1..h : f[i] = line[i] /\ line[i] \in V /\ i \in 1..Len(line)
  <2> SUFFICES ASSUME NEW i \in k+1..h
               PROVE  f[i] = line[i] /\ line[i] \in V /\ i \in 1..Len(line)
    OBVIOUS
  <2>1. i \in 1..h /\ i - 1 \in k..(h-1) /\ (i-1) + 1 = i /\ i \in 1..Len(line)
    BY <1>1
  <2>2. f[i] = a[i-1] /\ a[i-1] = line[(i-1)+1]
    BY <2>1
  <2> QED  BY <2>1, <2>2
<1> HIDE DEF f, V, T
<1>8. /\ SubSeq(f, k+1, h) \in Seq(V)
      /\ Len(SubSeq(f, k+1, h)) = IF k+1 <= h THEN h-(k+1)+1 ELSE 0
      /\ \A i \in 1..h-(k+1)+1 : SubSeq(f, k+1, h)[i] = f[(k+1)+i-1]
  BY <1>1, <1>7, SubSeqProperties
<1>9. /\ SubSeq(line, k+1, h) \in Seq(V)
      /\ Len(SubSeq(line, k+1, h)) = IF k+1 <= h THEN h-(k+1)+1 ELSE 0
      /\ \A i \in 1..h-(k+1)+1 : SubSeq(line, k+1, h)[i] = line[(k+1)+i-1]
  BY <1>1, <1>7, SubSeqProperties
<1>10. /\ Len(SubSeq(f, k+1, h)) = h-k /\ Len(SubSeq(line, k+1, h)) = h-k
       /\ h-(k+1)+1 = h-k
  BY <1>1, <1>8, <1>9
<1>11. ASSUME NEW i \in 1..(h-k)
       PROVE  SubSeq(f, k+1, h)[i] = SubSeq(line, k+1, h)[i]
  <2>1. (k+1)+i-1 \in k+1..h
    BY <1>1
  <2> QED  BY <1>7, <1>8, <1>9, <1>10, <2>1
<1>12. SubSeq(f, k+1, h) = SubSeq(line, k+1, h)
  BY <1>8, <1>9, <1>10, <1>11, SeqEqual
<1> QED  BY <1>6, <1>12

-----------------------------------------------------------------------------
(* The shell. *)

\* The bounds are numbers.
LEMMA Bounds ==
  /\ MAX_LINE \in Nat /\ MaxFd \in Nat /\ MaxFd >= 2 /\ MaxProcs \in Nat /\ PIPE_SIZE \in Nat
  BY OshAssumption DEF Sh!Parameters

\* An empty slot of args is not NULL.
LEMMA NullIs == NULL # ""
  BY OshAssumption DEF Sh!Parameters

\* concurrent_flag is set exactly for the lines with an "&".
LEMMA BackgroundIs ==
  ASSUME NEW line \in Lines
  PROVE  InBackground(line) <=> Sh!Has(Sh!Parsed(line), "&")
<1>1. "&" \in Sh!Symbols
  BY DEF Sh!Symbols
<1>2. Sh!Has(Sh!Parsed(line), "&") <=> \E k \in 1..Len(line) : line[k] = "&"
  BY <1>1, ParsedIs
<1> QED  BY <1>2, LineIs DEF InBackground

\* The words of a line in a buffer without a NULL.
LEMMA StoredInIs ==
  ASSUME NEW line \in Lines, NEW buffer, \A k \in Sh!Slots : buffer[k] # NULL
  PROVE  /\ Buffered(Sh!StoredIn(buffer, line), line, -1)
         /\ \A k \in Sh!Slots : Sh!StoredIn(buffer, line)[k] # NULL
<1>1. Len(line) \in Nat /\ MAX_LINE \in Nat /\ \A k \in 1..Len(line) : line[k] # NULL
  BY LineIs
<1>2. \A k \in Sh!Slots : k \in Nat /\ k # -1 /\ (k < Len(line) => k + 1 \in 1..Len(line))
  BY <1>1 DEF Sh!Slots
<1>3. Sh!StoredIn(buffer, line) =
        [k \in Sh!Slots |-> IF k < Len(line) THEN line[k+1] ELSE buffer[k]]
  BY DEF Sh!StoredIn
<1>4. Sh!StoredIn(buffer, line) = [k \in Sh!Slots |-> Sh!StoredIn(buffer, line)[k]]
  BY <1>3
<1>5. \A k \in Sh!Slots :
        Sh!StoredIn(buffer, line)[k] = IF k < Len(line) THEN line[k+1] ELSE buffer[k]
  BY <1>3
<1>6. \A k \in Sh!Slots : Sh!StoredIn(buffer, line)[k] # NULL
  BY <1>1, <1>2, <1>5
<1> QED  BY <1>2, <1>4, <1>5, <1>6 DEF Buffered

\* The buffer is args.
LEMMA StoredIs ==
  ASSUME NEW line \in Lines, \A k \in Sh!Slots : args[k] # NULL
  PROVE  /\ Buffered(Sh!Stored(line), line, -1)
         /\ \A k \in Sh!Slots : Sh!Stored(line)[k] # NULL
  BY StoredInIs DEF Sh!Stored

\* Typing a line, also "!!", puts the words of a line into args.
LEMMA TypeKeepsShell ==
  ASSUME TypedInv, ArgsInv, FilesInv, Type
  PROVE  TypedInv' /\ ArgsInv' /\ FilesInv'
<1>1. PICK line \in Sessions[entry].lines : Sh!TakeLine(line)
  BY DEF Type
<1>2. line \in Lines
  BY DEF TypedInv, Lines
<1>3. /\ pc = "prompt" /\ UNCHANGED <<tmp_ptr, fd, files, inputs, entry>>
      /\ \A k \in Sh!Slots : args[k] # NULL
  BY <1>1 DEF Sh!TakeLine, Sh!Nothing, Sh!Exit, Sh!NoHistory, Sh!Repeat, Sh!Command,
     Sh!Typing, ArgsInv, Type, entryVars
<1>4. FilesInv /\ pc' \in {"prompt", "open", "ended"} => FilesInv'
  BY <1>3 DEF FilesInv
<1>5. Sh!Stored(line) = [k \in Sh!Slots |-> Sh!Stored(line)[k]]
  BY <1>2, <1>3, StoredIs DEF Buffered
<1>6. CASE Sh!Nothing(line)
  BY <1>3, <1>4, <1>6 DEF Sh!Nothing, TypedInv, ArgsInv
<1>7. CASE Sh!Exit(line)
  BY <1>3, <1>4, <1>5, <1>7 DEF Sh!Exit, TypedInv, ArgsInv
<1>8. CASE Sh!NoHistory(line)
  <2>1. Buffered(args', line, -1)
    BY <1>2, <1>3, <1>8, StoredIs DEF Sh!NoHistory
  <2>2. \A k \in Sh!Slots : args'[k] # NULL
    <3>0. MAX_LINE \in Nat
      BY Bounds
    <3>1. \A k \in Sh!Slots : k # -1
      BY <3>0 DEF Sh!Slots
    <3> QED  BY <2>1, <3>1 DEF Buffered
  <2>3. args' = [k \in Sh!Slots |-> args'[k]]
    BY <2>1 DEF Buffered
  <2>4. UNCHANGED <<pc, prompt_cnt, cmd, his, typed>>
    BY <1>8 DEF Sh!NoHistory
  <2> QED  BY <1>3, <1>4, <2>2, <2>3, <2>4 DEF TypedInv, ArgsInv
<1>9. CASE Sh!Repeat(line)
  <2>1. /\ his.words = typed /\ typed # <<>> /\ typed \in Lines /\ his.cmd = Sh!Parsed(typed)
        /\ args' = Sh!StoredIn(Sh!Stored(line), typed) /\ prompt_cnt' = Len(typed)
        /\ cmd' = Sh!Parsed(typed)
        /\ pc' = "open" /\ UNCHANGED <<his, typed>>
    BY <1>9 DEF Sh!Repeat, Sh!Recall, TypedInv
  <2>2. Buffered(args', typed, -1)
    BY <1>2, <1>3, <2>1, StoredIs, StoredInIs
  <2>3. args' = [k \in Sh!Slots |-> args'[k]]
    BY <2>2 DEF Buffered
  <2> QED  BY <1>3, <1>4, <2>1, <2>2, <2>3 DEF TypedInv, ArgsInv
<1>10. CASE Sh!Command(line)
  <2>1. /\ his' = [words |-> line, cmd |-> Sh!Parsed(line)] /\ typed' = line /\ line # <<>>
        /\ args' = Sh!Stored(line) /\ prompt_cnt' = Len(line) /\ cmd' = Sh!Parsed(line)
        /\ pc' = "open"
    BY <1>2, <1>10, Bounds DEF Sh!Command, Sh!Typing
  <2>2. Buffered(args', line, -1)
    BY <1>2, <1>3, <2>1, StoredIs
  <2>3. args' = [k \in Sh!Slots |-> args'[k]]
    BY <2>2 DEF Buffered
  <2>4. his'.words = line /\ his'.cmd = Sh!Parsed(line)
    BY <2>1
  <2> QED  BY <1>2, <1>3, <1>4, <2>1, <2>2, <2>3, <2>4 DEF TypedInv, ArgsInv
<1> QED  BY <1>1, <1>6, <1>7, <1>8, <1>9, <1>10 DEF Sh!TakeLine

\* Descriptors.
LEMMA FreeIs ==
  ASSUME NEW D, D \subseteq 3..MaxFd
  PROVE  /\ IsFiniteSet(D) /\ Cardinality(D) \in 0..(MaxFd-2)
         /\ (3..MaxFd) \ D = {} <=> Cardinality(D) = MaxFd - 2
<1> DEFINE I == 3..MaxFd
<1>1. MaxFd \in Nat /\ MaxFd >= 2
  BY Bounds
<1>2. IsFiniteSet(I) /\ Cardinality(I) = MaxFd - 2
  <2>1. IsFiniteSet(3..MaxFd) /\ Cardinality(3..MaxFd) = IF 3 > MaxFd THEN 0 ELSE MaxFd-3+1
    BY <1>1, FS_Interval
  <2> QED  BY <1>1, <2>1
<1> HIDE DEF I
<1>3. IsFiniteSet(D) /\ Cardinality(D) <= Cardinality(I) /\ Cardinality(D) \in Nat
      /\ (Cardinality(D) = Cardinality(I) => D = I)
  BY <1>2, FS_Subset, FS_CardinalityType DEF I
<1>4. I \ D = {} <=> D = I
  BY DEF I
<1> QED  BY <1>1, <1>2, <1>3, <1>4 DEF I

\* open() takes a new descriptor and leaves the others as they are.
LEMMA OpenedIs ==
  ASSUME NEW open, DOMAIN open \subseteq 3..MaxFd, Sh!Free(open) # {}, NEW f
  PROVE  LET d == Sh!Min(Sh!Free(open))
         IN /\ d \in 3..MaxFd /\ d \notin DOMAIN open
            /\ DOMAIN Sh!Opened(open, f) = DOMAIN open \cup {d}
            /\ Sh!Opened(open, f)[d] = f
            /\ \A e \in DOMAIN open : Sh!Opened(open, f)[e] = open[e]
            /\ Cardinality(DOMAIN Sh!Opened(open, f)) = Cardinality(DOMAIN open) + 1
            /\ DOMAIN Sh!Opened(open, f) \subseteq 3..MaxFd
<1> DEFINE d == Sh!Min(Sh!Free(open))
<1>1. Sh!Free(open) \subseteq Nat /\ Sh!Free(open) = (3..MaxFd) \ DOMAIN open
  <2>1. MaxFd \in Nat
    BY Bounds
  <2> QED  BY <2>1 DEF Sh!Free
<1>2. d \in (3..MaxFd) \ DOMAIN open
  BY <1>1, MinIs
<1>3. Sh!Opened(open, f) = [z \in DOMAIN open \cup {d} |-> IF z = d THEN f ELSE open[z]]
  BY DEF Sh!Opened, Sh!With
<1> HIDE DEF d
<1>4. Cardinality(DOMAIN open \cup {d}) = Cardinality(DOMAIN open) + 1
  BY <1>2, FreeIs, FS_AddElement
<1> QED  BY <1>2, <1>3, <1>4 DEF d

\* What fd refers to is right also when more descriptors have leaked.
LEMMA FileStays ==
  ASSUME NEW n, NEW m, n = MaxFd - 2 => m = MaxFd - 2, NEW f, NEW line, FileRight(n, f, line)
  PROVE  FileRight(m, f, line)
  BY DEF FileRight

\* What is open once the output is closed again.
StaysOpen == IF Sh!Has(cmd, ">") THEN DOMAIN files \ {fd} ELSE DOMAIN files

\* close() leaves the others open.
LEMMA StaysOpenIs == DOMAIN Sh!CloseOutput = StaysOpen
  BY DEF Sh!CloseOutput, StaysOpen

\* The symbols, one by one.
LEMMA SymbolsAre == {">", "<", "|", "&"} = Sh!Symbols
  BY DEF Sh!Symbols

\* When the line's files are opened the words are in the buffer.
LEMMA AtOpen ==
  ASSUME TypedInv, ArgsInv, pc = "open"
  PROVE  /\ typed \in Lines /\ typed # <<>> /\ cmd = Sh!Parsed(typed)
         /\ prompt_cnt = Len(typed) /\ Buffered(args, typed, -1)
         /\ Sh!ArgumentsEnd = End(typed)
         /\ \A s \in {"<", ">"} : Sh!Has(cmd, s) => args[cmd[s]+1] = typed[cmd[s]+2]
<1>1. /\ typed \in Lines /\ typed # <<>> /\ cmd = Sh!Parsed(typed)
      /\ prompt_cnt = Len(typed) /\ Buffered(args, typed, -1)
  BY DEF TypedInv, ArgsInv
<1>2. Sh!ArgumentsEnd = End(typed)
  BY <1>1 DEF Sh!ArgumentsEnd, End
<1>3. Len(typed) \in Nat /\ Len(typed) < MAX_LINE /\ MAX_LINE \in Nat
  BY <1>1, LineIs
<1>4. ASSUME NEW s \in {"<", ">"}, Sh!Has(cmd, s)
      PROVE  args[cmd[s]+1] = typed[cmd[s]+2]
  <2>1. s \in Sh!Symbols
    BY SymbolsAre
  <2>2. cmd[s] + 1 < Len(typed)
    BY <1>1, <1>4, EndIs
  <2>3. cmd[s] \in 0..(Len(typed)-1)
    BY <1>1, <1>4, <2>1, ParsedIs
  <2>4. cmd[s] + 1 \in Sh!Slots /\ cmd[s] + 1 # -1 /\ (cmd[s] + 1) + 1 = cmd[s] + 2
    BY <1>3, <2>2, <2>3 DEF Sh!Slots
  <2>5. args[cmd[s]+1] = typed[(cmd[s]+1)+1]
    BY <1>1, <2>2, <2>4 DEF Buffered
  <2> QED  BY <2>4, <2>5
<1> QED  BY <1>1, <1>2, <1>4

\* Opening the files of a line also puts the NULL into args.
LEMMA OpenKeepsArgs ==
  ASSUME TypedInv, ArgsInv, Sh!Open
  PROVE  ArgsInv'
<1>1. /\ pc = "open" /\ pc' = "fork" /\ UNCHANGED <<cmd, typed>>
      /\ prompt_cnt' = End(typed) /\ tmp_ptr' = args[End(typed)]
      /\ args' = [args EXCEPT ![End(typed)] = NULL]
  BY AtOpen DEF Sh!Open
<1>2. /\ typed \in Lines /\ typed # <<>> /\ cmd = Sh!Parsed(typed) /\ Buffered(args, typed, -1)
  BY <1>1, AtOpen
<1>3. End(typed) \in 0..Len(typed) /\ End(typed) \in Sh!Slots
  BY <1>2, EndIs
<1>4. \A k \in Sh!Slots : k # -1
  <2>1. MAX_LINE \in Nat
    BY Bounds
  <2> QED  BY <2>1 DEF Sh!Slots
<1> DEFINE h == End(typed)
<1> HIDE DEF h
<1>5. args' = [args EXCEPT ![h] = NULL] /\ h \in Sh!Slots /\ tmp_ptr' = args[h] /\ prompt_cnt' = h
  BY <1>1, <1>3 DEF h
<1>6. /\ args = [k \in Sh!Slots |-> args[k]]
      /\ \A k \in Sh!Slots : args[k] # NULL
      /\ \A k \in Sh!Slots : k < Len(typed) => args[k] = typed[k+1]
  BY <1>2, <1>4 DEF Buffered
<1>7. args' = [k \in Sh!Slots |-> IF k = h THEN NULL ELSE args[k]]
  BY <1>5, <1>6
<1>8. Buffered(args', typed, h)
  BY <1>6, <1>7 DEF Buffered
<1>9. tmp_ptr' # NULL /\ (h < Len(typed) => tmp_ptr' = typed[h+1])
  BY <1>5, <1>6
<1>10. Ready(args', prompt_cnt', tmp_ptr', cmd', typed')
  BY <1>1, <1>2, <1>5, <1>8, <1>9 DEF Ready, h
<1>11. args' = [k \in Sh!Slots |-> args'[k]]
  BY <1>8 DEF Buffered
<1> QED  BY <1>1, <1>2, <1>10, <1>11 DEF ArgsInv

\* The file of an output redirection is opened first, and fd is the last one.
LEMMA OpenKeepsFiles ==
  ASSUME TypedInv, ArgsInv, FilesInv, Sh!Open
  PROVE  FilesInv'
<1> DEFINE gt == Sh!Has(cmd, ">")
           lt == Sh!Has(cmd, "<")
           out == IF gt THEN Sh!Opened(files, Sh!OutFile) ELSE files
           found == lt /\ Sh!InFile \notin CannotRead /\ Sh!Free(out) # {}
           d1 == Sh!Min(Sh!Free(files))
           d2 == Sh!Min(Sh!Free(out))
<1>1. /\ pc = "open" /\ pc' = "fork" /\ UNCHANGED <<cmd, typed>>
      /\ gt => Sh!Free(files) # {}
      /\ files' = IF found THEN Sh!Opened(out, Sh!InFile) ELSE out
      /\ inputs' = IF lt /\ files' # files THEN inputs + 1 ELSE inputs
      /\ fd' = IF found THEN d2 ELSE IF lt THEN -1 ELSE IF gt THEN d1 ELSE fd
  BY DEF Sh!Open, Sh!OpenFails
<1>2. /\ typed \in Lines /\ cmd = Sh!Parsed(typed)
      /\ gt => Sh!OutFile = typed[cmd[">"]+2]
      /\ lt => Sh!InFile = typed[cmd["<"]+2]
  BY <1>1, AtOpen DEF Sh!OutFile, Sh!InFile
<1>3. /\ DOMAIN files \subseteq 3..MaxFd /\ Cardinality(DOMAIN files) = inputs
      /\ inputs \in 0..(MaxFd-2) /\ MaxFd \in Nat
  BY <1>1, Bounds DEF FilesInv
<1>4. gt => /\ d1 \in 3..MaxFd /\ d1 \notin DOMAIN files /\ DOMAIN out = DOMAIN files \cup {d1}
            /\ out[d1] = Sh!OutFile
            /\ Cardinality(DOMAIN out) = inputs + 1 /\ DOMAIN out \subseteq 3..MaxFd
  BY <1>1, <1>3, OpenedIs
<1>5. ~gt => out = files
  OBVIOUS
<1>6. found => /\ d2 \in 3..MaxFd /\ d2 \notin DOMAIN out /\ DOMAIN files' = DOMAIN out \cup {d2}
               /\ files'[d2] = Sh!InFile /\ fd' = d2
               /\ Cardinality(DOMAIN files') = Cardinality(DOMAIN out) + 1
               /\ DOMAIN files' \subseteq 3..MaxFd
  BY <1>1, <1>3, <1>4, <1>5, OpenedIs
<1>7. ~found => files' = out /\ (lt => fd' = -1) /\ ((gt /\ ~lt) => fd' = d1)
  BY <1>1
<1>8. found => lt /\ Sh!InFile \notin CannotRead
  OBVIOUS
<1>9. (lt /\ ~found) => Sh!InFile \in CannotRead \/ Sh!Free(out) = {}
  OBVIOUS
<1> HIDE DEF out, found, d1, d2
<1>10. StaysOpen' = IF gt THEN DOMAIN files' \ {fd'} ELSE DOMAIN files'
  BY <1>1 DEF StaysOpen
<1> HIDE DEF gt, lt
<1>11. DOMAIN files' \subseteq 3..MaxFd
  BY <1>3, <1>4, <1>5, <1>6, <1>7
<1>12. -1 \notin DOMAIN files'
  BY <1>3, <1>11
<1>13. ASSUME found
       PROVE  Cardinality(StaysOpen') = inputs' /\ FileRight(inputs, Sh!File(files, fd), typed)'
  <2>1. files' # files /\ inputs' = inputs + 1
    BY <1>1, <1>4, <1>5, <1>6, <1>8, <1>13
  <2>2. gt => StaysOpen' = DOMAIN out
    BY <1>6, <1>10, <1>13
  <2>3. ~gt => StaysOpen' = DOMAIN files' /\ out = files
    BY <1>5, <1>10
  <2>4. Cardinality(StaysOpen') = inputs'
    BY <1>3, <1>4, <1>6, <1>13, <2>1, <2>2, <2>3
  <2>5. Sh!File(files, fd)' = Sh!InFile
    BY <1>6, <1>13 DEF Sh!File
  <2>6. FileRight(inputs, Sh!File(files, fd), typed)'
    BY <1>1, <1>2, <1>8, <1>13, <2>5 DEF FileRight, lt, gt
  <2> QED  BY <2>4, <2>6
<1>14. ASSUME ~found, lt
       PROVE  Cardinality(StaysOpen') = inputs' /\ FileRight(inputs, Sh!File(files, fd), typed)'
  <2>1. files' = out /\ fd' = -1
    BY <1>7, <1>14
  <2>2. StaysOpen' = DOMAIN out
    BY <1>10, <1>12, <2>1
  <2>3. Cardinality(StaysOpen') = inputs'
    <3>1. CASE gt
      <4>1. files' # files
        BY <1>4, <2>1, <3>1
      <4> QED  BY <1>1, <1>3, <1>4, <1>14, <2>2, <3>1, <4>1
    <3>2. CASE ~gt
      BY <1>1, <1>3, <1>5, <1>14, <2>1, <2>2, <3>2
    <3> QED  BY <3>1, <3>2
  <2>4. Sh!File(files, fd)' = "terminal"
    BY <1>12, <2>1 DEF Sh!File
  <2>5. ASSUME ~gt, Sh!InFile \notin CannotRead
        PROVE  inputs' = MaxFd - 2
    <3>1. files' = files /\ inputs' = inputs /\ Sh!Free(files) = {}
      BY <1>1, <1>5, <1>9, <1>14, <2>1, <2>5
    <3>2. (3..MaxFd) \ DOMAIN files = {}
      BY <3>1 DEF Sh!Free
    <3>3. Cardinality(DOMAIN files) = MaxFd - 2
      BY <1>3, <3>2, FreeIs
    <3> QED  BY <1>3, <3>1, <3>3
  <2>6. FileRight(inputs, Sh!File(files, fd), typed)'
    BY <1>1, <1>2, <1>14, <2>4, <2>5 DEF FileRight, lt, gt
  <2> QED  BY <2>3, <2>6
<1>15. ASSUME ~lt, gt
       PROVE  Cardinality(StaysOpen') = inputs' /\ FileRight(inputs, Sh!File(files, fd), typed)'
  <2>1. ~found /\ files' = out /\ fd' = d1
    BY <1>7, <1>8, <1>15
  <2>2. StaysOpen' = DOMAIN files
    BY <1>4, <1>10, <1>15, <2>1
  <2>3. Cardinality(StaysOpen') = inputs'
    BY <1>1, <1>3, <1>15, <2>2
  <2>4. Sh!File(files, fd)' = Sh!OutFile
    BY <1>4, <1>15, <2>1 DEF Sh!File
  <2>5. FileRight(inputs, Sh!File(files, fd), typed)'
    BY <1>1, <1>2, <1>15, <2>4 DEF FileRight, lt, gt
  <2> QED  BY <2>3, <2>5
<1>16. ASSUME ~lt, ~gt
       PROVE  Cardinality(StaysOpen') = inputs' /\ FileRight(inputs, Sh!File(files, fd), typed)'
  <2>1. ~found /\ files' = files /\ inputs' = inputs
    BY <1>1, <1>5, <1>7, <1>8, <1>16
  <2>2. Cardinality(StaysOpen') = inputs'
    BY <1>3, <1>10, <1>16, <2>1
  <2>3. FileRight(inputs, Sh!File(files, fd), typed)'
    BY <1>1, <1>2, <1>16 DEF FileRight, lt, gt
  <2> QED  BY <2>2, <2>3
<1>17. Cardinality(StaysOpen') = inputs' /\ FileRight(inputs, Sh!File(files, fd), typed)'
  BY <1>13, <1>14, <1>15, <1>16
<1>18. inputs' \in 0..(MaxFd-2)
  <2>1. StaysOpen' \subseteq 3..MaxFd
    BY <1>10, <1>11
  <2> QED  BY <1>17, <2>1, FreeIs
<1>19. DOMAIN Sh!CloseOutput' = StaysOpen'
  BY DEF Sh!CloseOutput, StaysOpen
<1> QED  BY <1>1, <1>11, <1>17, <1>18, <1>19 DEF FilesInv

\* The word is put back for the NULL, and the output closed.
LEMMA AwaitKeepsShell ==
  ASSUME TypedInv, ArgsInv, FilesInv, Sh!Await
  PROVE  ArgsInv' /\ FilesInv'
<1>1. /\ pc = "wait" /\ pc' = "prompt" /\ files' = Sh!CloseOutput /\ inputs' = inputs
      /\ args' = [args EXCEPT ![prompt_cnt] = tmp_ptr]
  BY DEF Sh!Await
<1>2. typed \in Lines /\ Ready(args, prompt_cnt, tmp_ptr, cmd, typed)
  BY <1>1 DEF TypedInv, ArgsInv
<1>3. prompt_cnt \in Sh!Slots /\ tmp_ptr # NULL /\ Buffered(args, typed, prompt_cnt)
  BY <1>2, EndIs DEF Ready
<1>4. /\ args = [k \in Sh!Slots |-> args[k]]
      /\ \A k \in Sh!Slots : k # prompt_cnt => args[k] # NULL
  BY <1>3 DEF Buffered
<1>5. args' = [k \in Sh!Slots |-> IF k = prompt_cnt THEN tmp_ptr ELSE args[k]]
  BY <1>1, <1>3, <1>4
<1>6. args' = [k \in Sh!Slots |-> args'[k]] /\ \A k \in Sh!Slots : args'[k] # NULL
  BY <1>3, <1>4, <1>5
<1>7. ArgsInv'
  BY <1>1, <1>6 DEF ArgsInv
<1>8. DOMAIN files \subseteq 3..MaxFd /\ Cardinality(StaysOpen) = inputs /\ inputs \in 0..(MaxFd-2)
  BY <1>1, StaysOpenIs DEF FilesInv
<1>9. DOMAIN files' = StaysOpen
  BY <1>1, StaysOpenIs
<1>10. StaysOpen \subseteq DOMAIN files
  BY DEF StaysOpen
<1>11. FilesInv'
  BY <1>1, <1>8, <1>9, <1>10 DEF FilesInv
<1> QED  BY <1>7, <1>11

\* While args and the files stay, so does what is said of them.
LEMMA LocalsKept ==
  ASSUME TypedInv, ArgsInv, FilesInv, UNCHANGED <<args, prompt_cnt, tmp_ptr, cmd, his, fd,
         files, typed, inputs, entry>>,
         pc' = pc \/ pc' = "ended" \/ (pc = "fork" /\ pc' = "wait")
  PROVE  TypedInv' /\ ArgsInv' /\ FilesInv'
<1>1. Sh!Slots' = Sh!Slots
  BY DEF Sh!Slots
<1>2. TypedInv'
  BY DEF TypedInv
<1>3. ArgsInv'
  BY DEF ArgsInv
<1>4. FileRight(inputs, Sh!File(files, fd), typed)' = FileRight(inputs, Sh!File(files, fd), typed)
  BY DEF FileRight, Sh!File
<1>5. Sh!CloseOutput' = Sh!CloseOutput
  BY DEF Sh!CloseOutput
<1>6. FilesInv'
  BY <1>4, <1>5 DEF FilesInv
<1> QED  BY <1>2, <1>3, <1>6

\* Every step of the shell keeps its locals right.
LEMMA ShellKeepsShell ==
  ASSUME TypedInv, ArgsInv, FilesInv, RunShell
  PROVE  TypedInv' /\ ArgsInv' /\ FilesInv'
<1>1. entry' = entry /\ UNCHANGED <<typed, his>>
  BY DEF RunShell, entryVars, Sh!ShellStep, Sh!OpenFailed, Sh!Open, Sh!Fork, Sh!ForkFailed,
     Sh!Await, Sh!locals
<1>2. TypedInv /\ pc' \in {"prompt", "open", "fork", "wait", "ended"} => TypedInv'
  BY <1>1 DEF TypedInv
<1>3. CASE Sh!OpenFailed
  <2>1. pc' = "ended" /\ UNCHANGED <<args, files, inputs>>
    BY <1>3 DEF Sh!OpenFailed
  <2> QED  BY <1>2, <2>1 DEF ArgsInv, FilesInv
<1>4. CASE Sh!Open
  BY <1>2, <1>4, OpenKeepsArgs, OpenKeepsFiles DEF Sh!Open
<1>5. CASE Sh!Fork
  BY <1>1, <1>5, LocalsKept DEF Sh!Fork
<1>6. CASE Sh!ForkFailed
  BY <1>1, <1>6, LocalsKept DEF Sh!ForkFailed, Sh!locals
<1>7. CASE Sh!Await
  BY <1>2, <1>7, AwaitKeepsShell DEF Sh!Await
<1> QED  BY <1>3, <1>4, <1>5, <1>6, <1>7 DEF RunShell, Sh!ShellStep

\* What the processes and the module do leaves the shell alone.
LEMMA OthersKeepShell ==
  ASSUME TypedInv, ArgsInv, FilesInv, Kernel \/ (\E q \in Pids : Process(q))
  PROVE  TypedInv' /\ ArgsInv' /\ FilesInv' /\ UNCHANGED <<pc, Sh!locals>>
<1>1. UNCHANGED <<pc, Sh!locals>>
  BY DEF Kernel, Process, Ordinary, ReadEntry, WriteEntry, Ends, Sh!Ends, Sh!ProcessStep,
     shellVars, Sh!locals
<1>2. entry' = entry
  BY DEF Kernel, Process, Ordinary, ReadEntry, WriteEntry, entryVars, Entry!Create,
     Entry!SetStart, Entry!Remove, Entry!Tick, Entry!OpenEntry, Entry!proc_read,
     Entry!Quietly, Entry!proc_write
<1> QED  BY <1>1, <1>2, LocalsKept DEF Sh!locals

\* They are right at the start.
LEMMA ShellInit == Init => TypedInv /\ ArgsInv /\ FilesInv
<1> SUFFICES ASSUME Init
             PROVE  TypedInv /\ ArgsInv /\ FilesInv
  OBVIOUS
<1>1. Sh!Init /\ entry \in DOMAIN Sessions
  BY DEF Init
<1>2. Sh!Parsed(<<>>) = Sh!NoSymbols
  <2>1. \A s \in Sh!Symbols : Sh!Places(<<>>, s) = {}
    BY DEF Sh!Places
  <2> QED  BY <2>1 DEF Sh!Parsed, Sh!NoSymbols
<1>3. TypedInv
  BY <1>1, <1>2 DEF TypedInv, Sh!Init
<1>4. ArgsInv
  BY <1>1, NullIs DEF ArgsInv, Sh!Init
<1>5. Cardinality({}) = 0 /\ 0 \in 0..(MaxFd-2)
  <2>1. 0 \in 0..(MaxFd-2)
    BY Bounds
  <2> QED  BY <2>1, FS_EmptySet
<1>6. DOMAIN files = {} /\ inputs = 0 /\ pc = "prompt"
  <2>1. files = <<>> /\ inputs = 0 /\ pc = "prompt"
    BY <1>1 DEF Sh!Init
  <2> QED  BY <2>1
<1>7. FilesInv
  BY <1>5, <1>6 DEF FilesInv
<1> QED  BY <1>3, <1>4, <1>7

-----------------------------------------------------------------------------
(* The tree of processes. *)

\* The shell itself, process 1, is none of the children.
LEMMA PidsAre == Sh!Pids = Pids /\ 1 \notin Pids /\ Pids \subseteq Nat
<1>1. MaxProcs \in Nat
  BY Bounds
<1> QED  BY <1>1 DEF Sh!Pids, Pids

\* The process that fork() makes.
NewPid == Sh!Min(Sh!FreePids)
\* It has a number that is not in use.
LEMMA NewPidIs ==
  ASSUME Sh!FreePids # {}
  PROVE  NewPid \in Pids /\ NewPid \notin DOMAIN procs
<1>1. Sh!FreePids = Pids \ DOMAIN procs
  BY PidsAre DEF Sh!FreePids
<1>2. Sh!FreePids \subseteq Nat
  BY <1>1, PidsAre
<1>3. NewPid \in Sh!FreePids
  BY <1>2, MinIs DEF NewPid
<1> QED  BY <1>1, <1>3

\* The fields of a new process,
LEMMA ChildIs ==
  ASSUME NEW at, NEW parent, NEW line, NEW mem
  PROVE  LET r == Sh!Child(at, parent, line, mem)
         IN /\ DOMAIN r = Fields /\ r.at = at /\ r.parent = parent /\ r.line = line
            /\ r.mem = mem /\ r.in = "terminal" /\ r.out = "terminal" /\ r.left = 0
            /\ r.got = 0 /\ r.holds = FALSE
  BY DEF Sh!Child, Fields

\* of one that has ended,
LEMMA ZombieIs ==
  ASSUME NEW q
  PROVE  LET r == Sh!Zombie(q)
         IN /\ DOMAIN r = Fields /\ r.at = "zombie" /\ r.parent = procs[q].parent
            /\ r.line = procs[q].line
  BY DEF Sh!Zombie, Sh!Child, Fields

\* and of one whose execvp() succeeded or failed.
LEMMA ExecuteIs ==
  ASSUME NEW q, DOMAIN procs[q] = Fields, NEW argv, NEW in, NEW out
  PROVE  LET r == Sh!Execute(q, argv, in, out)
         IN /\ DOMAIN r = Fields /\ r.parent = procs[q].parent /\ r.line = procs[q].line
            /\ r.at \in {"command", "zombie"}
            /\ r.at = "command" =>
                 /\ argv # <<>> /\ argv[1] \in DOMAIN Output
                 /\ r.argv = argv /\ r.in = in /\ r.out = out /\ r.left = Output[argv[1]]
                 /\ r.got = procs[q].got
            /\ r.at = "zombie" => ~(argv # <<>> /\ argv[1] \in DOMAIN Output)
<1>1. CASE argv # <<>> /\ argv[1] \in Sh!Programs
  <2> DEFINE p == procs[q]
  <2>1. Sh!Execute(q, argv, in, out) =
          [p EXCEPT !.at = "command", !.mem = <<>>, !.argv = argv,
                    !.in = in, !.out = out, !.left = Output[argv[1]]]
    BY <1>1 DEF Sh!Execute
  <2>2. DOMAIN p = Fields
    OBVIOUS
  <2>3. argv[1] \in DOMAIN Output
    BY <1>1 DEF Sh!Programs
  <2> HIDE DEF p
  <2>4. /\ p.parent = Sh!Execute(q, argv, in, out).parent
        /\ p.line = Sh!Execute(q, argv, in, out).line
        /\ p.got = Sh!Execute(q, argv, in, out).got
    BY <2>1, <2>2 DEF Fields
  <2> QED  BY <1>1, <2>1, <2>2, <2>3, <2>4 DEF Fields, p
<1>2. CASE ~(argv # <<>> /\ argv[1] \in Sh!Programs)
  <2>1. Sh!Execute(q, argv, in, out) = Sh!Zombie(q)
    BY <1>2 DEF Sh!Execute
  <2> QED  BY <1>2, <2>1, ZombieIs DEF Sh!Programs
<1> QED  BY <1>1, <1>2

\* A process that runs its program or has ended, in the place of one that does
\* not wait for a child.
LEMMA TreeMoves ==
  ASSUME TreeInv, ForegroundInv, UNCHANGED <<pc, typed, child>>,
         NEW q \in DOMAIN procs, NEW r, procs' = [procs EXCEPT ![q] = r],
         procs[q].at # "second",
         DOMAIN r = Fields, r.parent = procs[q].parent, r.line = procs[q].line,
         r.at \in {"command", "zombie"}
  PROVE  TreeInv' /\ ForegroundInv'
<1>1. /\ DOMAIN procs' = DOMAIN procs /\ procs'[q] = r
      /\ \A c \in DOMAIN procs : c # q => procs'[c] = procs[c]
  OBVIOUS
<1>2. \A c \in DOMAIN procs : procs'[c].parent = procs[c].parent /\ procs'[c].line = procs[c].line
  BY <1>1
<1>3. TreeInv'
  <2>1. ASSUME NEW c \in DOMAIN procs
        PROVE  /\ DOMAIN procs'[c] = Fields
               /\ procs'[c].line \in Lines \ {<<>>}
               /\ \/ /\ procs'[c].parent = 1
                     /\ procs'[c].at \in {"child", "second", "command", "zombie"}
                  \/ /\ procs'[c].at \in {"first", "command", "zombie"}
                     /\ procs'[c].parent \in DOMAIN procs
                     /\ procs'[procs'[c].parent].at = "second"
                     /\ procs'[procs'[c].parent].line = procs'[c].line
                     /\ procs'[procs'[c].parent].parent = 1
    <3>1. /\ DOMAIN procs[c] = Fields
          /\ procs[c].line \in Lines \ {<<>>}
          /\ \/ procs[c].parent = 1 /\ procs[c].at \in {"child", "second", "command", "zombie"}
             \/ /\ procs[c].at \in {"first", "command", "zombie"}
                /\ procs[c].parent \in DOMAIN procs
                /\ procs[procs[c].parent].at = "second"
                /\ procs[procs[c].parent].line = procs[c].line
                /\ procs[procs[c].parent].parent = 1
      BY DEF TreeInv
    <3>2. procs'[c].at = procs[c].at \/ procs'[c].at \in {"command", "zombie"}
      BY <1>1
    <3>3. DOMAIN procs'[c] = Fields
      BY <1>1, <3>1
    <3>4. procs[c].parent \in DOMAIN procs /\ procs[procs[c].parent].at = "second" =>
            procs'[procs[c].parent] = procs[procs[c].parent]
      BY <1>1
    <3> QED  BY <1>2, <3>1, <3>2, <3>3, <3>4
  <2>2. \A c, d \in DOMAIN procs :
          procs'[c].parent = procs'[d].parent /\ procs'[c].parent # 1 => c = d
    BY <1>2 DEF TreeInv
  <2>3. DOMAIN procs \subseteq Pids
    BY DEF TreeInv
  <2> QED  BY <1>1, <2>1, <2>2, <2>3 DEF TreeInv
<1>4. ForegroundInv'
  BY <1>1, <1>2 DEF ForegroundInv
<1> QED  BY <1>3, <1>4

\* While no process moves and the shell does not wait, the tree stays.
LEMMA TreeKept ==
  ASSUME TreeInv, ForegroundInv, procs' = procs,
         UNCHANGED <<pc, typed, child>> \/ (pc # "wait" /\ pc' # "wait")
  PROVE  TreeInv' /\ ForegroundInv'
<1>1. TreeInv'
  BY DEF TreeInv
<1>2. ForegroundInv'
  BY DEF ForegroundInv
<1> QED  BY <1>1, <1>2

\* fork() adds one process, a child of the shell.
LEMMA ForkIs ==
  ASSUME Sh!Fork
  PROVE  /\ pc = "fork" /\ pc' = "wait" /\ child' = NewPid /\ UNCHANGED <<typed, pipes, inputs>>
         /\ NewPid \in Pids /\ NewPid \notin DOMAIN procs
         /\ DOMAIN procs' = DOMAIN procs \cup {NewPid}
         /\ procs'[NewPid] = Sh!Child("child", 1, typed, Sh!Copy)
         /\ \A q \in DOMAIN procs : procs'[q] = procs[q]
<1>1. NewPid \in Pids /\ NewPid \notin DOMAIN procs
  BY NewPidIs DEF Sh!Fork
<1>2. child' = NewPid /\ procs' = Sh!With(procs, child', Sh!Child("child", 1, typed, Sh!Copy))
  BY DEF Sh!Fork, NewPid
<1>3. procs' = [z \in DOMAIN procs \cup {NewPid} |->
                  IF z = NewPid THEN Sh!Child("child", 1, typed, Sh!Copy) ELSE procs[z]]
  BY <1>2 DEF Sh!With
<1> QED  BY <1>1, <1>2, <1>3 DEF Sh!Fork

\* The shell then waits for the only process of a line without an "&".
LEMMA ForkKeepsTree ==
  ASSUME TypedInv, ArgsInv, TreeInv, ForegroundInv, Sh!Fork
  PROVE  TreeInv' /\ ForegroundInv'
<1> DEFINE n == NewPid
           r == Sh!Child("child", 1, typed, Sh!Copy)
<1>1. /\ pc = "fork" /\ pc' = "wait" /\ child' = n /\ typed' = typed
      /\ n \in Pids /\ n \notin DOMAIN procs
      /\ DOMAIN procs' = DOMAIN procs \cup {n}
      /\ procs'[n] = r /\ \A q \in DOMAIN procs : procs'[q] = procs[q]
  BY ForkIs
<1>2. DOMAIN r = Fields /\ r.at = "child" /\ r.parent = 1 /\ r.line = typed
  BY DEF Sh!Child, Fields
<1>3. typed \in Lines \ {<<>>}
  BY <1>1 DEF TypedInv, ArgsInv
<1> HIDE DEF n, r
<1>4. TreeInv'
  BY <1>1, <1>2, <1>3 DEF TreeInv
<1>5. \A q \in DOMAIN procs : InBackground(procs[q].line)
  BY <1>1 DEF ForegroundInv
<1>6. ForegroundInv'
  BY <1>1, <1>2, <1>5 DEF ForegroundInv
<1> QED  BY <1>4, <1>6

\* The children of a process, of which a zombie has none.
LEMMA ChildrenAre ==
  ASSUME TreeInv, NEW q \in DOMAIN procs, NEW c \in Sh!ChildrenOf(q)
  PROVE  /\ c \in DOMAIN procs /\ procs[c].parent = q /\ q # 1 /\ procs[q].at = "second"
         /\ Sh!ChildrenOf(q) = {c} /\ c # q
<1>1. c \in DOMAIN procs /\ procs[c].parent = q /\ q # 1
  BY PidsAre DEF Sh!ChildrenOf, TreeInv
<1>2. procs[q].at = "second" /\ procs[q].parent = 1
  BY <1>1 DEF TreeInv
<1>3. \A d \in Sh!ChildrenOf(q) : d = c
  BY <1>1 DEF Sh!ChildrenOf, TreeInv
<1> QED  BY <1>1, <1>2, <1>3

\* The process waited for is gone, and has no child that would stay behind.
LEMMA AwaitKeepsTree ==
  ASSUME TypedInv, ArgsInv, TreeInv, ForegroundInv, Sh!Await
  PROVE  TreeInv' /\ ForegroundInv'
<1>1. pc = "wait" /\ pc' = "prompt" /\ typed' = typed /\ child' = child
  BY DEF Sh!Await
<1>2. typed \in Lines /\ cmd = Sh!Parsed(typed)
  BY <1>1 DEF TypedInv, ArgsInv, Ready
<1>3. CASE Sh!Has(cmd, "&")
  <2>1. procs' = procs
    BY <1>3 DEF Sh!Await
  <2>2. InBackground(typed)
    BY <1>2, <1>3, BackgroundIs
  <2>3. \A q \in DOMAIN procs : InBackground(procs[q].line)
    BY <2>2 DEF ForegroundInv
  <2> QED  BY <1>1, <2>1, <2>3 DEF TreeInv, ForegroundInv
<1>4. CASE ~Sh!Has(cmd, "&")
  <2>1. procs[child].at = "zombie" /\ procs' = [q \in DOMAIN procs \ {child} |-> procs[q]]
    BY <1>4 DEF Sh!Await, Sh!Reap
  <2>2. ~InBackground(typed)
    BY <1>2, <1>4, BackgroundIs
  <2>3. child \in DOMAIN procs
    BY <1>1, <2>2 DEF ForegroundInv
  <2>4. \A q \in DOMAIN procs : procs[q].parent # child
    BY <2>1, <2>3, PidsAre DEF TreeInv
  <2>5. TreeInv'
    BY <2>1, <2>4 DEF TreeInv
  <2>6. \A q \in DOMAIN procs : q # child => InBackground(procs[q].line)
    BY <2>4 DEF ForegroundInv
  <2> QED  BY <1>1, <2>1, <2>5, <2>6 DEF ForegroundInv
<1> QED  BY <1>3, <1>4

\* What the two processes of a pipeline have in their memory.
Both(mem) ==
  LET words == [mem.args EXCEPT ![mem.prompt_cnt] = mem.tmp_ptr]
  IN [mem EXCEPT !.args = words, !.tmp_ptr = words[mem.cmd["|"]]]

\* The second fork adds one process, a child of the child.
LEMMA PipeIs ==
  ASSUME TreeInv, NEW q \in DOMAIN procs, Sh!MakePipe(q)
  PROVE  /\ procs[q].at = "child" /\ Sh!Has(procs[q].mem.cmd, "|") /\ pipes' = pipes
         /\ NewPid \in Pids /\ NewPid \notin DOMAIN procs
         /\ DOMAIN procs' = DOMAIN procs \cup {NewPid}
         /\ \A c \in DOMAIN procs : c # q => procs'[c] = procs[c]
         /\ DOMAIN procs'[NewPid] = Fields /\ procs'[NewPid].at = "first"
         /\ procs'[NewPid].parent = q /\ procs'[NewPid].line = procs[q].line
         /\ procs'[NewPid].mem = Both(procs[q].mem)
         /\ DOMAIN procs'[q] = Fields /\ procs'[q].at = "second"
         /\ procs'[q].parent = procs[q].parent /\ procs'[q].line = procs[q].line
         /\ procs'[q].mem = Both(procs[q].mem) /\ procs'[q].got = procs[q].got
<1> DEFINE p == procs[q]
           b == Both(procs[q].mem)
           first == [Sh!Child("first", q, p.line, b) EXCEPT !.holds = TRUE]
           second == [p EXCEPT !.at = "second", !.mem = b, !.holds = TRUE]
<1>1. NewPid \in Pids /\ NewPid \notin DOMAIN procs
  BY NewPidIs DEF Sh!MakePipe, Sh!NoPipe
<1>2. procs' = Sh!With([procs EXCEPT ![q] = second], NewPid, first)
  BY DEF Sh!MakePipe, Both, NewPid
<1>3. /\ DOMAIN first = Fields /\ first.at = "first" /\ first.parent = q /\ first.line = p.line
      /\ first.mem = b
  <2> HIDE DEF b, p
  <2> QED  BY DEF Sh!Child, Fields
<1>4. /\ DOMAIN second = Fields /\ second.at = "second" /\ second.parent = p.parent
      /\ second.line = p.line /\ second.mem = b /\ second.got = p.got
  <2>1. DOMAIN p = Fields
    BY DEF TreeInv
  <2> HIDE DEF b, p
  <2> QED  BY <2>1 DEF Fields
<1> HIDE DEF first, second
<1>5. procs' = [z \in DOMAIN procs \cup {NewPid} |->
                  IF z = NewPid THEN first ELSE [procs EXCEPT ![q] = second][z]]
  BY <1>2 DEF Sh!With
<1>6. procs'[NewPid] = first /\ procs'[q] = second /\ DOMAIN procs' = DOMAIN procs \cup {NewPid}
      /\ \A c \in DOMAIN procs : c # q => procs'[c] = procs[c]
  BY <1>1, <1>5
<1> QED  BY ZenonT(30), <1>1, <1>3, <1>4, <1>6 DEF Sh!MakePipe

\* The child, which becomes the second command, had no other child.
LEMMA PipeKeepsTree ==
  ASSUME TreeInv, ForegroundInv, UNCHANGED <<pc, typed, child>>,
         NEW q \in DOMAIN procs, Sh!MakePipe(q)
  PROVE  TreeInv' /\ ForegroundInv'
<1> DEFINE n == NewPid
<1>1. /\ procs[q].at = "child"
      /\ n \in Pids /\ n \notin DOMAIN procs /\ DOMAIN procs' = DOMAIN procs \cup {n}
      /\ \A c \in DOMAIN procs : c # q => procs'[c] = procs[c]
      /\ DOMAIN procs'[n] = Fields /\ procs'[n].at = "first"
      /\ procs'[n].parent = q /\ procs'[n].line = procs[q].line
      /\ DOMAIN procs'[q] = Fields /\ procs'[q].at = "second"
      /\ procs'[q].parent = procs[q].parent /\ procs'[q].line = procs[q].line
  BY PipeIs
<1> HIDE DEF n
<1>2. procs[q].parent = 1 /\ \A c \in DOMAIN procs : procs[c].parent # q
  BY <1>1, PidsAre DEF TreeInv
<1>3. \A c \in DOMAIN procs : procs'[c].parent = procs[c].parent /\ procs'[c].line = procs[c].line
  BY <1>1
<1>4. \A c \in DOMAIN procs :
       /\ DOMAIN procs'[c] = Fields
       /\ procs'[c].line \in Lines \ {<<>>}
       /\ \/ procs'[c].parent = 1 /\ procs'[c].at \in {"child", "second", "command", "zombie"}
          \/ /\ procs'[c].at \in {"first", "command", "zombie"}
             /\ procs'[c].parent \in DOMAIN procs
             /\ procs'[procs'[c].parent].at = "second"
             /\ procs'[procs'[c].parent].line = procs'[c].line
             /\ procs'[procs'[c].parent].parent = 1
  BY <1>1, <1>2, <1>3 DEF TreeInv
<1>5. 1 \notin DOMAIN procs
  BY PidsAre DEF TreeInv
<1>6. \A c, d \in DOMAIN procs' :
        procs'[c].parent = procs'[d].parent /\ procs'[c].parent # 1 => c = d
  BY <1>1, <1>2, <1>3 DEF TreeInv
<1>7. TreeInv'
  BY <1>1, <1>2, <1>4, <1>6 DEF TreeInv
<1>8. ForegroundInv'
  BY <1>1, <1>2, <1>3, <1>5 DEF ForegroundInv
<1> QED  BY <1>7, <1>8

\* The arguments of the second command, and its child.
SecondArgv(mem) ==
  Sh!ArgvFrom([mem.args EXCEPT ![mem.cmd["|"]] = mem.tmp_ptr, ![mem.prompt_cnt] = NULL],
              mem.cmd["|"] + 1)
\* The second command starts when its child, the first, has ended, and reaps it.
LEMMA SecondIs ==
  ASSUME TreeInv, NEW q \in DOMAIN procs, Sh!ExecSecond(q)
  PROVE  LET r == Sh!Execute(q, SecondArgv(procs[q].mem), "pipe", "terminal")
         IN /\ procs[q].at = "second"
            /\ pipes' = IF procs'[q].at = "zombie" THEN [pipes EXCEPT ![q] = 0] ELSE pipes
            /\ DOMAIN procs' = DOMAIN procs \ Sh!ChildrenOf(q)
            /\ \E c \in Sh!ChildrenOf(q) : procs[c].at = "zombie" /\ Sh!ChildrenOf(q) = {c}
            /\ q \notin Sh!ChildrenOf(q)
            /\ procs'[q] = Sh!CloseWriteEnd(r)
            /\ \A c \in DOMAIN procs' : c # q => procs'[c] = procs[c]
<1> DEFINE r == Sh!CloseWriteEnd(Sh!Execute(q, SecondArgv(procs[q].mem), "pipe", "terminal"))
<1>1. PICK c \in Sh!ChildrenOf(q) : procs[c].at = "zombie"
  BY DEF Sh!ExecSecond, Sh!FirstEnded
<1>2. Sh!ChildrenOf(q) = {c} /\ c # q
  BY ChildrenAre
<1>3. {d \in Sh!ChildrenOf(q) : procs[d].at = "zombie"} = Sh!ChildrenOf(q)
  BY <1>1, <1>2
<1>4. procs' = [d \in DOMAIN procs \ Sh!ChildrenOf(q) |-> IF d = q THEN r ELSE procs[d]]
  BY <1>3 DEF Sh!ExecSecond, SecondArgv
<1> HIDE DEF r
<1>5. q \notin Sh!ChildrenOf(q)
  BY <1>2
<1>6. DOMAIN procs' = DOMAIN procs \ Sh!ChildrenOf(q) /\ procs'[q] = r
  BY <1>4, <1>5
<1> QED  BY <1>1, <1>2, <1>4, <1>5, <1>6 DEF Sh!ExecSecond, r

\* close() changes no field of a process but holds.
LEMMA ClosedIs ==
  ASSUME NEW p, DOMAIN p = Fields
  PROVE  LET r == Sh!CloseWriteEnd(p)
         IN /\ DOMAIN r = Fields /\ r.at = p.at /\ r.parent = p.parent /\ r.line = p.line
            /\ r.argv = p.argv /\ r.in = p.in /\ r.out = p.out /\ r.left = p.left /\ r.got = p.got
  BY DEF Sh!CloseWriteEnd, Fields

\* No process is left without its parent.
LEMMA SecondKeepsTree ==
  ASSUME TreeInv, ForegroundInv, UNCHANGED <<pc, typed, child>>,
         NEW q \in DOMAIN procs, Sh!ExecSecond(q)
  PROVE  TreeInv' /\ ForegroundInv'
<1> DEFINE e == Sh!Execute(q, SecondArgv(procs[q].mem), "pipe", "terminal")
           K == Sh!ChildrenOf(q)
<1>1. /\ procs[q].at = "second" /\ DOMAIN procs' = DOMAIN procs \ K /\ q \notin K
      /\ procs'[q] = Sh!CloseWriteEnd(e)
      /\ \A c \in DOMAIN procs' : c # q => procs'[c] = procs[c]
  BY SecondIs
<1>2. DOMAIN e = Fields /\ e.parent = procs[q].parent /\ e.line = procs[q].line
      /\ e.at \in {"command", "zombie"}
  <2>1. DOMAIN procs[q] = Fields
    BY DEF TreeInv
  <2> QED  BY <2>1, ExecuteIs
<1> HIDE DEF e
<1>3. /\ DOMAIN procs'[q] = Fields /\ procs'[q].parent = procs[q].parent
      /\ procs'[q].line = procs[q].line /\ procs'[q].at \in {"command", "zombie"}
  BY <1>1, <1>2, ClosedIs
<1>4. K = {c \in DOMAIN procs : procs[c].parent = q}
  BY DEF Sh!ChildrenOf
<1> HIDE DEF K
<1>5. procs[q].parent = 1
  BY <1>1 DEF TreeInv
<1>6. \A c \in DOMAIN procs' :
        /\ c \in DOMAIN procs /\ procs[c].parent # q
        /\ procs'[c].parent = procs[c].parent /\ procs'[c].line = procs[c].line
  BY <1>1, <1>3, <1>4
<1>7. \A c \in DOMAIN procs : procs[c].at = "second" => c \in DOMAIN procs'
  <2>1. ASSUME NEW c \in K, procs[c].at = "second"
        PROVE  FALSE
    BY <2>1, <1>4, PidsAre DEF TreeInv
  <2> QED  BY <1>1, <2>1
<1>8. \A c \in DOMAIN procs' :
       /\ DOMAIN procs'[c] = Fields
       /\ procs'[c].line \in Lines \ {<<>>}
       /\ \/ procs'[c].parent = 1 /\ procs'[c].at \in {"child", "second", "command", "zombie"}
          \/ /\ procs'[c].at \in {"first", "command", "zombie"}
             /\ procs'[c].parent \in DOMAIN procs'
             /\ procs'[procs'[c].parent].at = "second"
             /\ procs'[procs'[c].parent].line = procs'[c].line
             /\ procs'[procs'[c].parent].parent = 1
  BY <1>1, <1>3, <1>5, <1>6, <1>7 DEF TreeInv
<1>9. TreeInv'
  BY <1>6, <1>8 DEF TreeInv
<1>10. (pc = "wait" /\ ~InBackground(typed)) => child \in DOMAIN procs' /\ procs'[child].parent = 1
  <2>1. child \in K => procs[child].parent = q /\ q # 1
    BY <1>4, PidsAre DEF TreeInv
  <2> QED  BY <1>1, <1>6, <2>1 DEF ForegroundInv
<1>11. ForegroundInv'
  BY <1>6, <1>10 DEF ForegroundInv
<1> QED  BY <1>9, <1>11

-----------------------------------------------------------------------------
(* What the processes do. *)

\* A process that moves is a child, or a program, and leaves the shell alone.
LEMMA ProcessIs ==
  ASSUME NEW q \in Pids, Process(q)
  PROVE  \/ UNCHANGED shellVars
         \/ /\ q \in DOMAIN procs /\ UNCHANGED <<pc, Sh!locals>>
            /\ Sh!ChildStep(q) \/ Sh!ProgramStep(q)
<1>1. CASE Ordinary(q)
  BY <1>1 DEF Ordinary, Sh!ProcessStep
<1>2. CASE ReadEntry(q)
  BY <1>2 DEF ReadEntry, ReadsEntry, Runs, Ends, Sh!Ends, Sh!ProgramStep
<1>3. CASE WriteEntry(q)
  BY <1>3 DEF WriteEntry, WritesEntry, Runs, Ends, Sh!Ends, Sh!ProgramStep
<1> QED  BY <1>1, <1>2, <1>3 DEF Process

\* A process that is replaced by its program or has ended.
Became(q, r) ==
  /\ procs' = [procs EXCEPT ![q] = r]
  /\ DOMAIN r = Fields /\ r.parent = procs[q].parent /\ r.line = procs[q].line

PlainExec(q) ==
  LET mem == procs[q].mem
  IN Sh!Execute(q, Sh!ArgvFrom(mem.args, 0),
                IF Sh!Has(mem.cmd, "<") THEN mem.file ELSE "terminal",
                IF Sh!Has(mem.cmd, ">") THEN mem.file ELSE "terminal")
FirstExec(q) ==
  LET mem == procs[q].mem
  IN Sh!Execute(q, Sh!ArgvFrom([mem.args EXCEPT ![mem.cmd["|"]] = NULL], 0), "terminal", "pipe")

\* execvp() moves one process, in its place in the tree;
LEMMA ExecsAre ==
  ASSUME TreeInv, NEW q \in DOMAIN procs
  PROVE  /\ Sh!ExecPlain(q) => Became(q, PlainExec(q)) /\ PlainExec(q).at \in {"command", "zombie"}
         /\ Sh!ExecFirst(q) => Became(q, FirstExec(q)) /\ FirstExec(q).at \in {"command", "zombie"}
<1>1. DOMAIN procs[q] = Fields
  BY DEF TreeInv
<1>2. /\ DOMAIN PlainExec(q) = Fields /\ PlainExec(q).parent = procs[q].parent
      /\ PlainExec(q).line = procs[q].line /\ PlainExec(q).at \in {"command", "zombie"}
  BY <1>1, ExecuteIs DEF PlainExec
<1>3. /\ DOMAIN FirstExec(q) = Fields /\ FirstExec(q).parent = procs[q].parent
      /\ FirstExec(q).line = procs[q].line /\ FirstExec(q).at \in {"command", "zombie"}
  BY <1>1, ExecuteIs DEF FirstExec
<1>4. Sh!ExecPlain(q) => procs' = [procs EXCEPT ![q] = PlainExec(q)]
  BY DEF Sh!ExecPlain, PlainExec
<1>5. Sh!ExecFirst(q) => procs' = [procs EXCEPT ![q] = FirstExec(q)]
  BY DEF Sh!ExecFirst, FirstExec
<1> QED  BY <1>2, <1>3, <1>4, <1>5 DEF Became

\* so does failing, ending, reading and writing.
LEMMA ProgramsAre ==
  ASSUME TreeInv, NEW q \in DOMAIN procs
  PROVE  /\ Sh!PipeFailed(q) \/ Sh!Finish(q) =>
              Became(q, Sh!Zombie(q)) /\ Sh!Zombie(q).at = "zombie"
         /\ Sh!ReadUnit(q) => LET r == [procs[q] EXCEPT !.got = @ + 1]
              IN Became(q, r) /\ r.at = "command" /\ procs[q].at = "command"
         /\ Sh!WriteUnit(q) => LET r == [procs[q] EXCEPT !.left = @ - 1]
              IN Became(q, r) /\ r.at = "command" /\ procs[q].at = "command"
<1>1. DOMAIN procs[q] = Fields
  BY DEF TreeInv
<1>2. Sh!PipeFailed(q) \/ Sh!Finish(q) => procs' = [procs EXCEPT ![q] = Sh!Zombie(q)]
  BY DEF Sh!PipeFailed, Sh!Finish
<1>3. Sh!PipeFailed(q) \/ Sh!Finish(q) => Became(q, Sh!Zombie(q)) /\ Sh!Zombie(q).at = "zombie"
  BY <1>2, ZombieIs DEF Became
<1> DEFINE p == procs[q]
<1>4. Sh!ReadUnit(q) => procs' = [procs EXCEPT ![q] = [p EXCEPT !.got = @ + 1]] /\ p.at = "command"
  BY DEF Sh!ReadUnit, Sh!Drains
<1>5. Sh!WriteUnit(q) => procs' = [procs EXCEPT ![q] = [p EXCEPT !.left = @ - 1]] /\ p.at = "command"
  BY DEF Sh!WriteUnit
<1>6. \A x : LET r == [p EXCEPT !.got = x]
             IN DOMAIN r = Fields /\ r.parent = p.parent /\ r.line = p.line /\ r.at = p.at
  <2> HIDE DEF p
  <2>1. DOMAIN p = Fields
    BY <1>1 DEF p
  <2> QED  BY <2>1 DEF Fields
<1>7. \A x : LET r == [p EXCEPT !.left = x]
             IN DOMAIN r = Fields /\ r.parent = p.parent /\ r.line = p.line /\ r.at = p.at
  <2> HIDE DEF p
  <2>1. DOMAIN p = Fields
    BY <1>1 DEF p
  <2> QED  BY <2>1 DEF Fields
<1> QED  BY <1>3, <1>4, <1>5, <1>6, <1>7 DEF Became

\* Every step of a process keeps the tree.
LEMMA ProcessKeepsTree ==
  ASSUME TreeInv, ForegroundInv, UNCHANGED <<pc, typed, child>>,
         NEW q \in DOMAIN procs, Sh!ChildStep(q) \/ Sh!ProgramStep(q)
  PROVE  TreeInv' /\ ForegroundInv'
<1>1. ASSUME NEW r, Became(q, r), r.at \in {"command", "zombie"}, procs[q].at # "second"
      PROVE  TreeInv' /\ ForegroundInv'
  BY <1>1, TreeMoves DEF Became
<1>2. CASE Sh!ExecPlain(q)
  BY <1>1, <1>2, ExecsAre DEF Sh!ExecPlain
<1>3. CASE Sh!ExecFirst(q)
  BY <1>1, <1>3, ExecsAre DEF Sh!ExecFirst
<1>4. CASE Sh!PipeFailed(q) \/ Sh!Finish(q)
  BY <1>1, <1>4, ProgramsAre DEF Sh!PipeFailed, Sh!Finish
<1>5. CASE Sh!ReadUnit(q)
  BY <1>1, <1>5, ProgramsAre
<1>6. CASE Sh!WriteUnit(q)
  BY <1>1, <1>6, ProgramsAre
<1>7. CASE Sh!MakePipe(q)
  BY <1>7, PipeKeepsTree
<1>8. CASE Sh!ExecSecond(q)
  BY <1>8, SecondKeepsTree
<1> QED  BY <1>2, <1>3, <1>4, <1>5, <1>6, <1>7, <1>8 DEF Sh!ChildStep, Sh!ProgramStep

PromptInv == TypedInv /\ ArgsInv /\ FilesInv /\ TreeInv /\ ForegroundInv

\* At the start there are no processes.
LEMMA PromptInit == Init => PromptInv
<1> SUFFICES ASSUME Init  PROVE PromptInv
  OBVIOUS
<1>1. TypedInv /\ ArgsInv /\ FilesInv
  BY ShellInit
<1>2. procs = <<>> /\ pc = "prompt"
  BY DEF Init, Sh!Init
<1>3. DOMAIN procs = {}
  BY <1>2
<1> QED  BY <1>1, <1>2, <1>3 DEF PromptInv, TreeInv, ForegroundInv

\* The part about the shell and the tree is inductive by itself.
LEMMA StepPrompt == PromptInv /\ [Next]_vars => PromptInv'
<1> SUFFICES ASSUME PromptInv, [Next]_vars
             PROVE  PromptInv'
  OBVIOUS
<1>0. TypedInv /\ ArgsInv /\ FilesInv /\ TreeInv /\ ForegroundInv
  BY DEF PromptInv
<1>1. CASE Type
  <2>1. procs' = procs /\ pc = "prompt" /\ pc' # "wait"
    BY <1>1 DEF Type, Sh!TakeLine, Sh!Nothing, Sh!Exit, Sh!NoHistory, Sh!Repeat, Sh!Command,
       Sh!Typing
  <2> QED  BY <1>0, <1>1, <2>1, TypeKeepsShell, TreeKept DEF PromptInv
<1>2. CASE RunShell
  <2>1. TypedInv' /\ ArgsInv' /\ FilesInv'
    BY <1>0, <1>2, ShellKeepsShell
  <2>2. CASE Sh!OpenFailed \/ Sh!Open \/ Sh!ForkFailed
    <3>1. procs' = procs /\ pc # "wait" /\ pc' # "wait"
      BY <2>2 DEF Sh!OpenFailed, Sh!Open, Sh!ForkFailed
    <3> QED  BY <1>0, <2>1, <3>1, TreeKept DEF PromptInv
  <2>3. CASE Sh!Fork
    BY <1>0, <2>1, <2>3, ForkKeepsTree DEF PromptInv
  <2>4. CASE Sh!Await
    BY <1>0, <2>1, <2>4, AwaitKeepsTree DEF PromptInv
  <2> QED  BY <1>2, <2>2, <2>3, <2>4 DEF RunShell, Sh!ShellStep
<1>3. CASE Kernel
  <2>1. UNCHANGED <<procs, pc, typed, child>>
    BY <1>3 DEF Kernel, shellVars
  <2> QED  BY <1>0, <1>3, <2>1, OthersKeepShell, TreeKept DEF PromptInv
<1>4. ASSUME NEW q \in Pids, Process(q)
      PROVE  PromptInv'
  <2>1. TypedInv' /\ ArgsInv' /\ FilesInv' /\ UNCHANGED <<pc, Sh!locals>>
    BY <1>0, <1>4, OthersKeepShell
  <2>2. UNCHANGED <<pc, typed, child>>
    BY <2>1 DEF Sh!locals
  <2>3. TreeInv' /\ ForegroundInv'
    <3>1. CASE UNCHANGED shellVars
      BY <1>0, <2>2, <3>1, TreeKept DEF shellVars
    <3> QED  BY <1>0, <1>4, <2>2, <3>1, ProcessIs, ProcessKeepsTree
  <2> QED  BY <2>1, <2>3 DEF PromptInv
<1>5. CASE UNCHANGED vars
  <2>1. UNCHANGED <<args, prompt_cnt, tmp_ptr, cmd, his, fd, files, typed, inputs, entry,
                    pc, procs, child>>
    BY <1>5 DEF vars, shellVars, entryVars
  <2> QED  BY <1>0, <2>1, LocalsKept, TreeKept DEF PromptInv
<1> QED  BY <1>1, <1>2, <1>3, <1>4, <1>5 DEF Next

\* At the prompt the shell waits for nobody.
LEMMA PromptFollows == PromptInv => PromptIsClean
  BY DEF PromptInv, ForegroundInv, ArgsInv, FilesInv, PromptIsClean

\* When the shell is back at the prompt, every process of a line without an "&"
\* has been waited for, args has no NULL, and only the input redirections have
\* left descriptors open: for every set of lines and programs.
THEOREM ShellCleansUp == Spec => []PromptIsClean
<1> QED  BY PromptInit, StepPrompt, PromptFollows, PTL DEF Spec

-----------------------------------------------------------------------------
(* What a process remembers, and runs. *)

\* The pipe of a line stands before the NULL.
LEMMA BarIs ==
  ASSUME NEW line \in Lines, NEW c, c = Sh!Parsed(line), Sh!Has(c, "|")
  PROVE  /\ c["|"] \in 0..(Len(line)-1) /\ c["|"] < End(line) /\ line[c["|"]+1] = "|"
         /\ c["|"] \in Sh!Slots
<1>1. "|" \in Sh!Symbols
  BY SymbolsAre
<1>2. c["|"] \in 0..(Len(line)-1) /\ line[c["|"]+1] = "|"
  BY <1>1, ParsedIs
<1>3. c["|"] < End(line)
  BY EndIs
<1>4. Len(line) \in Nat /\ MAX_LINE \in Nat /\ Len(line) < MAX_LINE
  BY LineIs
<1> QED  BY <1>2, <1>3, <1>4 DEF Sh!Slots

\* Without a pipe: the words up to the NULL.
LEMMA PlainArgs ==
  ASSUME NEW line \in Lines, NEW a, NEW n, NEW t, NEW c, Ready(a, n, t, c, line)
  PROVE  Sh!ArgvFrom(a, 0) = SubSeq(line, 1, End(line))
<1>1. n = End(line) /\ Buffered(a, line, n)
  BY DEF Ready
<1>2. n \in 0..Len(line) /\ n \in Sh!Slots /\ Len(line) \in Nat
      /\ MAX_LINE \in Nat /\ Len(line) < MAX_LINE
  BY <1>1, EndIs, LineIs
<1>3. a[n] = NULL
  BY <1>1, <1>2 DEF Buffered
<1>4. ASSUME NEW e \in 0..(n-1)  PROVE a[e] = line[e+1]
  <2>1. e \in Sh!Slots /\ e < Len(line) /\ e # n
    BY <1>2 DEF Sh!Slots
  <2> QED  BY <2>1, <1>1 DEF Buffered
<1>5. 0 \in 0..n
  BY <1>2
<1>6. Sh!ArgvFrom(a, 0) = SubSeq(line, 0+1, n)
  BY <1>2, <1>3, <1>4, <1>5, ArgvIs
<1> QED  BY <1>1, <1>6

\* MakePipe puts the word back; with a pipe it is no symbol of a redirection.
LEMMA BothSplit ==
  ASSUME NEW line \in Lines, NEW mem,
         DOMAIN mem = {"args", "prompt_cnt", "tmp_ptr", "cmd", "file", "open"},
         Ready(mem.args, mem.prompt_cnt, mem.tmp_ptr, mem.cmd, line), Sh!Has(mem.cmd, "|")
  PROVE  LET b == Both(mem)
         IN Split(b.args, b.prompt_cnt, b.tmp_ptr, b.cmd, line)
<1> DEFINE n == mem.prompt_cnt
           words == [mem.args EXCEPT ![n] = mem.tmp_ptr]
           x == words[mem.cmd["|"]]
<1>1. /\ Both(mem).args = words /\ Both(mem).tmp_ptr = x
      /\ Both(mem).prompt_cnt = n /\ Both(mem).cmd = mem.cmd
  <2>1. Both(mem) = [mem EXCEPT !.args = words, !.tmp_ptr = x]
    BY DEF Both
  <2> HIDE DEF words, x
  <2> QED  BY <2>1
<1>2. /\ n = End(line) /\ Buffered(mem.args, line, n) /\ mem.cmd = Sh!Parsed(line)
      /\ mem.tmp_ptr # NULL /\ (n < Len(line) => mem.tmp_ptr = line[n+1])
  BY DEF Ready
<1>3. n \in 0..Len(line) /\ n \in Sh!Slots
  BY <1>2, EndIs
<1>4. \A k \in Sh!Slots : k # -1
  <2>1. MAX_LINE \in Nat
    BY Bounds
  <2> QED  BY <2>1 DEF Sh!Slots
<1>5. /\ mem.args = [k \in Sh!Slots |-> mem.args[k]]
      /\ \A k \in Sh!Slots : mem.args[k] = NULL <=> k = n
      /\ \A k \in Sh!Slots : (k < Len(line) /\ k # n) => mem.args[k] = line[k+1]
  BY <1>2 DEF Buffered
<1>6. words = [k \in Sh!Slots |-> IF k = n THEN mem.tmp_ptr ELSE mem.args[k]]
  BY <1>3, <1>5
<1> HIDE DEF n, words
<1>7. \A k \in Sh!Slots : words[k] # NULL /\ (k < Len(line) => words[k] = line[k+1])
  BY <1>2, <1>5, <1>6
<1>8. words = [k \in Sh!Slots |-> words[k]]
  BY <1>6
<1>9. Buffered(words, line, -1)
  BY <1>4, <1>7, <1>8 DEF Buffered
<1>10. x = "|"
  <2>1. mem.cmd["|"] \in Sh!Slots /\ mem.cmd["|"] < Len(line) /\ line[mem.cmd["|"]+1] = "|"
    BY <1>2, BarIs, LineIs
  <2> QED  BY <1>7, <2>1
<1> HIDE DEF x
<1> QED  BY <1>1, <1>2, <1>9, <1>10 DEF Split

\* The commands on each side of a pipe.
FirstArgv(a, i) == Sh!ArgvFrom([a EXCEPT ![i] = NULL], 0)
OtherArgv(a, n, t, i) == Sh!ArgvFrom([a EXCEPT ![i] = t, ![n] = NULL], i + 1)
\* Their arguments are the words before the pipe, and behind it up to the NULL.
LEMMA SplitArgs ==
  ASSUME NEW line \in Lines, NEW a, NEW n, NEW t, NEW c, Split(a, n, t, c, line)
  PROVE  /\ FirstArgv(a, c["|"]) = SubSeq(line, 1, c["|"])
         /\ OtherArgv(a, n, t, c["|"]) = SubSeq(line, c["|"] + 2, n)
<1> DEFINE i == c["|"]
<1>1. c = Sh!Parsed(line) /\ n = End(line) /\ Buffered(a, line, -1) /\ Sh!Has(c, "|") /\ t = "|"
  BY DEF Split
<1>2. i \in 0..(Len(line)-1) /\ i < n /\ line[i+1] = "|" /\ i \in Sh!Slots
  BY <1>1, BarIs
<1>3. n \in 0..Len(line) /\ n \in Sh!Slots /\ Len(line) \in Nat
      /\ MAX_LINE \in Nat /\ Len(line) < MAX_LINE
  BY <1>1, EndIs, LineIs
<1>4. /\ DOMAIN a = Sh!Slots
      /\ \A k \in Sh!Slots : k < Len(line) => a[k] = line[k+1]
  <2>1. \A k \in Sh!Slots : k # -1
    BY <1>3 DEF Sh!Slots
  <2>2. a = [k \in Sh!Slots |-> a[k]]
    BY <1>1 DEF Buffered
  <2>3. DOMAIN a = Sh!Slots
    BY <2>2
  <2> QED  BY <1>1, <2>1, <2>3 DEF Buffered
<1> DEFINE first == [a EXCEPT ![i] = NULL]
           second == [a EXCEPT ![i] = t, ![n] = NULL]
<1> HIDE DEF i
<1>5. first[i] = NULL /\ \A k \in Sh!Slots : k # i => first[k] = a[k]
  BY <1>2, <1>4
<1>6. second[n] = NULL /\ \A k \in Sh!Slots : (k # i /\ k # n) => second[k] = a[k]
  BY <1>2, <1>3, <1>4
<1> HIDE DEF first, second
<1>7. \A e \in 0..(i-1) : first[e] = line[e+1]
  <2> SUFFICES ASSUME NEW e \in 0..(i-1)  PROVE first[e] = line[e+1]
    OBVIOUS
  <2>1. e \in Sh!Slots /\ e # i /\ e < Len(line)
    BY <1>2, <1>3 DEF Sh!Slots
  <2> QED  BY <1>4, <1>5, <2>1
<1>8. \A e \in (i+1)..(n-1) : second[e] = line[e+1]
  <2> SUFFICES ASSUME NEW e \in (i+1)..(n-1)  PROVE second[e] = line[e+1]
    OBVIOUS
  <2>1. e \in Sh!Slots /\ e # i /\ e # n /\ e < Len(line)
    BY <1>2, <1>3 DEF Sh!Slots
  <2> QED  BY <1>4, <1>6, <2>1
<1>9. i \in 0..Len(line) /\ 0 \in 0..i /\ i + 1 \in 0..n
  BY <1>2, <1>3
<1>10. Sh!ArgvFrom(first, 0) = SubSeq(line, 1, i)
  <2>1. Sh!ArgvFrom(first, 0) = SubSeq(line, 0+1, i)
    BY <1>5, <1>7, <1>9, ArgvIs
  <2> QED  BY <2>1
<1>11. Sh!ArgvFrom(second, i+1) = SubSeq(line, i+2, n)
  <2>1. Sh!ArgvFrom(second, i+1) = SubSeq(line, (i+1)+1, n)
    BY <1>3, <1>6, <1>8, <1>9, ArgvIs
  <2>2. (i+1)+1 = i+2
    BY <1>2
  <2> QED  BY <2>1, <2>2
<1>12. FirstArgv(a, c["|"]) = SubSeq(line, 1, c["|"])
  BY <1>10 DEF FirstArgv, first, i
<1>13. OtherArgv(a, n, t, c["|"]) = SubSeq(line, c["|"] + 2, n)
  BY <1>11 DEF OtherArgv, second, i
<1> QED  BY <1>12, <1>13

\* The program's name is the first word of the line, or a symbol.
LEMMA HeadIs ==
  ASSUME NEW line \in Lines, line # <<>>, NEW i \in 0..Len(line)
  PROVE  /\ SubSeq(line, 1, i) # <<>> => SubSeq(line, 1, i)[1] = line[1]
         /\ SubSeq(line, 1, i) = <<>> => i = 0
<1>1. Len(line) \in Nat
  BY LineIs
<1>2. i = 0 \/ i > 0
  BY <1>1
<1> DEFINE V == {line[k] : k \in 1..Len(line)}
<1>3. \A k \in 1..i : line[k] \in V
  BY <1>1
<1> HIDE DEF V
<1>4. /\ SubSeq(line, 1, i) \in Seq(V)
      /\ Len(SubSeq(line, 1, i)) = IF 1 <= i THEN i-1+1 ELSE 0
      /\ \A k \in 1..i-1+1 : SubSeq(line, 1, i)[k] = line[1+k-1]
  BY <1>1, <1>3, SubSeqProperties
<1>5. CASE i = 0
  <2>1. Len(SubSeq(line, 1, i)) = 0
    BY <1>4, <1>5
  <2>2. SubSeq(line, 1, i) = <<>>
    BY <1>4, <2>1
  <2> QED  BY <1>5, <2>2
<1>6. CASE i > 0
  <2>1. Len(SubSeq(line, 1, i)) > 0 /\ 1 \in 1..i-1+1 /\ 1+1-1 = 1
    BY <1>1, <1>4, <1>6
  <2>2. SubSeq(line, 1, i)[1] = line[1]
    <3>1. SubSeq(line, 1, i)[1] = line[1+1-1]
      BY <1>4, <2>1
    <3> QED  BY <2>1, <3>1
  <2>3. SubSeq(line, 1, i) # <<>>
    BY <2>1
  <2> QED  BY <2>2, <2>3
<1> QED  BY <1>2, <1>5, <1>6

\* A process remembers and runs the right things, whatever leaks later.
Sound(n, p) ==
  Remembers(n, p) /\ RightRun(n, p) /\ (p.at = "child" => p.mem.file # "pipe")
SoundInv == MemInv /\ RunInv /\ NamesInv

\* The three invariants, process by process.
LEMMA SoundIs ==
  SoundInv <=> /\ \A q \in DOMAIN procs : Sound(inputs, procs[q])
               /\ \A d \in DOMAIN files : files[d] # "pipe"
  BY DEF SoundInv, MemInv, RunInv, NamesInv, Sound

\* A descriptor that leaks takes nothing away.
LEMMA SoundStays ==
  ASSUME NEW n, NEW m, n = MaxFd - 2 => m = MaxFd - 2, NEW p, Sound(n, p)
  PROVE  Sound(m, p)
<1>1. Remembers(m, p)
  BY FileStays DEF Sound, Remembers
<1>2. RightRun(m, p)
  BY FileStays DEF Sound, RightRun
<1> QED  BY <1>1, <1>2 DEF Sound

\* Only what has changed is to be looked at.
LEMMA SoundMoves ==
  ASSUME SoundInv, inputs = MaxFd - 2 => inputs' = MaxFd - 2,
         \A d \in DOMAIN files' : files'[d] # "pipe",
         \A c \in DOMAIN procs' :
           (c \in DOMAIN procs /\ procs'[c] = procs[c]) \/ Sound(inputs', procs'[c])
  PROVE  SoundInv'
<1>1. \A c \in DOMAIN procs : Sound(inputs, procs[c])
  BY SoundIs
<1>2. \A c \in DOMAIN procs : Sound(inputs', procs[c])
  BY <1>1, SoundStays
<1>3. \A c \in DOMAIN procs' : Sound(inputs', procs'[c])
  BY <1>2
<1> QED  BY <1>3 DEF SoundInv, MemInv, RunInv, NamesInv, Sound

\* A process that has ended remembers nothing.
LEMMA EndedSound ==
  ASSUME NEW n, NEW p, p.at = "zombie"
  PROVE  Sound(n, p)
  BY DEF Sound, Remembers, RightRun

\* execvp() without a pipe,
LEMMA PlainSound ==
  ASSUME TreeInv, SoundInv, NEW q \in DOMAIN procs, Sh!ExecPlain(q)
  PROVE  Sound(inputs, PlainExec(q))
<1> DEFINE p == procs[q]
           r == PlainExec(q)
           f == p.mem.file
           c == Sh!Parsed(p.line)
<1>1. p.at = "child" /\ ~Sh!Has(p.mem.cmd, "|")
  BY DEF Sh!ExecPlain
<1>2. /\ p.line \in Lines /\ FileRight(inputs, f, p.line)
      /\ Ready(p.mem.args, p.mem.prompt_cnt, p.mem.tmp_ptr, p.mem.cmd, p.line)
  BY <1>1 DEF TreeInv, SoundInv, MemInv, Remembers
<1>3. p.mem.cmd = c
  BY <1>2 DEF Ready
<1>4. Sh!ArgvFrom(p.mem.args, 0) = SubSeq(p.line, 1, End(p.line))
  BY <1>2, PlainArgs
<1>5. DOMAIN p = Fields
  BY DEF TreeInv
<1>6. r.at \in {"command", "zombie"} /\ r.line = p.line
  BY <1>5, ExecuteIs DEF PlainExec
<1>7. CASE r.at = "command"
  <2>1. /\ r.argv = Sh!ArgvFrom(p.mem.args, 0)
        /\ r.in = IF Sh!Has(p.mem.cmd, "<") THEN f ELSE "terminal"
        /\ r.out = IF Sh!Has(p.mem.cmd, ">") THEN f ELSE "terminal"
    BY <1>5, <1>7, ExecuteIs DEF PlainExec
  <2>2. Remembers(inputs, r)
    BY <1>7 DEF Remembers
  <2> HIDE DEF r, f, p
  <2>3. \E g \in {r.in, r.out, "terminal"} :
          /\ FileRight(inputs, g, r.line)
          /\ r.in = IF Sh!Has(c, "<") THEN g ELSE "terminal"
          /\ r.out = IF Sh!Has(c, ">") THEN g ELSE "terminal"
    <3>1. CASE Sh!Has(c, "<") \/ Sh!Has(c, ">")
      BY <1>2, <1>3, <1>6, <2>1, <3>1
    <3>2. CASE ~(Sh!Has(c, "<") \/ Sh!Has(c, ">"))
      <4>1. FileRight(inputs, "terminal", r.line)
        BY <1>6, <3>2 DEF FileRight
      <4> QED  BY <1>3, <2>1, <3>2, <4>1
    <3> QED  BY <3>1, <3>2
  <2>4. RightRun(inputs, r)
    <3>1. ~Sh!Has(Sh!Parsed(r.line), "|") /\ r.argv = SubSeq(r.line, 1, End(r.line))
      BY <1>1, <1>3, <1>4, <1>6, <2>1 DEF p
    <3> QED  BY <1>6, <2>3, <3>1 DEF RightRun
  <2>5. Sound(inputs, r)
    BY <1>7, <2>2, <2>4 DEF Sound
  <2> QED  BY <2>5 DEF r
<1>8. CASE r.at = "zombie"
  BY <1>8, EndedSound
<1> QED  BY <1>6, <1>7, <1>8

\* of the first command,
LEMMA FirstSound ==
  ASSUME TreeInv, SoundInv, NEW q \in DOMAIN procs, Sh!ExecFirst(q)
  PROVE  Sound(inputs, FirstExec(q))
<1> DEFINE p == procs[q]
           r == FirstExec(q)
           c == Sh!Parsed(p.line)
<1>1. p.at = "first" /\ p.parent # 1 /\ p.line \in Lines /\ DOMAIN p = Fields
  BY PidsAre DEF Sh!ExecFirst, TreeInv
<1>2. Split(p.mem.args, p.mem.prompt_cnt, p.mem.tmp_ptr, p.mem.cmd, p.line)
  BY <1>1 DEF SoundInv, MemInv, Remembers
<1>3. p.mem.cmd = c /\ Sh!Has(c, "|")
  BY <1>2 DEF Split
<1>4. Sh!ArgvFrom([p.mem.args EXCEPT ![p.mem.cmd["|"]] = NULL], 0) = SubSeq(p.line, 1, p.mem.cmd["|"])
  <2> DEFINE a == p.mem.args
             n == p.mem.prompt_cnt
             t == p.mem.tmp_ptr
             d == p.mem.cmd
             line == p.line
  <2>1. line \in Lines /\ Split(a, n, t, d, line)
    BY <1>1, <1>2
  <2> HIDE DEF a, n, t, d, line
  <2>2. FirstArgv(a, d["|"]) = SubSeq(line, 1, d["|"])
    BY <2>1, SplitArgs
  <2> QED  BY <2>2 DEF FirstArgv, a, d, line
<1>5. r.at \in {"command", "zombie"} /\ r.line = p.line /\ r.parent = p.parent
  BY <1>1, ExecuteIs DEF FirstExec
<1>6. CASE r.at = "command"
  <2>1. /\ r.argv = Sh!ArgvFrom([p.mem.args EXCEPT ![p.mem.cmd["|"]] = NULL], 0)
        /\ r.in = "terminal" /\ r.out = "pipe"
    BY <1>1, <1>6, ExecuteIs DEF FirstExec
  <2> HIDE DEF r, p
  <2>2. RightRun(inputs, r)
    BY <1>1, <1>3, <1>4, <1>5, <2>1 DEF RightRun
  <2>3. Sound(inputs, r)
    BY <1>6, <2>2 DEF Sound, Remembers
  <2> QED  BY <2>3 DEF r
<1>7. CASE r.at = "zombie"
  BY <1>7, EndedSound
<1> QED  BY <1>5, <1>6, <1>7

\* and of the second.
SecondExec(q) ==
  Sh!CloseWriteEnd(Sh!Execute(q, SecondArgv(procs[q].mem), "pipe", "terminal"))
\* The second command has also closed the write end.
LEMMA SecondExecIs ==
  ASSUME TreeInv, NEW q \in DOMAIN procs
  PROVE  LET r == SecondExec(q)
             argv == SecondArgv(procs[q].mem)
         IN /\ DOMAIN r = Fields /\ r.parent = procs[q].parent /\ r.line = procs[q].line
            /\ r.at \in {"command", "zombie"}
            /\ r.at = "command" =>
                 /\ argv # <<>> /\ argv[1] \in DOMAIN Output
                 /\ r.argv = argv /\ r.in = "pipe" /\ r.out = "terminal"
                 /\ r.left = Output[argv[1]] /\ r.got = procs[q].got
<1> DEFINE e == Sh!Execute(q, SecondArgv(procs[q].mem), "pipe", "terminal")
<1>1. DOMAIN procs[q] = Fields
  BY DEF TreeInv
<1>2. /\ DOMAIN e = Fields /\ e.parent = procs[q].parent /\ e.line = procs[q].line
      /\ e.at \in {"command", "zombie"}
      /\ e.at = "command" =>
           /\ SecondArgv(procs[q].mem) # <<>> /\ SecondArgv(procs[q].mem)[1] \in DOMAIN Output
           /\ e.argv = SecondArgv(procs[q].mem) /\ e.in = "pipe" /\ e.out = "terminal"
           /\ e.left = Output[SecondArgv(procs[q].mem)[1]] /\ e.got = procs[q].got
  BY <1>1, ExecuteIs
<1>3. SecondExec(q) = Sh!CloseWriteEnd(e)
  BY DEF SecondExec
<1> HIDE DEF e
<1> QED  BY <1>2, <1>3, ClosedIs

\* It runs the words behind the pipe.
LEMMA SecondSound ==
  ASSUME TreeInv, SoundInv, NEW q \in DOMAIN procs, Sh!ExecSecond(q)
  PROVE  Sound(inputs, SecondExec(q))
<1> DEFINE p == procs[q]
           r == SecondExec(q)
           c == Sh!Parsed(p.line)
<1>1. p.at = "second" /\ p.parent = 1 /\ p.line \in Lines
  BY DEF Sh!ExecSecond, TreeInv
<1>2. Split(p.mem.args, p.mem.prompt_cnt, p.mem.tmp_ptr, p.mem.cmd, p.line)
  BY <1>1 DEF SoundInv, MemInv, Remembers
<1>3. p.mem.cmd = c /\ Sh!Has(c, "|") /\ p.mem.prompt_cnt = End(p.line)
  BY <1>2 DEF Split
<1>4. SecondArgv(p.mem) = SubSeq(p.line, p.mem.cmd["|"] + 2, p.mem.prompt_cnt)
  <2> DEFINE a == p.mem.args
             n == p.mem.prompt_cnt
             t == p.mem.tmp_ptr
             d == p.mem.cmd
             line == p.line
  <2>1. line \in Lines /\ Split(a, n, t, d, line)
    BY <1>1, <1>2
  <2>2. SecondArgv(p.mem) = OtherArgv(a, n, t, d["|"])
    BY DEF SecondArgv, OtherArgv
  <2> HIDE DEF a, n, t, d, line
  <2>3. OtherArgv(a, n, t, d["|"]) = SubSeq(line, d["|"] + 2, n)
    BY <2>1, SplitArgs
  <2> QED  BY <2>2, <2>3 DEF n, d, line
<1>5. /\ r.at \in {"command", "zombie"} /\ r.line = p.line /\ r.parent = p.parent
      /\ r.at = "command" => r.argv = SecondArgv(p.mem) /\ r.in = "pipe" /\ r.out = "terminal"
  BY SecondExecIs
<1>6. CASE r.at = "command"
  <2> HIDE DEF r, p
  <2>1. RightRun(inputs, r)
    <3>1. Sh!Has(Sh!Parsed(r.line), "|") /\ r.parent = 1 /\ r.in = "pipe" /\ r.out = "terminal"
      BY <1>1, <1>3, <1>5, <1>6
    <3>2. r.argv = SubSeq(r.line, Sh!Parsed(r.line)["|"] + 2, End(r.line))
      BY <1>3, <1>4, <1>5, <1>6
    <3> QED  BY <3>1, <3>2 DEF RightRun
  <2>2. Sound(inputs, r)
    BY <1>6, <2>1 DEF Sound, Remembers
  <2> QED  BY <2>2 DEF r
<1>7. CASE r.at = "zombie"
  BY <1>7, EndedSound
<1> QED  BY <1>5, <1>6, <1>7

\* The processes change neither the files nor what leaks.
LEMMA OneSound ==
  ASSUME SoundInv, UNCHANGED <<inputs, files>>, NEW q \in DOMAIN procs, NEW r, Became(q, r),
         Sound(inputs, r)
  PROVE  SoundInv'
<1>1. DOMAIN procs' = DOMAIN procs /\ procs'[q] = r
      /\ \A c \in DOMAIN procs : c # q => procs'[c] = procs[c]
  BY DEF Became
<1>2. \A d \in DOMAIN files' : files'[d] # "pipe"
  BY SoundIs
<1>3. \A c \in DOMAIN procs' :
        (c \in DOMAIN procs /\ procs'[c] = procs[c]) \/ Sound(inputs', procs'[c])
  BY <1>1
<1> QED  BY <1>2, <1>3, SoundMoves

\* Both processes of a pipeline remember the whole line.
LEMMA PipeSound ==
  ASSUME TreeInv, SoundInv, UNCHANGED <<inputs, files>>, NEW q \in DOMAIN procs, Sh!MakePipe(q)
  PROVE  SoundInv'
<1> DEFINE n == NewPid
           p == procs[q]
           b == Both(procs[q].mem)
<1>1. /\ p.at = "child" /\ Sh!Has(p.mem.cmd, "|") /\ DOMAIN procs' = DOMAIN procs \cup {n}
      /\ \A c \in DOMAIN procs : c # q => procs'[c] = procs[c]
      /\ procs'[n].at = "first" /\ procs'[n].line = p.line /\ procs'[n].mem = b
      /\ procs'[q].at = "second" /\ procs'[q].line = p.line /\ procs'[q].mem = b
  BY PipeIs
<1>2. /\ DOMAIN p.mem = {"args", "prompt_cnt", "tmp_ptr", "cmd", "file", "open"}
      /\ Ready(p.mem.args, p.mem.prompt_cnt, p.mem.tmp_ptr, p.mem.cmd, p.line)
      /\ p.line \in Lines
  BY <1>1 DEF SoundInv, MemInv, Remembers, TreeInv
<1>3. Split(b.args, b.prompt_cnt, b.tmp_ptr, b.cmd, p.line)
  <2> DEFINE m == p.mem
  <2>1. /\ DOMAIN m = {"args", "prompt_cnt", "tmp_ptr", "cmd", "file", "open"}
        /\ Ready(m.args, m.prompt_cnt, m.tmp_ptr, m.cmd, p.line) /\ Sh!Has(m.cmd, "|")
    BY <1>1, <1>2
  <2>2. b = Both(m)
    OBVIOUS
  <2> HIDE DEF m, b
  <2> QED  BY <1>2, <2>1, <2>2, BothSplit
<1> HIDE DEF n, b
<1>4. \A c \in {n, q} : Sound(inputs, procs'[c])
  BY <1>1, <1>3 DEF Sound, Remembers, RightRun
<1>5. \A c \in DOMAIN procs' :
        (c \in DOMAIN procs /\ procs'[c] = procs[c]) \/ Sound(inputs', procs'[c])
  BY <1>1, <1>4
<1>6. \A d \in DOMAIN files' : files'[d] # "pipe"
  BY SoundIs
<1> QED  BY <1>5, <1>6, SoundMoves

\* Reaping the first command takes nothing away.
LEMMA SecondKeepsSound ==
  ASSUME TreeInv, SoundInv, UNCHANGED <<inputs, files>>, NEW q \in DOMAIN procs, Sh!ExecSecond(q)
  PROVE  SoundInv'
<1>1. /\ DOMAIN procs' = DOMAIN procs \ Sh!ChildrenOf(q)
      /\ procs'[q] = SecondExec(q) /\ \A c \in DOMAIN procs' : c # q => procs'[c] = procs[c]
  BY SecondIs DEF SecondExec
<1>2. Sound(inputs, SecondExec(q))
  BY SecondSound
<1>3. \A c \in DOMAIN procs' :
        (c \in DOMAIN procs /\ procs'[c] = procs[c]) \/ Sound(inputs', procs'[c])
  BY <1>1, <1>2
<1>4. \A d \in DOMAIN files' : files'[d] # "pipe"
  BY SoundIs
<1> QED  BY <1>3, <1>4, SoundMoves

\* Reading and writing changes nothing of this.
LEMMA CountedSound ==
  ASSUME NEW n, NEW p, NEW r, Sound(n, p), p.at = "command",
         \A x \in {"at", "line", "argv", "in", "out", "parent"} : r[x] = p[x]
  PROVE  Sound(n, r)
<1>1. /\ r.at = p.at /\ r.line = p.line /\ r.argv = p.argv /\ r.in = p.in /\ r.out = p.out
      /\ r.parent = p.parent
  OBVIOUS
<1>2. Remembers(n, r)
  BY <1>1 DEF Remembers
<1>3. RightRun(n, p)
  BY DEF Sound
<1>4. RightRun(n, r)
  BY <1>1, <1>3 DEF RightRun
<1> QED  BY <1>1, <1>2, <1>4 DEF Sound

\* Every step of a process keeps what the others remember and run.
LEMMA ProcessKeepsSound ==
  ASSUME TreeInv, SoundInv, UNCHANGED <<inputs, files>>,
         NEW q \in DOMAIN procs, Sh!ChildStep(q) \/ Sh!ProgramStep(q)
  PROVE  SoundInv'
<1> DEFINE p == procs[q]
<1>1. DOMAIN p = Fields /\ Sound(inputs, p)
  BY SoundIs DEF TreeInv
<1>2. CASE Sh!ExecPlain(q)
  BY <1>2, ExecsAre, PlainSound, OneSound
<1>3. CASE Sh!ExecFirst(q)
  BY <1>3, ExecsAre, FirstSound, OneSound
<1>4. CASE Sh!PipeFailed(q) \/ Sh!Finish(q)
  <2>1. Became(q, Sh!Zombie(q)) /\ Sh!Zombie(q).at = "zombie"
    BY <1>4, ProgramsAre
  <2> QED  BY <2>1, EndedSound, OneSound
<1>5. CASE Sh!ReadUnit(q)
  <2> DEFINE r == [p EXCEPT !.got = @ + 1]
  <2>1. Became(q, r) /\ p.at = "command"
    BY <1>5, ProgramsAre
  <2>2. \A x \in {"at", "line", "argv", "in", "out", "parent"} : r[x] = p[x]
    BY <1>1 DEF Fields
  <2> HIDE DEF r, p
  <2>3. Sound(inputs, r)
    BY <1>1, <2>1, <2>2, CountedSound
  <2> QED  BY <2>1, <2>3, OneSound
<1>6. CASE Sh!WriteUnit(q)
  <2> DEFINE r == [p EXCEPT !.left = @ - 1]
  <2>1. Became(q, r) /\ p.at = "command"
    BY <1>6, ProgramsAre
  <2>2. \A x \in {"at", "line", "argv", "in", "out", "parent"} : r[x] = p[x]
    BY <1>1 DEF Fields
  <2> HIDE DEF r, p
  <2>3. Sound(inputs, r)
    BY <1>1, <2>1, <2>2, CountedSound
  <2> QED  BY <2>1, <2>3, OneSound
<1>7. CASE Sh!MakePipe(q)
  BY <1>7, PipeSound
<1>8. CASE Sh!ExecSecond(q)
  BY <1>8, SecondKeepsSound
<1> QED  BY <1>2, <1>3, <1>4, <1>5, <1>6, <1>7, <1>8 DEF Sh!ChildStep, Sh!ProgramStep

\* The files opened are words of the line.
LEMMA OpenSound ==
  ASSUME TypedInv, ArgsInv, FilesInv, FilesInv', SoundInv, Sh!Open
  PROVE  SoundInv'
<1> DEFINE out == IF Sh!Has(cmd, ">") THEN Sh!Opened(files, Sh!OutFile) ELSE files
           found == Sh!Has(cmd, "<") /\ Sh!InFile \notin CannotRead /\ Sh!Free(out) # {}
<1>1. /\ pc = "open" /\ procs' = procs
      /\ Sh!Has(cmd, ">") => Sh!Free(files) # {}
      /\ files' = IF found THEN Sh!Opened(out, Sh!InFile) ELSE out
      /\ inputs' = inputs \/ inputs' = inputs + 1
  BY DEF Sh!Open, Sh!OpenFails
<1>2. ASSUME NEW s \in {"<", ">"}, Sh!Has(cmd, s)
      PROVE  args[cmd[s]+1] # "pipe"
  <2>1. typed \in Lines /\ cmd = Sh!Parsed(typed) /\ args[cmd[s]+1] = typed[cmd[s]+2]
    BY <1>1, <1>2, AtOpen
  <2>2. cmd[s] + 1 < Len(typed) /\ s \in Sh!Symbols
    BY <1>2, <2>1, EndIs, SymbolsAre
  <2>3. cmd[s] \in 0..(Len(typed)-1)
    BY <1>2, <2>1, <2>2, ParsedIs
  <2>4. cmd[s] + 2 \in 1..Len(typed)
    BY <2>1, <2>2, <2>3, LineIs
  <2> QED  BY <2>1, <2>4, LineIs
<1>3. /\ Sh!Has(cmd, ">") => Sh!OutFile # "pipe"
      /\ Sh!Has(cmd, "<") => Sh!InFile # "pipe"
  BY <1>2 DEF Sh!OutFile, Sh!InFile
<1>4. \A d \in DOMAIN files : files[d] # "pipe"
  BY SoundIs
<1>5. DOMAIN files \subseteq 3..MaxFd /\ inputs \in 0..(MaxFd-2) /\ inputs' \in 0..(MaxFd-2)
  BY DEF FilesInv
<1>6. ASSUME NEW open, DOMAIN open \subseteq 3..MaxFd, Sh!Free(open) # {}, NEW f, f # "pipe",
             \A d \in DOMAIN open : open[d] # "pipe"
      PROVE  /\ DOMAIN Sh!Opened(open, f) \subseteq 3..MaxFd
             /\ \A d \in DOMAIN Sh!Opened(open, f) : Sh!Opened(open, f)[d] # "pipe"
  <2> DEFINE g == Sh!Opened(open, f)
             least == Sh!Min(Sh!Free(open))
  <2>1. /\ DOMAIN g = DOMAIN open \cup {least} /\ g[least] = f
        /\ \A e \in DOMAIN open : g[e] = open[e]
        /\ DOMAIN g \subseteq 3..MaxFd
    BY <1>6, OpenedIs
  <2> HIDE DEF g, least
  <2>2. \A d \in DOMAIN g : g[d] # "pipe"
    BY <1>6, <2>1
  <2> QED  BY <2>1, <2>2 DEF g
<1>7. DOMAIN out \subseteq 3..MaxFd /\ \A d \in DOMAIN out : out[d] # "pipe"
  <2>1. CASE Sh!Has(cmd, ">")
    BY <1>1, <1>3, <1>4, <1>5, <1>6, <2>1
  <2>2. CASE ~Sh!Has(cmd, ">")
    BY <1>4, <1>5, <2>2
  <2> QED  BY <2>1, <2>2
<1> HIDE DEF out
<1>8. \A d \in DOMAIN files' : files'[d] # "pipe"
  <2>1. CASE found
    BY <1>1, <1>3, <1>6, <1>7, <2>1
  <2>2. CASE ~found
    BY <1>1, <1>7, <2>2
  <2> QED  BY <2>1, <2>2
<1>9. inputs = MaxFd - 2 => inputs' = MaxFd - 2
  BY <1>1, <1>5, Bounds
<1>10. \A c \in DOMAIN procs' : c \in DOMAIN procs /\ procs'[c] = procs[c]
  BY <1>1
<1> QED  BY <1>8, <1>9, <1>10, SoundMoves

\* The child has a copy of the locals, which were right.
LEMMA ForkSound ==
  ASSUME TypedInv, ArgsInv, FilesInv, SoundInv, Sh!Fork
  PROVE  SoundInv'
<1> DEFINE n == NewPid
           r == Sh!Child("child", 1, typed, Sh!Copy)
<1>1. /\ pc = "fork" /\ inputs' = inputs /\ DOMAIN procs' = DOMAIN procs \cup {n}
      /\ procs'[n] = r /\ \A q \in DOMAIN procs : procs'[q] = procs[q]
  BY ForkIs
<1>2. files' = files
  BY DEF Sh!Fork
<1>3. r.at = "child" /\ r.line = typed /\ r.mem = Sh!Copy
  BY DEF Sh!Child
<1>4. Ready(args, prompt_cnt, tmp_ptr, cmd, typed) /\ FileRight(inputs, Sh!File(files, fd), typed)
  BY <1>1 DEF ArgsInv, FilesInv
<1>5. /\ DOMAIN Sh!Copy = {"args", "prompt_cnt", "tmp_ptr", "cmd", "file", "open"}
      /\ Sh!Copy.args = args /\ Sh!Copy.prompt_cnt = prompt_cnt /\ Sh!Copy.tmp_ptr = tmp_ptr
      /\ Sh!Copy.cmd = cmd /\ Sh!Copy.file = Sh!File(files, fd)
  BY DEF Sh!Copy
<1>6. \A d \in DOMAIN files : files[d] # "pipe"
  BY SoundIs
<1>7. Sh!File(files, fd) # "pipe"
  BY <1>6 DEF Sh!File
<1> HIDE DEF n, r
<1>8. Sound(inputs, r)
  BY <1>3, <1>4, <1>5, <1>7 DEF Sound, Remembers, RightRun
<1>9. \A c \in DOMAIN procs' :
        (c \in DOMAIN procs /\ procs'[c] = procs[c]) \/ Sound(inputs', procs'[c])
  BY <1>1, <1>8
<1> QED  BY <1>1, <1>2, <1>6, <1>9, SoundMoves

\* Closing and reaping take nothing away.
LEMMA AwaitSound ==
  ASSUME SoundInv, Sh!Await
  PROVE  SoundInv'
<1>1. inputs' = inputs /\ files' = Sh!CloseOutput
  BY DEF Sh!Await
<1>2. \A c \in DOMAIN procs' : c \in DOMAIN procs /\ procs'[c] = procs[c]
  BY DEF Sh!Await, Sh!Reap
<1>3. \A d \in DOMAIN files' : d \in DOMAIN files /\ files'[d] = files[d]
  BY <1>1 DEF Sh!CloseOutput
<1>4. \A d \in DOMAIN files' : files'[d] # "pipe"
  BY <1>3, SoundIs
<1> QED  BY <1>1, <1>2, <1>4, SoundMoves

\* Typing, and the module, change none of this.
LEMMA SoundKept ==
  ASSUME SoundInv, UNCHANGED <<procs, files, inputs>>
  PROVE  SoundInv'
<1>1. \A c \in DOMAIN procs' : c \in DOMAIN procs /\ procs'[c] = procs[c]
  OBVIOUS
<1>2. \A d \in DOMAIN files' : files'[d] # "pipe"
  BY SoundIs
<1> QED  BY <1>1, <1>2, SoundMoves

\* What the processes remember and run is inductive, given the shell and the tree.
LEMMA StepSound == PromptInv /\ PromptInv' /\ SoundInv /\ [Next]_vars => SoundInv'
<1> SUFFICES ASSUME PromptInv, PromptInv', SoundInv, [Next]_vars
             PROVE  SoundInv'
  OBVIOUS
<1>0. TypedInv /\ ArgsInv /\ FilesInv /\ TreeInv /\ FilesInv'
  BY DEF PromptInv
<1>1. CASE Type \/ Kernel \/ UNCHANGED vars
  <2>1. UNCHANGED <<procs, files, inputs>>
    BY <1>1 DEF Type, Sh!TakeLine, Sh!Nothing, Sh!Exit, Sh!NoHistory, Sh!Repeat, Sh!Command,
       Sh!Typing, Kernel, vars, shellVars
  <2> QED  BY <2>1, SoundKept
<1>2. CASE RunShell
  <2>1. CASE Sh!OpenFailed \/ Sh!ForkFailed
    <3>1. UNCHANGED <<procs, files, inputs>>
      BY <2>1 DEF Sh!OpenFailed, Sh!ForkFailed, Sh!locals
    <3> QED  BY <3>1, SoundKept
  <2>2. CASE Sh!Open
    BY <1>0, <2>2, OpenSound
  <2>3. CASE Sh!Fork
    BY <1>0, <2>3, ForkSound
  <2>4. CASE Sh!Await
    BY <2>4, AwaitSound
  <2> QED  BY <1>2, <2>1, <2>2, <2>3, <2>4 DEF RunShell, Sh!ShellStep
<1>3. ASSUME NEW q \in Pids, Process(q)
      PROVE  SoundInv'
  <2>1. CASE UNCHANGED shellVars
    BY <2>1, SoundKept DEF shellVars
  <2>2. CASE ~UNCHANGED shellVars
    <3>1. /\ q \in DOMAIN procs /\ UNCHANGED <<pc, Sh!locals>>
          /\ Sh!ChildStep(q) \/ Sh!ProgramStep(q)
      BY <1>3, <2>2, ProcessIs
    <3>2. UNCHANGED <<inputs, files>>
      BY <3>1 DEF Sh!locals
    <3> QED  BY <1>0, <3>1, <3>2, ProcessKeepsSound
  <2> QED  BY <2>1, <2>2
<1> QED  BY <1>1, <1>2, <1>3 DEF Next

\* At the start there are no processes.
LEMMA InitSound == Init => SoundInv
<1> SUFFICES ASSUME Init  PROVE SoundInv
  OBVIOUS
<1>1. procs = <<>> /\ files = <<>>
  BY DEF Init, Sh!Init
<1>2. DOMAIN procs = {} /\ DOMAIN files = {}
  BY <1>1
<1> QED  BY <1>2 DEF SoundInv, MemInv, RunInv, NamesInv

-----------------------------------------------------------------------------
(* The pipes. *)

\* A program writes a number of units, and what is no program none.
LEMMA OutputIs ==
  /\ \A word \in DOMAIN Output : Output[word] \in Nat
  /\ "|" \notin DOMAIN Output
  /\ \A word : OutputOf(word) \in Nat
<1>1. \A word \in DOMAIN Output : Output[word] \in Nat
  BY OshAssumption DEF Sh!Parameters
<1>2. "|" \notin DOMAIN Output
  BY OshAssumption DEF Sh!Parameters
<1> QED  BY <1>1, <1>2 DEF OutputOf

\* What the tree says of the first command of a pipeline.
LEMMA ParentIs ==
  ASSUME TreeInv, NEW q \in DOMAIN procs, procs[q].parent # 1
  PROVE  /\ procs[q].parent \in DOMAIN procs /\ procs[q].parent \in Pids /\ procs[q].parent # q
         /\ procs[procs[q].parent].at = "second" /\ procs[procs[q].parent].parent = 1
         /\ procs[procs[q].parent].line = procs[q].line
         /\ procs[q].at \in {"first", "command", "zombie"}
         /\ \A c \in DOMAIN procs : procs[c].parent = procs[q].parent => c = q
  BY DEF TreeInv

\* One process moves, with it at most the number of units in one pipe: its own
\* or the one it writes to.
LEMMA PipeMoves ==
  ASSUME TreeInv, PipeInv, NEW q \in DOMAIN procs, procs[q].at # "second", NEW r, Became(q, r),
         NEW x \in Pids, NEW n \in Nat, pipes' = [pipes EXCEPT ![x] = n],
         x = q \/ (x = procs[q].parent /\ x # 1),
         Holds(r, pipes'[q]), r.parent # 1 => Feeds(r, pipes'[r.parent])
  PROVE  PipeInv'
<1>1. /\ DOMAIN procs' = DOMAIN procs /\ procs'[q] = r
      /\ \A c \in DOMAIN procs : c # q => procs'[c] = procs[c]
  BY DEF Became
<1>2. /\ pipes = [c \in Pids |-> pipes[c]]
      /\ \A c \in Pids : pipes[c] \in Nat /\ (pipes[c] # 0 => c \in DOMAIN procs)
      /\ \A c \in DOMAIN procs : Holds(procs[c], pipes[c])
      /\ \A c \in DOMAIN procs : procs[c].parent # 1 => Feeds(procs[c], pipes[procs[c].parent])
  BY DEF PipeInv
<1>3. pipes' = [c \in Pids |-> IF c = x THEN n ELSE pipes[c]]
  BY <1>2
<1>4. pipes' = [c \in Pids |-> pipes'[c]]
  BY <1>3
<1>5. x \in DOMAIN procs
  BY ParentIs
<1>6. \A c \in Pids : pipes'[c] \in Nat /\ (pipes'[c] # 0 => c \in DOMAIN procs)
  BY <1>2, <1>3, <1>5
<1>7. DOMAIN procs \subseteq Pids
  BY DEF TreeInv
<1>8. ASSUME NEW c \in DOMAIN procs, c # q
      PROVE  Holds(procs[c], pipes'[c])
  <2>1. CASE c = x
    <3>1. procs[c].at = "second"
      BY <1>8, <2>1, ParentIs
    <3>2. Holds(procs[c], pipes[c])
      BY <1>2
    <3> QED  BY <3>1, <3>2 DEF Holds
  <2>2. CASE c # x
    BY <1>2, <1>3, <1>7, <2>2
  <2> QED  BY <2>1, <2>2
<1>9. ASSUME NEW c \in DOMAIN procs, c # q, procs[c].parent # 1
      PROVE  Feeds(procs[c], pipes'[procs[c].parent])
  <2>1. procs[c].parent \in Pids /\ procs[c].parent # x
    BY <1>9, ParentIs
  <2> QED  BY <1>2, <1>3, <1>9, <2>1
<1>10. \A c \in DOMAIN procs :
         /\ Holds(procs'[c], pipes'[c])
         /\ procs'[c].parent # 1 => Feeds(procs'[c], pipes'[procs'[c].parent])
  BY <1>1, <1>8, <1>9
<1> QED  BY <1>1, <1>4, <1>6, <1>10 DEF PipeInv

\* A step that leaves the pipes alone, as a change of one pipe.
LEMMA PipesSame ==
  ASSUME PipeInv, UNCHANGED pipes, NEW q \in Pids
  PROVE  pipes[q] \in Nat /\ pipes' = [pipes EXCEPT ![q] = pipes[q]]
  BY DEF PipeInv

\* A child makes no use of a pipe.
LEMMA ChildHoldsNone ==
  ASSUME TreeInv, PipeInv, NEW q \in DOMAIN procs, procs[q].at \in {"child", "first", "zombie"}
  PROVE  q \in Pids /\ pipes[q] = 0
         /\ (procs[q].at \in {"child", "first"} => procs[q].got = 0)
  BY DEF TreeInv, PipeInv, Holds

\* A command without a pipe starts with nothing in one.
LEMMA PlainPipes ==
  ASSUME TreeInv, PipeInv, SoundInv, NEW q \in DOMAIN procs, Sh!ExecPlain(q)
  PROVE  PipeInv'
<1> DEFINE p == procs[q]
           r == PlainExec(q)
<1>1. p.at = "child" /\ p.parent = 1 /\ UNCHANGED pipes /\ DOMAIN p = Fields
  BY DEF Sh!ExecPlain, TreeInv
<1>2. q \in Pids /\ pipes[q] = 0 /\ p.got = 0 /\ p.mem.file # "pipe"
  BY <1>1, ChildHoldsNone DEF SoundInv, NamesInv
<1>3. /\ Became(q, r) /\ r.at \in {"command", "zombie"} /\ r.parent = 1
      /\ r.at = "command" => /\ r.left \in Nat /\ r.got = 0 /\ r.in # "pipe" /\ r.out # "pipe"
  <2>1. Became(q, r)
    BY ExecsAre
  <2>2. /\ r.parent = p.parent /\ r.at \in {"command", "zombie"}
        /\ r.at = "command" =>
             /\ \E word \in DOMAIN Output : r.left = Output[word]
             /\ r.got = p.got
             /\ r.in = IF Sh!Has(p.mem.cmd, "<") THEN p.mem.file ELSE "terminal"
             /\ r.out = IF Sh!Has(p.mem.cmd, ">") THEN p.mem.file ELSE "terminal"
    BY <1>1, ExecuteIs DEF PlainExec
  <2> HIDE DEF r, p
  <2> QED  BY <1>1, <1>2, <2>1, <2>2, OutputIs
<1> HIDE DEF r
<1>4. Holds(r, pipes'[q])
  BY <1>1, <1>2, <1>3 DEF Holds
<1> QED  BY <1>1, <1>2, <1>3, <1>4, PipesSame, PipeMoves

\* The first command starts with the pipe empty and everything to write.
LEMMA FirstPipes ==
  ASSUME TreeInv, PipeInv, SoundInv, NEW q \in DOMAIN procs, Sh!ExecFirst(q)
  PROVE  PipeInv'
<1> DEFINE p == procs[q]
           r == FirstExec(q)
           i == Sh!Parsed(p.line)["|"]
           argv == Sh!ArgvFrom([p.mem.args EXCEPT ![p.mem.cmd["|"]] = NULL], 0)
<1>1. /\ p.at = "first" /\ p.parent # 1 /\ UNCHANGED pipes /\ DOMAIN p = Fields
      /\ p.line \in Lines /\ p.line # <<>>
  BY PidsAre DEF Sh!ExecFirst, TreeInv
<1>2. q \in Pids /\ pipes[q] = 0 /\ p.got = 0 /\ pipes[p.parent] = 0
  BY <1>1, ChildHoldsNone DEF PipeInv, Feeds
<1>3. Split(p.mem.args, p.mem.prompt_cnt, p.mem.tmp_ptr, p.mem.cmd, p.line)
  BY <1>1 DEF SoundInv, MemInv, Remembers
<1>4. argv = SubSeq(p.line, 1, i) /\ i \in 0..Len(p.line) /\ (i = 0 => p.line[1] = "|")
  <2> DEFINE a == p.mem.args
             n == p.mem.prompt_cnt
             t == p.mem.tmp_ptr
             d == p.mem.cmd
             line == p.line
  <2>1. line \in Lines /\ Split(a, n, t, d, line)
    BY <1>1, <1>3
  <2>2. argv = FirstArgv(a, d["|"])
    BY DEF FirstArgv
  <2> HIDE DEF a, n, t, d, line, argv
  <2>3. FirstArgv(a, d["|"]) = SubSeq(line, 1, d["|"])
    BY <2>1, SplitArgs
  <2>4. d = Sh!Parsed(line) /\ Sh!Has(d, "|")
    BY <2>1 DEF Split
  <2>5. d["|"] \in 0..(Len(line)-1) /\ line[d["|"]+1] = "|" /\ Len(line) \in Nat
    BY <2>1, <2>4, BarIs, LineIs
  <2>6. d["|"] \in 0..Len(line) /\ (d["|"] = 0 => line[1] = "|")
    BY <2>5
  <2> QED  BY <2>2, <2>3, <2>4, <2>6 DEF line
<1>5. /\ Became(q, r) /\ r.parent = p.parent /\ r.line = p.line /\ r.at \in {"command", "zombie"}
      /\ r.at = "command" => /\ argv # <<>> /\ argv[1] \in DOMAIN Output
                             /\ r.left = Output[argv[1]] /\ r.got = 0
                             /\ r.in = "terminal" /\ r.out = "pipe"
      /\ r.at = "zombie" => ~(argv # <<>> /\ argv[1] \in DOMAIN Output)
  BY <1>1, <1>2, ExecsAre, ExecuteIs DEF FirstExec
<1> HIDE DEF r, argv, i
<1>6. /\ argv # <<>> => argv[1] = p.line[1]
      /\ argv = <<>> => p.line[1] = "|"
  BY <1>1, <1>4, HeadIs
<1>7. r.at = "command" => r.left = OutputOf(p.line[1]) /\ r.left \in Nat
  BY <1>5, <1>6, OutputIs DEF OutputOf
<1>8. r.at = "zombie" => OutputOf(p.line[1]) = 0
  BY <1>5, <1>6, OutputIs DEF OutputOf
<1>9. Holds(r, pipes'[q])
  BY <1>1, <1>2, <1>5, <1>7 DEF Holds
<1>10. Feeds(r, pipes'[r.parent])
  BY <1>1, <1>2, <1>5, <1>7, <1>8 DEF Feeds
<1> QED  BY <1>1, <1>2, <1>5, <1>9, <1>10, PipesSame, PipeMoves

\* A child that cannot make a pipe leaves none.
LEMMA FailedPipes ==
  ASSUME TreeInv, PipeInv, NEW q \in DOMAIN procs, Sh!PipeFailed(q)
  PROVE  PipeInv'
<1> DEFINE r == Sh!Zombie(q)
<1>1. procs[q].at = "child" /\ procs[q].parent = 1 /\ UNCHANGED pipes
  BY DEF Sh!PipeFailed, TreeInv
<1>2. q \in Pids /\ pipes[q] = 0
  BY <1>1, ChildHoldsNone
<1>3. Became(q, r) /\ r.at = "zombie" /\ r.parent = 1
  BY <1>1, ProgramsAre DEF Became
<1> HIDE DEF r
<1>4. Holds(r, pipes'[q])
  BY <1>1, <1>2, <1>3 DEF Holds
<1> QED  BY <1>1, <1>2, <1>3, <1>4, PipesSame, PipeMoves

\* At its end the first command has written everything.
LEMMA FinishPipes ==
  ASSUME TreeInv, PipeInv, NEW q \in DOMAIN procs, Sh!Finish(q)
  PROVE  PipeInv'
<1> DEFINE p == procs[q]
           r == Sh!Zombie(q)
<1>1. p.at = "command" /\ p.left = 0 /\ pipes' = [pipes EXCEPT ![q] = 0]
  BY DEF Sh!Finish
<1>2. q \in Pids /\ pipes = [c \in Pids |-> pipes[c]] /\ \A c \in Pids : pipes[c] \in Nat
  BY DEF TreeInv, PipeInv
<1>3. Became(q, r) /\ r.at = "zombie" /\ r.parent = p.parent /\ r.line = p.line
  BY ProgramsAre DEF Became
<1>4. pipes'[q] = 0 /\ \A c \in Pids : c # q => pipes'[c] = pipes[c]
  BY <1>1, <1>2
<1> HIDE DEF r
<1>5. Holds(r, pipes'[q])
  BY <1>3, <1>4 DEF Holds
<1>6. ASSUME r.parent # 1
      PROVE  Feeds(r, pipes'[r.parent])
  <2>1. Feeds(p, pipes[p.parent]) /\ p.parent \in Pids /\ p.parent # q
    BY <1>3, <1>6, ParentIs DEF PipeInv
  <2>2. pipes[p.parent] + 0 = OutputOf(p.line[1]) /\ pipes[p.parent] \in Nat
    BY <1>1, <1>2, <2>1 DEF Feeds
  <2>3. pipes'[r.parent] = OutputOf(r.line[1])
    BY <1>3, <1>4, <2>1, <2>2
  <2> QED  BY <1>3, <2>3 DEF Feeds
<1> QED  BY <1>1, <1>2, <1>3, <1>5, <1>6, PipeMoves

\* A unit goes from the pipe to the second command.
LEMMA ReadPipes ==
  ASSUME TreeInv, PipeInv, NEW q \in DOMAIN procs, Sh!ReadUnit(q)
  PROVE  PipeInv'
<1> DEFINE p == procs[q]
           r == [p EXCEPT !.got = @ + 1]
           n == pipes[q] - 1
<1>1. p.at = "command" /\ p.in = "pipe" /\ pipes[q] > 0 /\ pipes' = [pipes EXCEPT ![q] = n]
  BY DEF Sh!ReadUnit, Sh!Drains
<1>2. /\ q \in Pids /\ pipes[q] \in Nat /\ DOMAIN p = Fields
      /\ pipes = [c \in Pids |-> pipes[c]] /\ Holds(p, pipes[q])
  BY DEF TreeInv, PipeInv
<1>3. /\ p.left \in Nat /\ p.got \in Nat /\ p.parent = 1 /\ p.out # "pipe"
      /\ p.got + pipes[q] = OutputOf(p.line[1])
  BY <1>1, <1>2 DEF Holds
<1>4. Became(q, r)
  BY ProgramsAre
<1>5. /\ r.at = p.at /\ r.left = p.left /\ r.parent = p.parent /\ r.out = p.out
      /\ r.line = p.line /\ r.in = p.in /\ r.got = p.got + 1
  BY <1>2 DEF Fields
<1>6. pipes'[q] = n /\ n \in Nat
  BY <1>1, <1>2
<1> HIDE DEF r, p
<1>7. r.got \in Nat /\ r.got + n = OutputOf(r.line[1])
  BY <1>1, <1>2, <1>3, <1>5
<1>8. Holds(r, n)
  BY <1>1, <1>3, <1>5, <1>7 DEF Holds
<1>9. r.parent = 1 /\ p.at # "second"
  BY <1>1, <1>3, <1>5
<1> HIDE DEF n
<1> QED  BY <1>1, <1>2, <1>4, <1>6, <1>8, <1>9, PipeMoves DEF p

\* A unit goes from the first command into the pipe.
LEMMA WritePipes ==
  ASSUME TreeInv, PipeInv, NEW q \in DOMAIN procs, Sh!WriteUnit(q)
  PROVE  PipeInv'
<1> DEFINE p == procs[q]
           r == [p EXCEPT !.left = @ - 1]
<1>1. p.at = "command" /\ p.left > 0
  BY DEF Sh!WriteUnit
<1>2. /\ q \in Pids /\ pipes[q] \in Nat /\ DOMAIN p = Fields
      /\ pipes = [c \in Pids |-> pipes[c]] /\ Holds(p, pipes[q])
  BY DEF TreeInv, PipeInv
<1>3. p.left \in Nat
  BY <1>1, <1>2 DEF Holds
<1>4. Became(q, r)
  BY ProgramsAre
<1>5. /\ r.at = p.at /\ r.got = p.got /\ r.parent = p.parent /\ r.out = p.out
      /\ r.line = p.line /\ r.in = p.in /\ r.left = p.left - 1
  BY <1>2 DEF Fields
<1> HIDE DEF r, p
<1>6. r.left \in Nat
  BY <1>1, <1>3, <1>5
<1>7. Holds(r, pipes[q])
  BY <1>1, <1>2, <1>5, <1>6 DEF Holds
<1>8. CASE p.out = "pipe"
  <2> DEFINE x == p.parent
             n == pipes[x] + 1
  <2>1. x # 1
    BY <1>1, <1>2, <1>8 DEF Holds
  <2>2. x \in Pids /\ x # q
    BY <2>1, ParentIs DEF p
  <2>3. pipes[x] \in Nat
    BY <2>2 DEF PipeInv
  <2>4. Feeds(p, pipes[x])
    BY <2>1 DEF PipeInv, p
  <2>5. pipes' = [pipes EXCEPT ![x] = n]
    BY <1>1, <1>8 DEF Sh!WriteUnit, Sh!Fills, p
  <2>6. pipes'[x] = n /\ pipes'[q] = pipes[q] /\ n \in Nat
    BY <1>2, <2>2, <2>3, <2>5
  <2>7. n + r.left = OutputOf(r.line[1])
    <3>1. pipes[x] + p.left = OutputOf(p.line[1])
      BY <1>1, <2>4 DEF Feeds
    <3>2. (pipes[x] + 1) + (p.left - 1) = pipes[x] + p.left
      BY <1>3, <2>3
    <3> QED  BY <1>5, <3>1, <3>2
  <2>8. Feeds(r, n)
    BY <1>1, <1>5, <1>8, <2>7 DEF Feeds
  <2>9. r.parent = x /\ p.at # "second" /\ Holds(r, pipes'[q]) /\ Feeds(r, pipes'[x])
    BY <1>1, <1>5, <1>7, <2>6, <2>8
  <2> HIDE DEF n
  <2>10. x = procs[q].parent /\ procs[q].at # "second"
    BY <2>9 DEF p
  <2> HIDE DEF x
  <2> QED  BY <1>4, <2>1, <2>2, <2>5, <2>6, <2>9, <2>10, PipeMoves
<1>9. CASE p.out # "pipe"
  <2>1. UNCHANGED pipes
    BY <1>9 DEF Sh!WriteUnit, Sh!Fills, p
  <2>2. r.parent = 1
    <3>1. p.parent # 1 => Feeds(p, pipes[p.parent])
      BY DEF PipeInv, p
    <3> QED  BY <1>1, <1>5, <1>9, <3>1 DEF Feeds
  <2>3. procs[q].at # "second"
    BY <1>1 DEF p
  <2> QED  BY <1>2, <1>4, <1>7, <2>1, <2>2, <2>3, PipesSame, PipeMoves
<1> QED  BY <1>8, <1>9

\* A new pipe is empty.
LEMMA MakePipes ==
  ASSUME TreeInv, PipeInv, NEW q \in DOMAIN procs, Sh!MakePipe(q)
  PROVE  PipeInv'
<1> DEFINE n == NewPid
<1>1. /\ procs[q].at = "child" /\ pipes' = pipes
      /\ n \in Pids /\ n \notin DOMAIN procs /\ DOMAIN procs' = DOMAIN procs \cup {n}
      /\ \A c \in DOMAIN procs : c # q => procs'[c] = procs[c]
      /\ procs'[n].at = "first" /\ procs'[n].parent = q
      /\ procs'[q].at = "second" /\ procs'[q].parent = procs[q].parent
      /\ procs'[q].got = procs[q].got
  BY PipeIs
<1>2. procs'[n].got = 0
  <2> DEFINE b == Both(procs[q].mem)
             first == [Sh!Child("first", q, procs[q].line, b) EXCEPT !.holds = TRUE]
             second == [procs[q] EXCEPT !.at = "second", !.mem = b, !.holds = TRUE]
  <2>1. procs' = Sh!With([procs EXCEPT ![q] = second], n, first)
    BY DEF Sh!MakePipe, Both, NewPid
  <2>2. first.got = 0
    BY DEF Sh!Child
  <2> HIDE DEF first, second, n
  <2>3. procs'[n] = first
    BY <2>1 DEF Sh!With
  <2> QED  BY <2>2, <2>3
<1> HIDE DEF n
<1>3. q \in Pids /\ pipes[q] = 0 /\ procs[q].got = 0 /\ procs[q].parent = 1
  BY <1>1, ChildHoldsNone DEF TreeInv
<1>4. pipes[n] = 0
  BY <1>1 DEF PipeInv
<1>5. Holds(procs'[n], pipes[n]) /\ Feeds(procs'[n], pipes[q]) /\ Holds(procs'[q], pipes[q])
  BY <1>1, <1>2, <1>3, <1>4 DEF Holds, Feeds
<1>6. \A c \in DOMAIN procs' :
        /\ Holds(procs'[c], pipes[c])
        /\ procs'[c].parent # 1 => Feeds(procs'[c], pipes[procs'[c].parent])
  <2>1. \A c \in DOMAIN procs :
          /\ Holds(procs[c], pipes[c])
          /\ procs[c].parent # 1 => Feeds(procs[c], pipes[procs[c].parent])
    BY DEF PipeInv
  <2> QED  BY <1>1, <1>3, <1>5, <2>1
<1>7. \A c \in Pids : pipes[c] \in Nat /\ (pipes[c] # 0 => c \in DOMAIN procs)
  BY DEF PipeInv
<1> QED  BY <1>1, <1>6, <1>7 DEF PipeInv

\* The second command finds in the pipe what the first has written.
LEMMA SecondPipes ==
  ASSUME TreeInv, PipeInv, NEW q \in DOMAIN procs, Sh!ExecSecond(q)
  PROVE  PipeInv'
<1> DEFINE r == SecondExec(q)
           p == procs[q]
           K == Sh!ChildrenOf(q)
<1>1. /\ p.at = "second" /\ DOMAIN procs' = DOMAIN procs \ K /\ q \notin K
      /\ procs'[q] = r /\ \A c \in DOMAIN procs' : c # q => procs'[c] = procs[c]
      /\ pipes' = IF r.at = "zombie" THEN [pipes EXCEPT ![q] = 0] ELSE pipes
  BY SecondIs DEF SecondExec
<1>2. PICK c \in K : procs[c].at = "zombie" /\ K = {c}
  BY SecondIs
<1>3. c \in DOMAIN procs /\ procs[c].parent = q /\ q # 1
  BY ChildrenAre
<1>4. p.parent = 1 /\ p.line = procs[c].line
  BY <1>1, <1>3 DEF TreeInv
<1>5. pipes[q] = OutputOf(p.line[1]) /\ p.got = 0
  <2>1. Feeds(procs[c], pipes[q]) /\ Holds(p, pipes[q])
    BY <1>3 DEF PipeInv
  <2> QED  BY <1>1, <1>2, <1>4, <2>1 DEF Feeds, Holds
<1>6. pipes[c] = 0 /\ c \in Pids /\ q \in Pids
  BY <1>2, <1>3, ChildHoldsNone DEF TreeInv
<1>7. /\ pipes = [d \in Pids |-> pipes[d]]
      /\ \A d \in Pids : pipes[d] \in Nat /\ (pipes[d] # 0 => d \in DOMAIN procs)
  BY DEF PipeInv
<1>8. /\ r.parent = 1 /\ r.line = p.line /\ r.at \in {"command", "zombie"}
      /\ r.at = "command" => r.left \in Nat /\ r.got = 0 /\ r.in = "pipe" /\ r.out = "terminal"
  <2>1. /\ r.parent = p.parent /\ r.line = p.line /\ r.at \in {"command", "zombie"}
        /\ r.at = "command" =>
             /\ \E word \in DOMAIN Output : r.left = Output[word]
             /\ r.got = p.got /\ r.in = "pipe" /\ r.out = "terminal"
    BY SecondExecIs
  <2> HIDE DEF r, p
  <2> QED  BY <1>4, <1>5, <2>1, OutputIs
<1>9. K = {d \in DOMAIN procs : procs[d].parent = q}
  BY DEF Sh!ChildrenOf
<1> HIDE DEF r, p, K
<1>10. /\ pipes' = [d \in Pids |-> pipes'[d]]
       /\ \A d \in Pids : pipes'[d] = IF d = q /\ r.at = "zombie" THEN 0 ELSE pipes[d]
  BY <1>1, <1>6, <1>7
<1>11. \A d \in Pids : pipes'[d] \in Nat /\ (pipes'[d] # 0 => d \in DOMAIN procs')
  BY <1>1, <1>2, <1>6, <1>7, <1>10
<1>12. Holds(r, pipes'[q])
  <2>1. CASE r.at = "zombie"
    BY <1>6, <1>10, <2>1 DEF Holds
  <2>2. CASE r.at = "command"
    <3>1. pipes'[q] = OutputOf(r.line[1]) /\ pipes'[q] \in Nat
      BY <1>5, <1>6, <1>8, <1>10, <1>11, <2>2
    <3>2. 0 + pipes'[q] = OutputOf(r.line[1])
      BY <3>1
    <3> QED  BY <1>8, <2>2, <3>2 DEF Holds
  <2> QED  BY <1>8, <2>1, <2>2
<1>13. ASSUME NEW d \in DOMAIN procs', d # q
       PROVE  /\ Holds(procs'[d], pipes'[d])
              /\ procs'[d].parent # 1 => Feeds(procs'[d], pipes'[procs'[d].parent])
  <2>1. d \in DOMAIN procs /\ procs'[d] = procs[d] /\ procs[d].parent # q /\ d \in Pids
    BY <1>1, <1>9, <1>13 DEF TreeInv
  <2>2. pipes'[d] = pipes[d]
    BY <1>10, <1>13, <2>1
  <2>3. procs[d].parent # 1 => pipes'[procs[d].parent] = pipes[procs[d].parent]
    BY <1>10, <2>1, ParentIs
  <2>4. /\ Holds(procs[d], pipes[d])
        /\ procs[d].parent # 1 => Feeds(procs[d], pipes[procs[d].parent])
    BY <2>1 DEF PipeInv
  <2> QED  BY <2>1, <2>2, <2>3, <2>4
<1>14. \A d \in DOMAIN procs' :
         /\ Holds(procs'[d], pipes'[d])
         /\ procs'[d].parent # 1 => Feeds(procs'[d], pipes'[procs'[d].parent])
  BY <1>1, <1>8, <1>12, <1>13
<1> QED  BY <1>10, <1>11, <1>14 DEF PipeInv

\* The new child has no pipe yet.
LEMMA ForkPipes ==
  ASSUME PipeInv, Sh!Fork
  PROVE  PipeInv'
<1> DEFINE n == NewPid
           r == Sh!Child("child", 1, typed, Sh!Copy)
<1>1. /\ pipes' = pipes /\ n \in Pids /\ n \notin DOMAIN procs
      /\ DOMAIN procs' = DOMAIN procs \cup {n}
      /\ procs'[n] = r /\ \A q \in DOMAIN procs : procs'[q] = procs[q]
  BY ForkIs
<1>2. r.at = "child" /\ r.parent = 1 /\ r.got = 0
  BY DEF Sh!Child
<1> HIDE DEF n, r
<1>3. Holds(r, pipes[n])
  BY <1>1, <1>2 DEF Holds, PipeInv
<1>4. \A c \in DOMAIN procs' :
        /\ Holds(procs'[c], pipes[c])
        /\ procs'[c].parent # 1 => Feeds(procs'[c], pipes[procs'[c].parent])
  BY <1>1, <1>2, <1>3 DEF PipeInv
<1> QED  BY <1>1, <1>4 DEF PipeInv

\* The process that is reaped had none any more.
LEMMA AwaitPipes ==
  ASSUME TypedInv, ArgsInv, TreeInv, ForegroundInv, PipeInv, Sh!Await
  PROVE  PipeInv'
<1>1. pipes' = pipes
  BY DEF Sh!Await
<1>2. CASE procs' = procs
  BY <1>1, <1>2 DEF PipeInv
<1>3. CASE procs[child].at = "zombie" /\ procs' = Sh!Reap(child)
  <2>1. /\ DOMAIN procs' = DOMAIN procs \ {child}
        /\ \A c \in DOMAIN procs' : procs'[c] = procs[c]
    BY <1>3 DEF Sh!Reap
  <2>2. child \in DOMAIN procs => pipes[child] = 0
    BY <1>3, ChildHoldsNone
  <2> QED  BY <1>1, <2>1, <2>2 DEF PipeInv
<1> QED  BY <1>2, <1>3 DEF Sh!Await

\* Steps that concern neither processes nor pipes.
LEMMA PipesKept == PipeInv /\ UNCHANGED <<procs, pipes>> => PipeInv'
  BY DEF PipeInv

\* What is in the pipes is inductive, given the rest.
LEMMA StepPipes == PromptInv /\ SoundInv /\ PipeInv /\ [Next]_vars => PipeInv'
<1> SUFFICES ASSUME PromptInv, SoundInv, PipeInv, [Next]_vars
             PROVE  PipeInv'
  OBVIOUS
<1>0. TypedInv /\ ArgsInv /\ TreeInv /\ ForegroundInv
  BY DEF PromptInv
<1>1. CASE Type \/ Kernel \/ UNCHANGED vars
  <2>1. UNCHANGED <<procs, pipes>>
    BY <1>1 DEF Type, Sh!TakeLine, Sh!Nothing, Sh!Exit, Sh!NoHistory, Sh!Repeat, Sh!Command,
       Sh!Typing, Kernel, vars, shellVars
  <2> QED  BY <2>1, PipesKept
<1>2. CASE RunShell
  <2>1. CASE Sh!OpenFailed \/ Sh!ForkFailed \/ Sh!Open
    <3>1. UNCHANGED <<procs, pipes>>
      BY <2>1 DEF Sh!OpenFailed, Sh!ForkFailed, Sh!Open
    <3> QED  BY <3>1, PipesKept
  <2>2. CASE Sh!Fork
    BY <2>2, ForkPipes
  <2>3. CASE Sh!Await
    BY <1>0, <2>3, AwaitPipes
  <2> QED  BY <1>2, <2>1, <2>2, <2>3 DEF RunShell, Sh!ShellStep
<1>3. ASSUME NEW q \in Pids, Process(q)
      PROVE  PipeInv'
  <2>1. CASE UNCHANGED shellVars
    BY <2>1, PipesKept DEF shellVars
  <2>2. ASSUME q \in DOMAIN procs, Sh!ChildStep(q) \/ Sh!ProgramStep(q)
        PROVE  PipeInv'
    BY <1>0, <2>2, PlainPipes, FirstPipes, FailedPipes, FinishPipes, ReadPipes, WritePipes,
       MakePipes, SecondPipes DEF Sh!ChildStep, Sh!ProgramStep
  <2> QED  BY <1>3, <2>1, <2>2, ProcessIs
<1> QED  BY <1>1, <1>2, <1>3 DEF Next

ShellInv == PromptInv /\ SoundInv /\ PipeInv

\* The whole invariant holds at the start,
LEMMA InitShell == Init => ShellInv
<1> SUFFICES ASSUME Init  PROVE ShellInv
  OBVIOUS
<1>1. PromptInv /\ SoundInv
  BY PromptInit, InitSound
<1>2. procs = <<>> /\ pipes = [q \in Pids |-> 0]
  BY PidsAre DEF Init, Sh!Init
<1>3. DOMAIN procs = {}
  BY <1>2
<1>4. PipeInv
  BY <1>2, <1>3 DEF PipeInv
<1> QED  BY <1>1, <1>4 DEF ShellInv

\* and every step keeps it.
LEMMA StepShell == ShellInv /\ [Next]_vars => ShellInv'
  BY StepPrompt, StepSound, StepPipes DEF ShellInv

\* The second command runs only when its child is gone.
LEMMA PipesFollow == ShellInv => PipelineDelivers
<1> SUFFICES ASSUME ShellInv, NEW q \in Pids, Runs(q), procs[q].in = "pipe"
             PROVE  /\ Sh!ChildrenOf(q) = {}
                    /\ procs[q].got + pipes[q] = OutputOf(procs[q].line[1])
  BY DEF PipelineDelivers
<1>1. q \in DOMAIN procs /\ procs[q].at = "command" /\ TreeInv /\ PipeInv
  BY DEF Runs, ShellInv, PromptInv
<1>2. Sh!ChildrenOf(q) = {}
  <2>1. ASSUME NEW c \in Sh!ChildrenOf(q)
        PROVE  FALSE
    BY <1>1, ChildrenAre
  <2> QED  BY <2>1
<1>3. Holds(procs[q], pipes[q])
  BY <1>1 DEF PipeInv
<1> QED  BY <1>1, <1>2, <1>3 DEF Holds

\* What the first command of a pipeline wrote is read by the second or waits for
\* it, and the second runs only after the first: for every set of lines and
\* programs and every size of the pipe.
THEOREM PipelinesDeliver == Spec => []PipelineDelivers
<1> QED  BY InitShell, StepShell, PipesFollow, PTL DEF Spec

-----------------------------------------------------------------------------
(* What a line means. *)

\* The words up to the first symbol, or all of them.
LEMMA WordsUpTo ==
  ASSUME NEW line, NEW a \in Nat, NEW b \in Nat
  PROVE  /\ \A m \in a..b :
              (line[m] \in Sh!Symbols /\ \A k \in a..b : line[k] \in Sh!Symbols => m <= k)
                => Words(line, a, b) = SubSeq(line, a, m-1)
         /\ (\A k \in a..b : line[k] \notin Sh!Symbols) => Words(line, a, b) = SubSeq(line, a, b)
<1> DEFINE cut == {k \in a..b : line[k] \in Sh!Symbols}
           least == CHOOSE k \in cut : \A l \in cut : k <= l
<1>1. Words(line, a, b) = SubSeq(line, a, IF cut = {} THEN b ELSE least - 1)
  BY DEF Words
<1>2. ASSUME NEW m \in a..b, line[m] \in Sh!Symbols,
             \A k \in a..b : line[k] \in Sh!Symbols => m <= k
      PROVE  Words(line, a, b) = SubSeq(line, a, m-1)
  <2>1. m \in cut /\ \A l \in cut : m <= l
    BY <1>2
  <2>2. \A x \in cut : (\A l \in cut : x <= l) => x = m
    BY <2>1
  <2>3. least = m /\ cut # {}
    BY <2>1, <2>2
  <2> HIDE DEF cut, least
  <2> QED  BY <1>1, <2>3
<1>3. ASSUME \A k \in a..b : line[k] \notin Sh!Symbols
      PROVE  Words(line, a, b) = SubSeq(line, a, b)
  <2>1. cut = {}
    BY <1>3
  <2> HIDE DEF cut, least
  <2> QED  BY <1>1, <2>1
<1> QED  BY <1>2, <1>3

\* In a supported line each symbol is where the code looks for it, and the first
\* of them is the end of the arguments.
LEMMA PlacesAre ==
  ASSUME NEW line \in Lines, Supported(line)
  PROVE  LET c == Sh!Parsed(line)
         IN /\ \A s \in {"<", ">", "|"} :
                 /\ Sh!Has(c, s) <=> \E k \in DOMAIN line : line[k] = s
                 /\ Sh!Has(c, s) => Where(line, s) = c[s] + 1 /\ c[s] + 1 \in 1..Len(line)
                                    /\ line[c[s]+1] = s
                                    /\ \A k \in DOMAIN line : line[k] = s => k = c[s] + 1
            /\ Sh!Has(c, "&") <=> \E k \in DOMAIN line : line[k] = "&"
            /\ \A k \in DOMAIN line : line[k] = "&" => k = Len(line)
            /\ (Sh!Has(c, "<") /\ Sh!Has(c, ">")) => c["<"] < c[">"]
<1> DEFINE c == Sh!Parsed(line)
<1>1. Len(line) \in Nat /\ DOMAIN line = 1..Len(line)
  BY LineIs
<1>2. /\ \A k \in DOMAIN line : line[k] = "&" => k = Len(line)
      /\ \A k, l \in DOMAIN line : line[k] = line[l] /\ line[k] \in {"<", ">", "|"} => k = l
      /\ \A k, l \in DOMAIN line : line[k] = "<" /\ line[l] = ">" => k < l
  BY DEF Supported
<1>3. \A s \in Sh!Symbols :
         /\ Sh!Has(c, s) <=> \E k \in 1..Len(line) : line[k] = s
         /\ Sh!Has(c, s) => c[s] \in 0..(Len(line)-1) /\ line[c[s]+1] = s
  BY ParsedIs
<1> HIDE DEF c
<1>4. ASSUME NEW s \in {"<", ">", "|"}
      PROVE  /\ Sh!Has(c, s) <=> \E k \in DOMAIN line : line[k] = s
             /\ Sh!Has(c, s) => /\ Where(line, s) = c[s] + 1 /\ c[s] + 1 \in 1..Len(line)
                                /\ line[c[s]+1] = s
                                /\ \A k \in DOMAIN line : line[k] = s => k = c[s] + 1
  <2>1. s \in Sh!Symbols
    BY SymbolsAre
  <2>2. Sh!Has(c, s) => c[s] + 1 \in DOMAIN line /\ line[c[s]+1] = s
    BY <1>1, <1>3, <2>1
  <2>3. Sh!Has(c, s) => \A k \in DOMAIN line : line[k] = s => k = c[s] + 1
    BY <1>2, <2>2
  <2>4. Sh!Has(c, s) => Where(line, s) = c[s] + 1
    BY <2>2, <2>3 DEF Where
  <2> QED  BY <1>1, <1>3, <2>1, <2>2, <2>3, <2>4
<1>5. Sh!Has(c, "&") <=> \E k \in DOMAIN line : line[k] = "&"
  BY <1>1, <1>3, SymbolsAre
<1>6. (Sh!Has(c, "<") /\ Sh!Has(c, ">")) => c["<"] < c[">"]
  <2>1. \A s \in {"<", ">"} : Sh!Has(c, s) => c[s] \in 0..(Len(line)-1)
    BY <1>3, SymbolsAre
  <2>2. (Sh!Has(c, "<") /\ Sh!Has(c, ">")) => c["<"] + 1 < c[">"] + 1
    BY <1>1, <1>2, <1>4
  <2> QED  BY <1>1, <2>1, <2>2
<1> QED  BY <1>2, <1>4, <1>5, <1>6 DEF c

\* Without a pipe, the first symbol is where the code puts the NULL.
LEMMA PlainWords ==
  ASSUME NEW line \in Lines, Supported(line), ~Sh!Has(Sh!Parsed(line), "|")
  PROVE  Words(line, 1, Len(line)) = SubSeq(line, 1, End(line))
<1> DEFINE c == Sh!Parsed(line)
           n == Len(line)
<1>1. n \in Nat /\ DOMAIN line = 1..n
  BY LineIs
<1>2. /\ \A s \in {"<", ">", "|"} :
           /\ Sh!Has(c, s) <=> \E k \in DOMAIN line : line[k] = s
           /\ Sh!Has(c, s) => /\ c[s] + 1 \in 1..n /\ line[c[s]+1] = s
                              /\ \A k \in DOMAIN line : line[k] = s => k = c[s] + 1
      /\ Sh!Has(c, "&") <=> \E k \in DOMAIN line : line[k] = "&"
      /\ \A k \in DOMAIN line : line[k] = "&" => k = n
      /\ (Sh!Has(c, "<") /\ Sh!Has(c, ">")) => c["<"] < c[">"]
  BY PlacesAre
<1>3. \A s \in {"<", ">"} : Sh!Has(c, s) => c[s] \in 0..(n-1)
  BY ParsedIs, SymbolsAre
<1>4. End(line) = IF Sh!Has(c, "<") THEN c["<"]
                  ELSE IF Sh!Has(c, ">") THEN c[">"]
                  ELSE IF Sh!Has(c, "&") THEN n - 1 ELSE n
  BY DEF End
<1>5. ~Sh!Has(c, "|")
  OBVIOUS
<1> HIDE DEF c, n
<1>6. /\ \A m \in 1..n :
           (line[m] \in Sh!Symbols /\ \A k \in 1..n : line[k] \in Sh!Symbols => m <= k)
             => Words(line, 1, n) = SubSeq(line, 1, m-1)
      /\ (\A k \in 1..n : line[k] \notin Sh!Symbols) => Words(line, 1, n) = SubSeq(line, 1, n)
  BY <1>1, WordsUpTo
<1>7. \A k \in 1..n : line[k] \in Sh!Symbols =>
        line[k] = "<" \/ line[k] = ">" \/ line[k] = "&"
  BY <1>1, <1>2, <1>5, SymbolsAre
<1>8. CASE Sh!Has(c, "<")
  <2> DEFINE m == c["<"] + 1
  <2>1. m \in 1..n /\ line[m] \in Sh!Symbols /\ m - 1 = c["<"]
    BY <1>1, <1>2, <1>3, <1>8, SymbolsAre
  <2>2. \A k \in 1..n : line[k] \in Sh!Symbols => m <= k
    <3> SUFFICES ASSUME NEW k \in 1..n, line[k] \in Sh!Symbols  PROVE m <= k
      OBVIOUS
    <3>1. CASE line[k] = "<"
      BY <1>1, <1>2, <1>8, <3>1, <2>1
    <3>2. CASE line[k] = ">"
      <4>1. Sh!Has(c, ">") /\ k = c[">"] + 1
        BY <1>1, <1>2, <3>2
      <4> QED  BY <1>1, <1>2, <1>3, <1>8, <4>1
    <3>3. CASE line[k] = "&"
      BY <1>1, <1>2, <2>1, <3>3
    <3> QED  BY <1>7, <3>1, <3>2, <3>3
  <2> HIDE DEF m
  <2>3. Words(line, 1, n) = SubSeq(line, 1, m-1)
    BY <1>6, <2>1, <2>2
  <2> QED  BY <1>4, <1>8, <2>1, <2>3 DEF n
<1>9. CASE ~Sh!Has(c, "<") /\ Sh!Has(c, ">")
  <2> DEFINE m == c[">"] + 1
  <2>1. m \in 1..n /\ line[m] \in Sh!Symbols /\ m - 1 = c[">"]
    BY <1>1, <1>2, <1>3, <1>9, SymbolsAre
  <2>2. \A k \in 1..n : line[k] \in Sh!Symbols => m <= k
    <3> SUFFICES ASSUME NEW k \in 1..n, line[k] \in Sh!Symbols  PROVE m <= k
      OBVIOUS
    <3>1. CASE line[k] = "<"
      BY <1>1, <1>2, <1>9, <3>1
    <3>2. CASE line[k] = ">"
      BY <1>1, <1>2, <1>9, <2>1, <3>2
    <3>3. CASE line[k] = "&"
      BY <1>1, <1>2, <2>1, <3>3
    <3> QED  BY <1>7, <3>1, <3>2, <3>3
  <2> HIDE DEF m
  <2>3. Words(line, 1, n) = SubSeq(line, 1, m-1)
    BY <1>6, <2>1, <2>2
  <2> QED  BY <1>4, <1>9, <2>1, <2>3 DEF n
<1>10. CASE ~Sh!Has(c, "<") /\ ~Sh!Has(c, ">") /\ Sh!Has(c, "&")
  <2>1. n \in 1..n /\ line[n] \in Sh!Symbols
    BY <1>1, <1>2, <1>10, SymbolsAre
  <2>2. \A k \in 1..n : line[k] \in Sh!Symbols => n <= k
    BY <1>1, <1>2, <1>7, <1>10
  <2>3. Words(line, 1, n) = SubSeq(line, 1, n-1)
    BY <1>6, <2>1, <2>2
  <2> QED  BY <1>4, <1>10, <2>3 DEF n
<1>11. CASE ~Sh!Has(c, "<") /\ ~Sh!Has(c, ">") /\ ~Sh!Has(c, "&")
  <2>1. \A k \in 1..n : line[k] \notin Sh!Symbols
    BY <1>1, <1>2, <1>7, <1>11
  <2>2. Words(line, 1, n) = SubSeq(line, 1, n)
    BY <1>6, <2>1
  <2> QED  BY <1>4, <1>11, <2>2 DEF n
<1> QED  BY <1>8, <1>9, <1>10, <1>11

\* With a pipe, it ends the first command, and an "&" the second.
LEMMA PipedWords ==
  ASSUME NEW line \in Lines, Supported(line), Sh!Has(Sh!Parsed(line), "|")
  PROVE  LET i == Sh!Parsed(line)["|"]
         IN /\ Words(line, 1, Len(line)) = SubSeq(line, 1, i)
            /\ Words(line, Where(line, "|") + 1, Len(line)) = SubSeq(line, i + 2, End(line))
<1> DEFINE c == Sh!Parsed(line)
           n == Len(line)
           i == c["|"]
<1>1. n \in Nat /\ DOMAIN line = 1..n
  BY LineIs
<1>2. /\ Where(line, "|") = i + 1 /\ line[i+1] = "|"
      /\ \A k \in DOMAIN line : line[k] = "|" => k = i + 1
      /\ \A s \in {"<", ">"} : Sh!Has(c, s) <=> \E k \in DOMAIN line : line[k] = s
      /\ Sh!Has(c, "&") <=> \E k \in DOMAIN line : line[k] = "&"
      /\ \A k \in DOMAIN line : line[k] = "&" => k = n
  BY PlacesAre
<1>3. i \in 0..(n-1) /\ i < End(line) /\ ~Sh!Has(c, "<") /\ ~Sh!Has(c, ">")
  BY BarIs, EndIs
<1>4. End(line) = IF Sh!Has(c, "&") THEN n - 1 ELSE n
  BY <1>3 DEF End
<1> HIDE DEF c, n, i
<1>5. \A k \in 1..n : line[k] \in Sh!Symbols => (line[k] = "|" /\ k = i + 1) \/ (line[k] = "&" /\ k = n)
  BY <1>1, <1>2, <1>3, SymbolsAre
<1>6. i + 1 \in 1..n /\ (i + 1) - 1 = i /\ (i + 1) + 1 = i + 2 /\ i + 2 \in Nat
  BY <1>1, <1>3
<1>7. Words(line, 1, n) = SubSeq(line, 1, i)
  <2>1. line[i+1] \in Sh!Symbols
    BY <1>2, SymbolsAre
  <2>2. \A k \in 1..n : line[k] \in Sh!Symbols => i + 1 <= k
    BY <1>1, <1>3, <1>5, <1>6
  <2>3. Words(line, 1, n) = SubSeq(line, 1, (i+1)-1)
    BY ZenonT(30), <1>1, <1>6, <2>1, <2>2, WordsUpTo
  <2> QED  BY <1>6, <2>3
<1>8. Words(line, i + 2, n) = SubSeq(line, i + 2, End(line))
  <2>1. CASE Sh!Has(c, "&")
    <3>1. line[n] = "&" /\ n \in 1..n
      BY <1>1, <1>2, <2>1
    <3>2. n # i + 1
      BY <1>2, <3>1
    <3>3. n \in (i+2)..n /\ line[n] \in Sh!Symbols
      BY <1>1, <1>3, <3>1, <3>2, SymbolsAre
    <3>4. \A k \in (i+2)..n : line[k] \in Sh!Symbols => n <= k
      BY <1>1, <1>3, <1>5
    <3>5. Words(line, i + 2, n) = SubSeq(line, i + 2, n-1)
      BY ZenonT(30), <1>1, <1>6, <3>3, <3>4, WordsUpTo
    <3> QED  BY <1>4, <2>1, <3>5
  <2>2. CASE ~Sh!Has(c, "&")
    <3>1. \A k \in (i+2)..n : line[k] \notin Sh!Symbols
      BY <1>1, <1>2, <1>3, <1>5, <2>2
    <3>2. Words(line, i + 2, n) = SubSeq(line, i + 2, n)
      BY <1>1, <1>6, <3>1, WordsUpTo
    <3> QED  BY <1>4, <2>2, <3>2
  <2> QED  BY <2>1, <2>2
<1>9. Words(line, Where(line, "|") + 1, n) = SubSeq(line, i + 2, End(line))
  BY <1>2, <1>6, <1>8
<1> QED  BY <1>7, <1>9 DEF c, n, i

\* The file named after a redirection is the word that the code opens.
LEMMA NamedIs ==
  ASSUME NEW line \in Lines, Supported(line), NEW s \in {"<", ">"}
  PROVE  /\ Sh!Has(Sh!Parsed(line), s) =>
              /\ Named(line, s) = line[Sh!Parsed(line)[s] + 2]
              /\ Named(line, s) # "pipe"
         /\ ~Sh!Has(Sh!Parsed(line), s) => Named(line, s) = "terminal"
<1> DEFINE i == Sh!Parsed(line)[s]
           has == Sh!Has(Sh!Parsed(line), s)
<1>1. /\ has <=> \E k \in DOMAIN line : line[k] = s
      /\ has => Where(line, s) = i + 1
  BY PlacesAre
<1>2. has => i \in 0..(Len(line)-1) /\ i + 1 < Len(line)
  BY ParsedIs, EndIs, SymbolsAre
<1>3. Named(line, s) = IF has THEN line[Where(line, s) + 1] ELSE "terminal"
  BY <1>1 DEF Named
<1> HIDE DEF i, has
<1>4. has => i + 2 \in 1..Len(line) /\ (i + 1) + 1 = i + 2
  BY <1>2, LineIs
<1>5. has => Named(line, s) = line[i+2] /\ line[i+2] # "pipe"
  BY <1>1, <1>3, <1>4, LineIs
<1> QED  BY <1>3, <1>5 DEF i, has

\* A line with one redirection does not have both.
LEMMA OneIs ==
  ASSUME NEW line \in Lines, OneRedirection(line)
  PROVE  ~(Sh!Has(Sh!Parsed(line), "<") /\ Sh!Has(Sh!Parsed(line), ">"))
<1> SUFFICES ASSUME Sh!Has(Sh!Parsed(line), "<"), Sh!Has(Sh!Parsed(line), ">")
             PROVE  FALSE
  OBVIOUS
<1>1. Len(line) \in Nat /\ DOMAIN line = 1..Len(line)
  BY LineIs
<1>2. PICK k \in 1..Len(line) : line[k] = "<"
  BY ParsedIs, SymbolsAre
<1>3. PICK l \in 1..Len(line) : line[l] = ">"
  BY ParsedIs, SymbolsAre
<1> DEFINE T == {m \in DOMAIN line : line[m] \in {"<", ">"}}
<1>4. k \in T /\ l \in T /\ k # l
  BY <1>1, <1>2, <1>3
<1>5. IsFiniteSet(T)
  <2>1. IsFiniteSet(1..Len(line)) /\ T \subseteq 1..Len(line)
    BY <1>1, FS_Interval
  <2> QED  BY <2>1, FS_Subset
<1>6. Cardinality(T) <= 1 /\ Cardinality(T) \in Nat
  BY <1>5, FS_CardinalityType DEF OneRedirection
<1> HIDE DEF T
<1>7. Cardinality({k}) = 1 /\ {k} \subseteq T
  BY <1>4, FS_Singleton
<1>8. {k} = T
  BY <1>5, <1>6, <1>7, FS_Subset
<1> QED  BY <1>4, <1>8

\* So a command without a pipe is what the line means,
LEMMA PlainRuns ==
  ASSUME NEW p, p.line \in Lines, Supported(p.line), RightRun(inputs, p), p.at = "command",
         ~Sh!Has(Sh!Parsed(p.line), "|")
  PROVE  LET meant == Meant(p.line)
             run   == [argv |-> p.argv, in |-> p.in, out |-> p.out]
         IN /\ run.argv \in {c.argv : c \in meant}
            /\ OneRedirection(p.line) =>
                 run \in meant \cup (IF AllLeaked THEN {WithoutInput(c) : c \in meant} ELSE {})
<1> DEFINE line == p.line
           c == Sh!Parsed(line)
           first == FirstCommand(line)
           run == [argv |-> p.argv, in |-> p.in, out |-> p.out]
<1>1. PICK f : /\ FileRight(inputs, f, line)
               /\ p.in = IF Sh!Has(c, "<") THEN f ELSE "terminal"
               /\ p.out = IF Sh!Has(c, ">") THEN f ELSE "terminal"
  BY DEF RightRun
<1>2. p.argv = Words(line, 1, Len(line))
  BY PlainWords DEF RightRun
<1>3. ~\E k \in DOMAIN line : line[k] = "|"
  BY PlacesAre
<1>4. /\ first.argv = Words(line, 1, Len(line))
      /\ first.in = IF Named(line, "<") \in CannotRead THEN "terminal" ELSE Named(line, "<")
      /\ first.out = Named(line, ">")
      /\ first = [argv |-> first.argv, in |-> first.in, out |-> first.out]
  BY <1>3 DEF FirstCommand
<1>5. Meant(line) = {first}
  BY <1>3 DEF Meant
<1>6. /\ Sh!Has(c, "<") => Named(line, "<") = line[c["<"] + 2] /\ Named(line, "<") # "pipe"
      /\ ~Sh!Has(c, "<") => Named(line, "<") = "terminal"
      /\ Sh!Has(c, ">") => Named(line, ">") = line[c[">"] + 2]
      /\ ~Sh!Has(c, ">") => Named(line, ">") = "terminal"
  BY NamedIs
<1>7. OneRedirection(line) => ~(Sh!Has(c, "<") /\ Sh!Has(c, ">"))
  BY OneIs
<1>8. /\ (Sh!Has(c, ">") /\ ~Sh!Has(c, "<")) => f = line[c[">"] + 2]
      /\ (Sh!Has(c, "<") /\ ~Sh!Has(c, ">")) =>
           IF line[c["<"] + 2] \in CannotRead THEN f = "terminal"
           ELSE f = line[c["<"] + 2] \/ (AllLeaked /\ f = "terminal")
  BY <1>1 DEF FileRight, AllLeaked
<1> HIDE DEF line, c, first
<1>9. run.argv \in {d.argv : d \in Meant(line)}
  BY <1>2, <1>4, <1>5
<1>10. ASSUME OneRedirection(line)
       PROVE  run = first \/ (AllLeaked /\ run = WithoutInput(first))
  <2>1. p.out = first.out
    BY <1>1, <1>4, <1>6, <1>7, <1>8, <1>10
  <2>2. p.in = first.in \/ (AllLeaked /\ p.in = "terminal" /\ first.in # "pipe")
    BY <1>1, <1>4, <1>6, <1>7, <1>8, <1>10
  <2>3. CASE p.in = first.in
    BY <1>2, <1>4, <2>1, <2>3
  <2>4. CASE AllLeaked /\ p.in = "terminal" /\ first.in # "pipe"
    <3>1. WithoutInput(first) = [first EXCEPT !.in = "terminal"]
      BY <2>4 DEF WithoutInput
    <3>2. WithoutInput(first) = [argv |-> first.argv, in |-> "terminal", out |-> first.out]
      BY <1>4, <3>1
    <3> QED  BY <1>2, <1>4, <2>1, <2>4, <3>2
  <2> QED  BY <2>2, <2>3, <2>4
<1>11. OneRedirection(line) =>
         run \in Meant(line) \cup (IF AllLeaked THEN {WithoutInput(d) : d \in Meant(line)} ELSE {})
  BY <1>5, <1>10
<1> QED  BY <1>9, <1>11 DEF line

\* and with a pipe each is one of the two that it means.
LEMMA PipedRuns ==
  ASSUME NEW p, p.line \in Lines, Supported(p.line), RightRun(inputs, p), p.at = "command",
         Sh!Has(Sh!Parsed(p.line), "|")
  PROVE  [argv |-> p.argv, in |-> p.in, out |-> p.out] \in Meant(p.line)
<1> DEFINE line == p.line
           c == Sh!Parsed(line)
           run == [argv |-> p.argv, in |-> p.in, out |-> p.out]
<1>1. \E k \in DOMAIN line : line[k] = "|"
  BY PlacesAre
<1>2. Meant(line) = {FirstCommand(line), SecondCommand(line)}
  BY <1>1 DEF Meant
<1>3. /\ Words(line, 1, Len(line)) = SubSeq(line, 1, c["|"])
      /\ Words(line, Where(line, "|") + 1, Len(line)) = SubSeq(line, c["|"] + 2, End(line))
  BY PipedWords
<1>4. ~Sh!Has(c, "<")
  BY EndIs
<1>5. Named(line, "<") = "terminal"
  BY <1>4, NamedIs
<1>6. FirstCommand(line) = [argv |-> SubSeq(line, 1, c["|"]), in |-> "terminal", out |-> "pipe"]
  BY <1>1, <1>3, <1>5 DEF FirstCommand
<1>7. SecondCommand(line) =
        [argv |-> SubSeq(line, c["|"] + 2, End(line)), in |-> "pipe", out |-> "terminal"]
  BY <1>3 DEF SecondCommand
<1>8. run = FirstCommand(line) \/ run = SecondCommand(line)
  BY <1>6, <1>7 DEF RightRun
<1> QED  BY <1>2, <1>8

\* Together, for every process.
LEMMA RunsFollow ==
  ASSUME SupportedLines, ShellInv
  PROVE  RunsWhatIsTyped
<1> SUFFICES ASSUME NEW q \in Pids, Runs(q)
             PROVE  LET meant == Meant(procs[q].line)
                        run == [argv |-> procs[q].argv, in |-> procs[q].in, out |-> procs[q].out]
                    IN /\ run.argv \in {c.argv : c \in meant}
                       /\ OneRedirection(procs[q].line) =>
                            run \in meant \cup
                              (IF AllLeaked THEN {WithoutInput(c) : c \in meant} ELSE {})
  BY DEF RunsWhatIsTyped
<1> DEFINE p == procs[q]
<1>1. q \in DOMAIN procs /\ p.at = "command"
  BY DEF Runs
<1>2. p.line \in Lines /\ RightRun(inputs, p)
  BY <1>1 DEF ShellInv, PromptInv, TreeInv, SoundInv, RunInv
<1>3. Supported(p.line)
  BY <1>2 DEF SupportedLines
<1> HIDE DEF p
<1>4. LET meant == Meant(p.line)
          run == [argv |-> p.argv, in |-> p.in, out |-> p.out]
      IN /\ run.argv \in {c.argv : c \in meant}
         /\ OneRedirection(p.line) =>
              run \in meant \cup (IF AllLeaked THEN {WithoutInput(c) : c \in meant} ELSE {})
  <2>1. CASE ~Sh!Has(Sh!Parsed(p.line), "|")
    BY <1>1, <1>2, <1>3, <2>1, PlainRuns
  <2>2. CASE Sh!Has(Sh!Parsed(p.line), "|")
    <3>1. [argv |-> p.argv, in |-> p.in, out |-> p.out] \in Meant(p.line)
      BY <1>1, <1>2, <1>3, <2>2, PipedRuns
    <3> QED  BY <3>1
  <2> QED  BY <2>1, <2>2
<1> QED  BY <1>4 DEF p

\* Whatever was typed before, a process runs a command of the line it was made
\* for: in every set of lines the shell supports.
THEOREM ShellRunsLines == ASSUME SupportedLines PROVE Spec => []RunsWhatIsTyped
<1>1. ShellInv => RunsWhatIsTyped
  BY RunsFollow
<1> QED  BY InitShell, StepShell, <1>1, PTL DEF Spec
===============================================================================
