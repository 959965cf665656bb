--------------------------------- MODULE Osh ----------------------------------
(***************************************************************************)
(* project2 at work: the shell of Shell, whose commands read and write the *)
(* /proc entry of ProcEntry.  "cat proc" reads it to the end, "head proc"  *)
(* stops after the first answer, "echo n > proc" writes to it; a command   *)
(* with "&" does so while the next ones run.                               *)
(***************************************************************************)
EXTENDS Integers, Sequences, FiniteSetsExt

CONSTANTS
  Sessions,               \* for each module, the lines typed and how many
  MAX_LINE, NULL, Output, Filters, CannotRead, CannotWrite,
  MaxFd, MaxProcs, PIPE_SIZE,                             \* of Shell
  HZ, Wrap, MaxClock, Boots, Numeral, Existing                   \* of ProcEntry

VARIABLES
  pc, taken, args, prompt_cnt, tmp_ptr, cmd, his, fd, files, child, procs,
  pipes, typed, inputs,                                   \* of Shell
  entry, module, completed, pid, init_jiffies, boot, clock, calls,
  loadedAt, left                                          \* of ProcEntry

Lines    == UNION {Sessions[e].lines : e \in DOMAIN Sessions}
MaxLines == Max({Sessions[e].length : e \in DOMAIN Sessions})

Sh    == INSTANCE Shell
Entry == INSTANCE ProcEntry

ASSUME OshAssumption ==
  Sh!Parameters /\ Entry!Parameters /\ DOMAIN Sessions \subseteq Entry!Entries

shellVars == <<pc, taken, args, prompt_cnt, tmp_ptr, cmd, his, fd, files, child,
               procs, pipes, typed, inputs>>
entryVars == <<entry, module, completed, pid, init_jiffies, boot, clock, calls,
               loadedAt, left>>
vars == <<shellVars, entryVars>>

\* A child has the number of a slot of the process table.
Pids == 2..MaxProcs

Init == Sh!Init /\ Entry!Init /\ entry \in DOMAIN Sessions

-----------------------------------------------------------------------------
Runs(q) == q \in DOMAIN procs /\ procs[q].at = "command"

ReadsEntry(q) ==
  Runs(q) /\ Len(procs[q].argv) = 2 /\ procs[q].argv[1] \in {"cat", "head"}
          /\ procs[q].argv[2] = "proc"
WritesEntry(q) == Runs(q) /\ procs[q].argv[1] = "echo" /\ procs[q].out = "proc"

Type ==
  /\ taken < Sessions[entry].length
  /\ \E line \in Sessions[entry].lines : Sh!TakeLine(line)
  /\ UNCHANGED entryVars

RunShell == Sh!ShellStep /\ UNCHANGED entryVars

\* A process that has nothing to do with the entry.
Ordinary(q) ==
  /\ q \in DOMAIN procs /\ ~ReadsEntry(q) /\ ~WritesEntry(q)
  /\ Sh!ProcessStep(q)
  /\ UNCHANGED entryVars

\* The program ends with its last step at the entry.
Ends(q) == Sh!Ends(q)

\* cat and head go from call to call.
ReadEntry(q) ==
  /\ ReadsEntry(q)
  /\ \/ Entry!OpenEntry(q) /\ UNCHANGED shellVars
     \/ q \in DOMAIN calls /\ Entry!proc_read(q) /\ UNCHANGED shellVars
     \/ q \in DOMAIN calls /\ Entry!Quietly(Entry!CloseEntry(q)) /\ Ends(q)
     \/ /\ q \in DOMAIN calls /\ procs[q].argv[1] = "head"
        /\ Entry!Quietly(Entry!LeaveEntry(q)) /\ Ends(q)
     \/ /\ q \notin DOMAIN calls /\ ~Entry!CanOpen
        /\ Ends(q) /\ UNCHANGED entryVars

WriteEntry(q) ==
  /\ WritesEntry(q)
  /\ Ends(q)
  /\ IF Entry!CanOpen THEN Entry!proc_write(procs[q].argv[2])
                      ELSE UNCHANGED entryVars

Process(q) == Ordinary(q) \/ ReadEntry(q) \/ WriteEntry(q)

Kernel ==
  /\ Entry!Create \/ Entry!SetStart \/ Entry!Remove \/ Entry!Tick
  /\ UNCHANGED shellVars

Next == Type \/ RunShell \/ Kernel \/ \E q \in Pids : Process(q)

\* The scheduler runs the shell and every process that is not blocked; nothing
\* makes the user type or load the module.
Spec ==
  /\ Init /\ [][Next]_vars
  /\ WF_vars(RunShell)
  /\ \A q \in Pids : WF_vars(Process(q))

-----------------------------------------------------------------------------
(* The shell. *)

InBackground(line) == \E k \in DOMAIN line : line[k] = "&"

\* At the prompt no process of a line without an "&" is left, not even as a
\* zombie; args has no NULL; and the descriptor of an output redirection is
\* closed again, while each line with an input redirection leaves one open.
PromptIsClean == pc = "prompt" =>
  /\ \A q \in DOMAIN procs : InBackground(procs[q].line)
  /\ \A k \in Sh!Slots : args[k] # NULL
  /\ Cardinality(DOMAIN files) = inputs

\* What a line means: its words up to a symbol are the arguments, a file is
\* named after each of the redirections, and after "|" comes another command.
Words(line, a, b) ==
  LET cut == {k \in a..b : line[k] \in Sh!Symbols}
      last == IF cut = {} THEN b ELSE (CHOOSE k \in cut : \A l \in cut : k <= l) - 1
  IN SubSeq(line, a, last)
Where(line, s) == CHOOSE k \in DOMAIN line : line[k] = s
Named(line, s) ==
  IF \E k \in DOMAIN line : line[k] = s THEN line[Where(line, s) + 1] ELSE "terminal"
FirstCommand(line) ==
  [argv |-> Words(line, 1, Len(line)),
   in   |-> IF Named(line, "<") \in CannotRead THEN "terminal" ELSE Named(line, "<"),
   out  |-> IF \E k \in DOMAIN line : line[k] = "|" THEN "pipe" ELSE Named(line, ">")]
SecondCommand(line) ==
  [argv |-> Words(line, Where(line, "|") + 1, Len(line)), in |-> "pipe", out |-> "terminal"]
Meant(line) ==
  IF \E k \in DOMAIN line : line[k] = "|" THEN {FirstCommand(line), SecondCommand(line)}
                                          ELSE {FirstCommand(line)}
OneRedirection(line) ==
  Cardinality({k \in DOMAIN line : line[k] \in {"<", ">"}}) <= 1

\* The lines that the shell understands: "&" only at the end, each of the other
\* symbols at most once, and "<" before ">".  In another order the first is
\* among the arguments.
Supported(line) ==
  /\ \A k \in DOMAIN line : line[k] = "&" => k = Len(line)
  /\ \A k, l \in DOMAIN line : line[k] = line[l] /\ line[k] \in {"<", ">", "|"} => k = l
  /\ \A k, l \in DOMAIN line : line[k] = "<" /\ line[l] = ">" => k < l
SupportedLines == \A line \in Lines : Supported(line)

\* Every descriptor has been used up by the files that stay open: then
\* "Open failed." is printed and the command reads the terminal.
AllLeaked == inputs = MaxFd - 2
WithoutInput(c) == IF c.in = "pipe" THEN c ELSE [c EXCEPT !.in = "terminal"]

\* Whatever lines were typed before, and if the line is "!!", what runs is the
\* last line typed that is a command, if the lines are supported: its arguments,
\* and its streams if it does not have both redirections, for which there is
\* only one descriptor variable.
RunsWhatIsTyped ==
  \A q \in Pids : Runs(q) =>
    LET meant == Meant(procs[q].line)
        run   == [argv |-> procs[q].argv, in |-> procs[q].in, out |-> procs[q].out]
    IN /\ run.argv \in {c.argv : c \in meant}
       /\ OneRedirection(procs[q].line) =>
            run \in meant \cup (IF AllLeaked THEN {WithoutInput(c) : c \in meant} ELSE {})

OutputOf(word) == IF word \in DOMAIN Output THEN Output[word] ELSE 0

\* The second command of a pipeline reads nothing before the first has ended,
\* and all that the first has written is read or waits for it.
PipelineDelivers ==
  \A q \in Pids : (Runs(q) /\ procs[q].in = "pipe") =>
    /\ Sh!ChildrenOf(q) = {}
    /\ procs[q].got + pipes[q] = OutputOf(procs[q].line[1])

\* The first command waits for room in the pipe, and the second for the first.
Blocked ==
  /\ child \in DOMAIN procs /\ procs[child].at = "second"
  /\ pipes[child] = PIPE_SIZE
  /\ \E q \in Sh!ChildrenOf(child) : Runs(q) /\ procs[q].left > 0

\* The shell comes back to the prompt or ends, unless the output of the first
\* command of a pipeline does not fit into the pipe.
PromptReturns == []<>(pc \in {"prompt", "ended"} \/ Blocked)

-----------------------------------------------------------------------------
(* The entry. *)

\* With nobody reading the entry, and nobody having stopped early, the next
\* reader gets an answer, however the calls before were interleaved.
QuietMeansClear == Entry!QuietMeansClear

\* A program that has the entry to itself gets exactly one answer, and one that
\* was true while it had the entry open: also across the wrap of jiffies.
AnswersTrue == Entry!AnswersTrue
=============================================================================
