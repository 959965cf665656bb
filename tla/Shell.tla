-------------------------------- MODULE Shell --------------------------------
(***************************************************************************)
(* project2/shell/shell.c: the loop that reads a line, opens the files of  *)
(* its redirections, forks and waits, and the code that its children run   *)
(* before execvp().                                                        *)
(*                                                                         *)
(* A line is a sequence of words; the buffer args keeps the words of       *)
(* earlier, longer lines behind it, and the code puts a NULL where the     *)
(* arguments end and the word back afterwards.  fork() gives the child a   *)
(* copy of the locals.  What runs after execvp() is external: a program    *)
(* writes some units of output, and a filter first reads its input to the  *)
(* end.  The kernel's tables are bounded: descriptors of the shell, and    *)
(* processes, zombies included.                                            *)
(***************************************************************************)
EXTENDS Integers, Sequences, FiniteSets, FiniteSetsExt

CONSTANTS
  Lines, MaxLines,           \* what the user may type, and how many lines
  MAX_LINE,                  \* the slots of args
  NULL,
  Output,                    \* units of output of each program there is
  Filters,                   \* the programs that read their input
  CannotRead, CannotWrite,   \* files that open() refuses
  MaxFd,                     \* the last descriptor a process may have
  MaxProcs,                  \* the last process number; the shell is 1
  PIPE_SIZE                  \* the units a pipe holds

\* No word is the null pointer or has the name of a stream below, and the name
\* of no program is a symbol.  The words of a line fit into args, a redirection
\* is followed by a file, and no line has both a pipe and a redirection, or ends
\* in a pipe and has an "&": the code then calls execvp() with arguments that no
\* NULL ends.  Every process has the descriptors 0, 1 and 2.
Parameters ==
  /\ NULL # "" /\ DOMAIN Output \cap {">", "<", "|", "&"} = {}
  /\ \A word \in DOMAIN Output : Output[word] \in Nat
  /\ \A line \in Lines :
       /\ line \in Seq({line[k] : k \in DOMAIN line} \ {NULL, "terminal", "pipe"})
       /\ Len(line) < MAX_LINE
       /\ \A k \in DOMAIN line : line[k] \in {"<", ">"} =>
            k < Len(line) /\ \A l \in DOMAIN line : line[l] # "|"
       /\ \A k \in DOMAIN line : line[k] = "&" => line[Len(line)] # "|"
  /\ {MaxLines, MAX_LINE, MaxFd, MaxProcs, PIPE_SIZE} \subseteq Nat /\ MaxFd >= 2

VARIABLES
  pc,            \* of the shell: "prompt", "open", "fork", "wait" or "ended"
  taken,         \* lines typed so far
  args, prompt_cnt, tmp_ptr,
  cmd,           \* of the line: the flag and the index of each symbol
  his,           \* history_args, history_prompt_cnt and the his_ flags
  fd,            \* the last descriptor from open(), -1 if it failed
  files,         \* open descriptors of the shell, above the standard ones
  child,         \* pid, of the last fork
  procs,         \* the children and grandchildren, zombies included
  pipes,         \* units in the pipe created by each process
  typed,         \* history: the last line that is a command itself
  inputs         \* history: lines with "<" for which a file was opened

locals == <<taken, args, prompt_cnt, tmp_ptr, cmd, his, fd, files, child, typed, inputs>>
vars   == <<pc, locals, procs, pipes>>

Slots   == 0..(MAX_LINE - 1)
Symbols == {">", "<", "|", "&"}
Pids    == 2..MaxProcs
Programs == DOMAIN Output

\* An index is -1 if the flag is not set.
NoSymbols == [s \in Symbols |-> -1]
Has(c, s) == c[s] >= 0

Init ==
  /\ pc = "prompt"
  /\ taken = 0
  /\ args = [k \in Slots |-> ""]
  /\ prompt_cnt = 0 /\ tmp_ptr = "" /\ cmd = NoSymbols
  /\ his = [words |-> <<>>, cmd |-> NoSymbols]
  /\ fd = -1 /\ files = <<>> /\ child = 0
  /\ procs = <<>>
  /\ pipes = [p \in Pids |-> 0]
  /\ typed = <<>> /\ inputs = 0

-----------------------------------------------------------------------------
(* Reading a line. *)

\* A buffer after words have been stored in it; what is behind them stays.
StoredIn(buffer, words) ==
  [k \in Slots |-> IF k < Len(words) THEN words[k+1] ELSE buffer[k]]
Stored(words) == StoredIn(args, words)

Places(line, s) == {k \in 1..Len(line) : line[k] = s}
Parsed(line) ==
  [s \in Symbols |-> IF Places(line, s) = {} THEN -1 ELSE Max(Places(line, s)) - 1]

Typing(line) ==
  /\ pc = "prompt" /\ taken < MaxLines
  /\ taken' = taken + 1
  /\ UNCHANGED <<tmp_ptr, fd, files, child, inputs, procs, pipes>>

\* An empty line.
Nothing(line) ==
  /\ Typing(line) /\ line = <<>>
  /\ UNCHANGED <<pc, args, prompt_cnt, cmd, his, typed>>

Exit(line) ==
  /\ Typing(line) /\ line # <<>> /\ line[1] = "exit"
  /\ pc' = "ended"
  /\ args' = Stored(line)
  /\ UNCHANGED <<prompt_cnt, cmd, his, typed>>

NoHistory(line) ==
  /\ Typing(line) /\ line # <<>> /\ line[1] = "!!" /\ his.words = <<>>
  /\ args' = Stored(line)
  /\ UNCHANGED <<pc, prompt_cnt, cmd, his, typed>>

\* Mutant: the flags are those of the line "!!".
RecallWordsOnly(line) ==
  /\ args' = StoredIn(Stored(line), his.words)
  /\ prompt_cnt' = Len(his.words)
  /\ cmd' = NoSymbols

\* The last command is copied back from history_args, over the words of the
\* line "!!" itself.
Recall(line) ==
  /\ args' = StoredIn(Stored(line), his.words)
  /\ prompt_cnt' = Len(his.words)
  /\ cmd' = his.cmd

Repeat(line) ==
  /\ Typing(line) /\ line # <<>> /\ line[1] = "!!" /\ his.words # <<>>
  /\ Recall(line)
  /\ pc' = "open"
  /\ UNCHANGED <<his, typed>>

Command(line) ==
  /\ Typing(line) /\ line # <<>> /\ line[1] \notin {"exit", "!!"}
  /\ pc' = "open"
  /\ args' = Stored(line)
  /\ prompt_cnt' = Len(line)
  /\ cmd' = Parsed(line)
  /\ his' = [words |-> line, cmd |-> Parsed(line)]
  /\ typed' = line

TakeLine(line) ==
  Nothing(line) \/ Exit(line) \/ NoHistory(line) \/ Repeat(line) \/ Command(line)

-----------------------------------------------------------------------------
(* Running a command. *)

Free(open) == (3..MaxFd) \ DOMAIN open
With(f, x, y) == [z \in DOMAIN f \cup {x} |-> IF z = x THEN y ELSE f[z]]
Opened(open, f) == With(open, Min(Free(open)), f)
File(open, d) == IF d \in DOMAIN open THEN open[d] ELSE "terminal"

OutFile == args[cmd[">"] + 1]
InFile  == args[cmd["<"] + 1]

OpenFails == Has(cmd, ">") /\ (OutFile \in CannotWrite \/ Free(files) = {})

\* "Open Failed.": the shell returns.
OpenFailed ==
  /\ pc = "open" /\ OpenFails
  /\ pc' = "ended"
  /\ prompt_cnt' = IF Has(cmd, "&") THEN prompt_cnt - 1 ELSE prompt_cnt
  /\ fd' = -1
  /\ UNCHANGED <<taken, args, tmp_ptr, cmd, his, files, child, typed, inputs, procs, pipes>>

\* Where the NULL goes: the first symbol, the last one looked at wins.
ArgumentsEnd ==
  IF Has(cmd, "<") THEN cmd["<"]
  ELSE IF Has(cmd, ">") THEN cmd[">"]
  ELSE IF Has(cmd, "&") THEN prompt_cnt - 1 ELSE prompt_cnt

Open ==
  /\ pc = "open" /\ ~OpenFails
  /\ LET out == IF Has(cmd, ">") THEN Opened(files, OutFile) ELSE files
         found == Has(cmd, "<") /\ InFile \notin CannotRead /\ Free(out) # {}
     IN /\ files' = IF found THEN Opened(out, InFile) ELSE out
        /\ inputs' = IF Has(cmd, "<") /\ files' # files THEN inputs + 1 ELSE inputs
        /\ fd' = IF found THEN Min(Free(out))
                 ELSE IF Has(cmd, "<") THEN -1
                 ELSE IF Has(cmd, ">") THEN Min(Free(files)) ELSE fd
  /\ prompt_cnt' = ArgumentsEnd
  /\ tmp_ptr' = args[ArgumentsEnd]
  /\ args' = [args EXCEPT ![ArgumentsEnd] = NULL]
  /\ pc' = "fork"
  /\ UNCHANGED <<taken, cmd, his, child, typed, procs, pipes>>

FreePids == Pids \ DOMAIN procs

\* The copy of the locals that fork() makes, and the file that fd refers to.
Copy == [args |-> args, prompt_cnt |-> prompt_cnt, tmp_ptr |-> tmp_ptr, cmd |-> cmd,
         file |-> File(files, fd), open |-> Cardinality(DOMAIN files)]

\* A process between fork() and execvp(), with the memory mem; holds tells that
\* it has the write end of a pipe open, and line is history.
Child(at, parent, line, mem) ==
  [at |-> at, parent |-> parent, line |-> line, mem |-> mem, argv |-> <<>>,
   in |-> "terminal", out |-> "terminal", left |-> 0, got |-> 0, holds |-> FALSE]

Fork ==
  /\ pc = "fork" /\ FreePids # {}
  /\ child' = Min(FreePids)
  /\ procs' = With(procs, child', Child("child", 1, typed, Copy))
  /\ pc' = "wait"
  /\ UNCHANGED <<taken, args, prompt_cnt, tmp_ptr, cmd, his, fd, files, typed, inputs, pipes>>

\* "Fork Failed.": the shell returns.
ForkFailed ==
  /\ pc = "fork" /\ FreePids = {}
  /\ pc' = "ended"
  /\ UNCHANGED <<locals, procs, pipes>>

Reap(p) == [q \in DOMAIN procs \ {p} |-> procs[q]]

\* Mutant: the shell leaves the closing to the child.
CloseNothing == files

CloseOutput ==
  IF Has(cmd, ">") THEN [d \in DOMAIN files \ {fd} |-> files[d]] ELSE files

\* waitpid(), unless the line has an "&"; then the word is put back.
Await ==
  /\ pc = "wait"
  /\ \/ Has(cmd, "&") /\ UNCHANGED procs
     \/ ~Has(cmd, "&") /\ procs[child].at = "zombie" /\ procs' = Reap(child)
  /\ files' = CloseOutput
  /\ args' = [args EXCEPT ![prompt_cnt] = tmp_ptr]
  /\ pc' = "prompt"
  /\ UNCHANGED <<taken, prompt_cnt, tmp_ptr, cmd, his, fd, child, typed, inputs, pipes>>

ShellStep == OpenFailed \/ Open \/ Fork \/ ForkFailed \/ Await

-----------------------------------------------------------------------------
(* The children. *)

\* The arguments in a buffer, from slot k to the NULL.
ArgvFrom(a, k) ==
  LET end == Min({e \in k..(MAX_LINE - 1) : a[e] = NULL})
  IN SubSeq([e \in 1..end |-> a[e-1]], k + 1, end)

\* A process that has ended: nothing is left of it but its number.
Zombie(q) == Child("zombie", procs[q].parent, procs[q].line, <<>>)

\* execvp(); if there is no such program the child returns from main.
Execute(q, argv, in, out) ==
  IF argv # <<>> /\ argv[1] \in Programs
  THEN [procs[q] EXCEPT !.at = "command", !.mem = <<>>, !.argv = argv,
                        !.in = in, !.out = out, !.left = Output[argv[1]]]
  ELSE Zombie(q)

\* A command without a pipe: the one descriptor goes to either stream.
ExecPlain(q) ==
  LET mem == procs[q].mem
  IN /\ procs[q].at = "child" /\ ~Has(mem.cmd, "|")
     /\ procs' = [procs EXCEPT ![q] = Execute(q, ArgvFrom(mem.args, 0),
                     IF Has(mem.cmd, "<") THEN mem.file ELSE "terminal",
                     IF Has(mem.cmd, ">") THEN mem.file ELSE "terminal")]
     /\ UNCHANGED pipes

NoPipe(q) == 2 + procs[q].mem.open + 2 > MaxFd \/ FreePids = {}

\* "Pipe failed." or "Fork Failed.": the child returns.
PipeFailed(q) ==
  /\ procs[q].at = "child" /\ Has(procs[q].mem.cmd, "|") /\ NoPipe(q)
  /\ procs' = [procs EXCEPT ![q] = Zombie(q)]
  /\ UNCHANGED pipes

\* pipe() and the second fork().  The parent will become the second command.
MakePipe(q) ==
  /\ procs[q].at = "child" /\ Has(procs[q].mem.cmd, "|") /\ ~NoPipe(q)
  /\ LET mem == procs[q].mem
         words == [mem.args EXCEPT ![mem.prompt_cnt] = mem.tmp_ptr]
         both == [mem EXCEPT !.args = words, !.tmp_ptr = words[mem.cmd["|"]]]
         first == Child("first", q, procs[q].line, both)
         second == [procs[q] EXCEPT !.at = "second", !.mem = both, !.holds = TRUE]
     IN procs' = With([procs EXCEPT ![q] = second], Min(FreePids),
                      [first EXCEPT !.holds = TRUE])
  /\ UNCHANGED pipes

ExecFirst(q) ==
  /\ procs[q].at = "first"
  /\ LET mem == procs[q].mem
         words == [mem.args EXCEPT ![mem.cmd["|"]] = NULL]
     IN procs' = [procs EXCEPT ![q] = Execute(q, ArgvFrom(words, 0), "terminal", "pipe")]
  /\ UNCHANGED pipes

ChildrenOf(q) == {c \in DOMAIN procs : procs[c].parent = q}

\* Mutant: the second command starts without waiting for the first.
FirstForked(q) == ChildrenOf(q) # {}

\* wait(NULL)
FirstEnded(q) == \E c \in ChildrenOf(q) : procs[c].at = "zombie"

\* Mutant: the write end is left open.
KeepWriteEnd(proc) == proc

CloseWriteEnd(proc) == [proc EXCEPT !.holds = FALSE]

\* With the last of its processes a pipe is gone.
ExecSecond(q) ==
  /\ procs[q].at = "second" /\ FirstEnded(q)
  /\ LET mem == procs[q].mem
         words == [mem.args EXCEPT ![mem.cmd["|"]] = mem.tmp_ptr, ![mem.prompt_cnt] = NULL]
         argv == ArgvFrom(words, mem.cmd["|"] + 1)
     IN procs' = [c \in DOMAIN procs \ {d \in ChildrenOf(q) : procs[d].at = "zombie"} |->
                    IF c = q THEN CloseWriteEnd(Execute(q, argv, "pipe", "terminal"))
                             ELSE procs[c]]
  /\ pipes' = IF procs'[q].at = "zombie" THEN [pipes EXCEPT ![q] = 0] ELSE pipes

ChildStep(q) ==
  ExecPlain(q) \/ PipeFailed(q) \/ MakePipe(q) \/ ExecFirst(q) \/ ExecSecond(q)

-----------------------------------------------------------------------------
(* The programs. *)

\* The pipe of q's input, and of its output.
Drains(q) == procs[q].at = "command" /\ procs[q].in = "pipe"
Fills(q)  == procs[q].at = "command" /\ procs[q].out = "pipe"

EndOfInput(q) ==
  ~Drains(q) \/ (pipes[q] = 0 /\ ~procs[q].holds /\
                  \A c \in ChildrenOf(q) : ~procs[c].holds)

\* A filter takes a unit from its pipe.
ReadUnit(q) ==
  /\ Drains(q) /\ procs[q].argv[1] \in Filters /\ pipes[q] > 0
  /\ pipes' = [pipes EXCEPT ![q] = @ - 1]
  /\ procs' = [procs EXCEPT ![q].got = @ + 1]

\* write() waits for room in the pipe.
WriteUnit(q) ==
  /\ procs[q].at = "command" /\ procs[q].left > 0
  /\ procs' = [procs EXCEPT ![q].left = @ - 1]
  /\ IF Fills(q)
     THEN LET pipe == procs[q].parent
          IN pipes[pipe] < PIPE_SIZE /\ pipes' = [pipes EXCEPT ![pipe] = @ + 1]
     ELSE UNCHANGED pipes

Finish(q) ==
  /\ procs[q].at = "command" /\ procs[q].left = 0
  /\ procs[q].argv[1] \in Filters => EndOfInput(q)
  /\ procs' = [procs EXCEPT ![q] = Zombie(q)]
  /\ pipes' = [pipes EXCEPT ![q] = 0]

ProgramStep(q) == ReadUnit(q) \/ WriteUnit(q) \/ Finish(q)

\* What the children do leaves the shell alone.
Ends(q) == Finish(q) /\ UNCHANGED <<pc, locals>>
ProcessStep(q) == (ChildStep(q) \/ ProgramStep(q)) /\ UNCHANGED <<pc, locals>>

Next ==
  (\E line \in Lines : TakeLine(line)) \/ ShellStep \/ \E q \in DOMAIN procs : ProcessStep(q)
=============================================================================
