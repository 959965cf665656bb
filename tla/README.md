# A verification of the CS307 operating-system projects

The repository holds the programs of an operating-systems course: eight
projects, most of them one or two C files, some of them concurrent, all of them
with a small state that is easy to get wrong. This directory models them in
TLA+, model-checks the models with TLC and proves theorems about them with
TLAPS.

A definition stands for the code that `PROJECT.json` names under "map". Every
module says in its header what it models and what it leaves out.

## 1. Inventory

| Part | Source | State | Operations | What is hard | Modules |
|---|---|---|---|---|---|
| Dining philosophers | `project5_3/diningPhilosopher.c` | `state[]`, semaphore `mutex`, semaphores `S[]` | `take_fork`, `test`, `put_fork` | a thread tests and wakes its neighbours; a wake-up that is lost; two neighbours that both pass the test | `DiningPhilosophers`, `SemaphoreProofs` |
| Bounded buffer | `project5_4/.../buffer.c`, `main.c` | `buffer`, `head`, `rear`, `mutex`, the named semaphores `full`, `empty` | `insert_item`, `remove_item`, `initialize_buffer`, main's cancel and join | semaphores that outlive the process, cancellation, a process killed halfway | `BoundedQueue`, `ProducerConsumer`, `ProducerConsumerProofs` |
| Thread pool | `project5_1/threadpool.c`, `client.c` | `workstodo`, `head`, `tail`, `token`, `mutex` | `pool_submit`, `worker`, `dequeue`, `execute`, `pool_shutdown` | the test for an empty queue is outside of the mutex; shutdown races with work | `BoundedQueue`, `ThreadPool`, `ThreadPoolProofs` |
| Sleeping TA | `project5_2/sleepingTA.c` | `chair`, `count`, `next_seat`, `next_teach`, `studentStatus`, `sem_stu`, `sem_ta`, `mutex` | `stu_programming`, `ta_teaching`, main's creation loop | a status written from three threads, partly without the mutex; two semaphores that must stay in step with the chairs | `SleepingTA`, `SemaphoreProofs` |
| Virtual memory manager | `project8/.../manager.c` | page table, page stack, TLB with time stamps, frames, free list | `translate`, `get_free_frame`, `read_from_memory` | two LRU mechanisms that never look at each other; six pointer assignments on a node that may be its own neighbour | `LRUPaging`, `VirtualMemory`, `LinkedListProofs` |
| Banker's algorithm | `project6/banker/main.c` | `available`, `maximum`, `allocation`, `need` | `request_resources`, `release_resources`, `safety` | an assumption that must be taken back in three matrices; a scan that needs several passes | `Banker`, `ResourceProofs` |
| Memory allocator | `project7/allocator.c` | the list of processes | `request_memory`, the three searches, `release_memory`, `compaction`, `show_status` | exact fits and ties; processes moved in place; a process of size 0 | `Allocator`, `ResourceProofs` |
| FCFS, SJF, priority | `project4/sched/schedule_{fcfs,sjf,priority}.c`, `driver.c` | the list of tasks | `add`, `schedule` | order among equal keys | `ListScheduling`, `Scheduling`, `LinkedListProofs` |
| Round robin, priority round robin | `project4/sched/schedule_{rr,priority_rr}.c`, `driver.c` | lists with a pointer to the last node, remaining bursts | `add`, `schedule`, `schedulePriority` | a list rotated in place, down to one node | `ReadyQueues`, `RoundRobin`, `Scheduling`, `LinkedListProofs` |
| List helpers, virtual CPU | `project4/sched/list.c`, `CPU.c` | none | `insert`, `delete`, `traverse`, `run` | called by no scheduler, or only printing | not modelled |
| Shell | `project2/shell/shell.c` | argument and history buffers, flags and indices, a descriptor, pipe ends | a line, `!!`, redirections, a pipe, `&` | a buffer with stale words and a NULL that comes and goes; fork, wait and close in the right order; descriptors and zombies that pile up | `Shell`, `Osh`, `OshProofs` |
| /proc modules | `project1/*`, `project2/task_info` | `completed`, `pid`, `init_jiffies` | `proc_read`, `proc_write`, `proc_init`, `proc_exit` | readers and writers that share static state; a counter that wraps | `ProcEntry`, `Osh`, `OshProofs` |
| Collatz module | `project2/assignment4` | `start`, a kernel list | load, unload | width of `int`, exit condition | not modelled: one sequential loop; where it overflows needs the full width of `int` |
| Task listers, color list | `project2/assignment1`-`3` | none of their own | load, unload | - | not modelled: one pass of straight-line code over kernel structures |
| Sudoku checker | `project3_1/sudoku.c` | `valid[]` | 27 threads, main's verdict | a region and an index per thread, in two nested loops | `Sudoku`, `Project3`, `Project3Proofs` |
| Multithreaded sorting | `project3_2/multithread_sorting.c` | one array | two sorters and a merger | the merger does not wait for the sorters | `MultithreadedSort`, `Project3`, `Project3Proofs` |
| Fork-join sorting | `project3_3/*.java` | one array; an array per task | tasks that split, sort, join and merge | a task that scans beyond its range while others write there | `QuickSort`, `MergeSort`, `Project3`, `Project3Proofs` |
| Build output, data, slides | `*.cmd`, `*.mod.c`, binaries, `*.txt`, `slides/` | - | - | - | not modelled: generated, or no logic |

The programs do not call one another. Inside a program the parts interact
through shared variables, semaphores and mutexes (project5), through an order
of calls from `main` (project4, 6, 7, 8) and, in project5_4, through named
semaphores from one run of the program to the next. The shell and the /proc
modules meet at run time: the shell's commands read and write the entry
(`project2/task_info/example.txt`).

`PROJECT.json` lists the hazards of this code at their lines, with the
properties that would show them going wrong. Where a property exempts what the
code does wrong, or claims nothing about it, the hazard's note says so.

## 2. The modules

### DiningPhilosophers

One thread per philosopher. `pc[i]` walks through `take_fork` and `put_fork`;
every access to `state[]` and every semaphore operation is a step, so that
`test()` reads the three cells in one step (`Check`) and writes `EATING` and
posts in a later one (`Grant`). The code starts five philosophers; `N` is a
constant, and its `(ph_num+4)%N` is read as `(ph_num+N-1)%N`.

* `NeighboursExclude`: forks are held from the post of `S[i]` to the write of
  `THINKING`; two neighbours never hold them together.
* `NoLostWakeup`: while nobody is inside `take_fork` or `put_fork`, every
  hungry philosopher has an eating neighbour, who will test it.
* `EveryoneEats`: everybody eats and leaves.

Fairness is weak fairness of each thread: the kernel runs what is not blocked.
No strong fairness for the mutex is needed because a thread takes it twice in
its life (`put_fork` ends the thread).

### BoundedQueue, ProducerConsumer

`BoundedQueue` is a FIFO queue of bounded capacity. `ProducerConsumer` models
`buffer.c` statement by statement where shared variables change, `main`'s
creation, cancellation and joins, and what surrounds the program: the named
semaphores outlive it (`sem_open` takes the initial value only when the
semaphore does not exist), `Kill` ends it anywhere, `Restart` starts it again.
Cancellation is deferred: a cancelled thread ends in `sleep`, `printf` or
`sem_wait`, never in `pthread_mutex_lock`.

* `TokensExact`: in the first run every slot is accounted for by a unit of
  `empty`, a producer, an item or a consumer, and every item by `full`.
* `NeverOverfills`: in every run, also one that inherits the semaphores of a run
  killed halfway, a producer that got through `sem_wait` finds room.
* `NoStall`: in the first run the threads never all wait for one another, and
  once main has cancelled them and joins, some thread can always take a further
  step until all have exited. A cancelled thread has finitely many steps left,
  so the joins of a first run return.
* `IsBoundedQueue`: the buffer implements `BoundedQueue`, in every run.
* `ExitCompletes`: once main joins, the program ends. It fails for a later run
  (`buffer_exit_hangs`): a consumer that finds the buffer empty is cancelled in
  the `printf` of the error branch, with the mutex locked.

Fairness: weak, for main and each thread; none for `Kill` and `Restart`.

### ThreadPool

Three loops over one array. `worker()` loads `token`, `head` and `tail` in
separate steps, without the mutex; `dequeue()` runs under it and does not test
again. The history variable `underflow` records that `dequeue` has run on an
empty queue, which the code does not prevent: run `pool_null` shows a worker
about to execute a slot nobody has filled. Up to that point

* `QueueUntilUnderflow`: the array is a `BoundedQueue`;
* `AcceptedAccounted`: each accepted task has been executed once, or waits in
  exactly one place;
* `DoneMeansExecuted`: when the client returns, every accepted task has been
  executed, the ones in the hands of a worker when the token was cleared
  included;
* `EndsUnlessUnderflow`: the pool shuts down.

After an underflow nothing is claimed: a null function ends the process, old
tasks may run again, and with more tasks than slots `head` may have run past
`tail` for good. A task that `enqueue` refuses is dropped (`pool_submit` ignores
the result); the properties are about the accepted ones. Fairness: weak, for the
client and each worker.

### SleepingTA

Students, the TA and main's creation loop. The tests of lines 95 and 117 and the
writes of lines 67 and 132 are separate steps, because the status is also
written outside of the mutex. The names of its state and specification differ
from those of `DiningPhilosophers` (`stu`, `locked`, `OfficeSpec`...), so that
one module can hold the proofs about both programs.

* `ChairsAreRing`: the occupied chairs are the `count` chairs from `next_teach`
  on; the TA never calls an empty chair.
* `SemaphoresBalance`: both semaphores stay in step with the chairs.
* `EveryChairServed`: whoever sits is called.
* `LessonKept`: once a lesson is recorded in `studentStatus`, its student leaves.
  By then it may be anywhere: on a second chair, behind others for the unit of
  `sem_ta`, or on its way to a full room. Two writes may erase the record and are
  exempt: main's of line 67, if it is still to come, and the student's own of
  line 132. That one happens: a student still on its first chair comes back with
  the spare unit of `sem_ta`, finds the room full, is taught between lines 129
  and 132, sets its status back to 0 and asks for another lesson. Nothing says
  that a student is taught only once, so this is recorded as a hazard and not as
  a defect.

`sem_ta` starts at 1, so the first student to sit does not wait and may take a
second chair before it is taught; `count` then counts chairs, not students.
Fairness: weak for main, strong for the TA and each student. A thread waits for
at most one thing at a time, the mutex or a semaphore, and between two requests
of the same thread lies a sleep of at least a second; a waiter for a thing that
is free again and again gets it. With weak fairness a student could starve at
`sem_ta` or at the mutex, always passed by the others, and `LessonKept` would fail.
The last action, `Closed`, is the state in which the students have left
and main waits for a TA that never returns.

### LRUPaging, VirtualMemory

`LRUPaging` is demand paging with exact LRU replacement and reads that return
the byte of the backing store. `VirtualMemory` keeps the page stack as the
`next` and `prev` pointers of its nodes and performs the pointer assignments in
the order of the code; the TLB has its own time stamps.

* `StackWellFormed`: the stack is a doubly linked list of the valid pages.
* `TLBIsTopOfStack`: the TLB holds the pages on the top of the stack, with their
  frames. Eviction does not touch the TLB and a hit does not look at the valid
  bit; this is why that is right, given at least as many frames as TLB entries.
* `IsLRUPaging`: refinement; faults, replacement and the byte read.

### Banker

One action per outcome of a command. `Safety` is the code's scan: `Look` at one
customer, a `Pass` over all of them, and `Passes`. The code makes passes until
one adds nobody; the model makes as many as there are customers, after which
further passes change nothing (`PassesSuffice`).

* `UnitsConserved`: the units add up, for each resource and each customer, and no
  allocation or need is negative, which is what the cut in `release_resources` is
  for. `AlwaysSafe`, and `RefusedIffUnsafe`: the scan agrees with the textbook
  definition (an order in which all can finish).

Quantities are natural numbers; the code checks neither signs nor, in
`release_resources`, the customer's index.

### Allocator

The list between the sentinels is a sequence. The searches, release, compaction
and the report are loops over it, as in the code. Its specification is
`MemorySpec`.

* `NoOverlap`, `FitsAreRight` (each search finds the hole its name says, the
  lowest of several; a request is rejected only if no hole is large enough),
  `CompactionGathers`, `StatusCoversMemory`.

A request for 0 units is granted; `show_status` takes the process for the TAIL
and does not print it, so `StatusCoversMemory` is stated for lists without one.

### ListScheduling, ReadyQueues, RoundRobin, Scheduling

`driver.c` is linked with one of five schedulers; `policy` is which.
`ListScheduling` covers the three that run each task to its end, `RoundRobin`
the two that rotate lists, down to the pointers and to the dangling or
self-referring moments of a rotation. `ReadyQueues` is what the two promise.
`Scheduling` is the Makefile: it links the driver with any of the five. Its
specification is `DriverSpec`.

* `FifoAmongEquals`: the list is ordered by the policy's key, ties by arrival.
* `SJFWaitsLeast`: no other order makes the tasks wait less in total.
* `ListsWellFormed`, `IsReadyQueues`, `EveryTaskServed` (the program ends and
  every accepted task has then been given its burst).

`schedule_priority.c` runs small numbers first, `schedule_priority_rr.c` large
ones; nothing in the repository says which is meant, and each is modelled as it
is. Fairness: a sequential program goes on while it can.

### MultithreadedSort, QuickSort, MergeSort, Sudoku, Project3

Four programs of one shape: main hands parts of its data to threads or tasks
that take no lock, waits for all of them and prints. `Project3` runs any one of
them. In `MultithreadedSort` and `QuickSort` every access to the shared array is
a step, the three statements of an exchange included. The threads of
`multithread_sorting.c` race for the array, so the model lets the compiler
either keep the element it has compared or load it again. Tasks of Mergesort and
threads of the Sudoku checker own what they work on until they are joined; what
they do in between is one step.

* `AnswersRight`: what main prints is right in every interleaving. For the
  checker this is the definition of a solution; for the sorts, that the result
  is ascending and holds the same numbers. The multithreaded sort has the
  property only if its merger reads nothing before both sorters are done, which
  the program does nothing to ensure: all three threads are created at once, and
  no comment says what is meant. The history variable `early` records it.
* `TasksStayInRange`: `selection_sort` of a Quicksort task scans to the end of
  the array, through cells other tasks are rearranging. It never finds its
  minimum there, because those cells hold nothing smaller at any moment, the
  middle of an exchange included: no task writes outside of its range.
* `ProgramsEnd`: main gets past its joins. Fairness: weak, for the program as a
  whole; every thread and task has finitely many steps.

### Shell, ProcEntry, Osh

`Shell` is the loop of `shell.c` and the code its children run up to
`execvp()`. A child gets a copy of the shell's locals with `fork()`, so that the
shell may put the word back behind the arguments before a background child has
called `execvp()`. The programs themselves are external: they write some units
of output, and a filter first reads its input to the end. The tables of the
kernel are bounded and their limits are reached: no descriptor for a
redirection or a pipe, no process for either fork, and a second command that
does not exist, with whose process the read end of the pipe goes away. The
second command's arguments are what `args` holds when line 160 runs, before the
word is put back.

`ProcEntry` is the entry of one of the three modules, `entry` says which. Every
access to `completed`, `pid` and `jiffies` is a step; `jiffies` wraps around.
`Osh` is the shell whose commands `cat`, `head` and `echo` use the entry, with
the module loaded and removed under it.

* `RunsWhatIsTyped`: the arguments and streams of every program are what the
  line means, `Meant`, which is defined on the words typed and not by the
  buffers: whatever lines were typed before, and for `!!` the last command
  before it. It is about lines that are `Supported`: each symbol once, `<`
  before `>`, and `&` at the end. In other lines the code's arguments contain
  the rest of a redirection. Two cases are as the code has them. With both redirections there
  is one descriptor variable, and both streams go to the input file. And if the
  input file cannot be opened the command reads the terminal, also a file that
  exists once the descriptors have run out (next point).
* `PromptIsClean`: at the prompt, every process of a line without `&` is gone and
  reaped, `args` holds no NULL, and exactly one descriptor is open per line with
  an input redirection. The code closes only output descriptors, so a shell
  runs out of them after some number of `<` lines; zombies of `&` lines pile up
  in the same way, until "Fork Failed." ends the shell.
* `PipelineDelivers`: the second command reads nothing before the first has
  ended, and misses none of its output.
* `PromptReturns`: the shell comes back to the prompt or ends, unless the output
  of the first command does not fit into the pipe (`Blocked`): the code waits
  for the first command before it reads. Failing forks, pipes and `execvp`
  included, and readers of an entry that disturb one another.
* `QuietMeansClear`: whatever the interleaving of complete reads, `completed` is
  0 when the last reader has gone. A reader that stops after its first call
  leaves it set, and the next one gets nothing.
* `AnswersTrue`: a program that has the entry to itself gets exactly one answer,
  and one that was true while it had the entry open: the seconds since loading,
  across the wrap of `jiffies`, and the process that was asked for. Of two
  concurrent readers one may get no answer and the other two, a reader that
  comes before `init_jiffies` is set sees the time since boot, and a write between
  the two reads of `pid` mixes two processes; the property claims nothing then.

Fairness: weak, for the shell and each process; none for the user, for loading
and removing the module, or for the clock.

Left out: a line with a pipe and a redirection (the second command's arguments
are then not ended by a NULL), the end of the shell's input, and words and lines
longer than the buffers.

## 3. The runs

| Run | Instance | Distinct states | What it shows |
|---|---|---|---|
| `dining` | N = 5, as compiled | 8.7 thousand | exclusion, no lost wake-up, everybody eats |
| `buffer` | 2 producers, 2 consumers, 2 items, 3 slots, 2 runs, symmetric | 1.9 million | tokens, capacity, no stall while running and while joining, refinement, with kills and restarts |
| `buffer_exit_hangs` | 1 producer, 1 consumer, 2 runs | - | counterexample: the joins of a second run hang |
| `pool` | 3 workers as compiled, 3 tasks, 2 slots | 512 thousand | queue, accounting and shutdown until an underflow |
| `pool_null` | 2 workers, 2 tasks | - | counterexample: a worker executes an empty slot |
| `office` | 2 students, 2 chairs | 6.5 thousand | ring, semaphores, everybody called, no lesson lost |
| `paging` | 5 pages, 3 frames, TLB of 2, 7 references | 43 thousand | stack, TLB coherence, exact LRU |
| `banker` | 3 customers, 2 resources, up to 2 units | 27 thousand | conservation, safety, exactness of the scan |
| `allocator` | 5 units, up to 3 processes of 2 names | 2.7 thousand | overlap, searches, report, compaction |
| `scheduling` | all five programs; up to 4 tasks, 2 levels, quantum 2, bursts 1, 2, 5 | 55 thousand | order, optimality of SJF, lists, refinement, completion |
| `project3` | arrays of 4 and 5 numbers out of 3; 4 x 4 puzzles, 12 threads | 230 thousand | answers, ranges, ends |
| `osh` | 4 lines of the shell alone, 3 with task_info, 2 with a clock; 3 processes, 3 descriptors, a pipe of 2 units | 581 thousand | what runs, clean prompt, pipelines, entries |

Why the bounds are enough. `buffer`: three slots make both full and empty
reachable and let the indices wrap; two runs are what it takes to inherit
semaphores, and a third would inherit from a second what the second inherits
from a first. `pool`: three tasks overflow two slots and let a fast worker empty
the queue under the others. `office`: a student that takes both chairs turns the
other away, and is taught twice; the invariants are proved for any number of
students and chairs. `paging`: more
pages than frames and more frames than TLB entries, and enough references to
fill the frames, evict, refer to the evicted page again and evict once more; two
addresses with an offset other than 0, and one beyond the page table, whose page
number wraps. `banker`: three customers are the least for which one scan is not
enough in more than one way. `allocator`: three processes make four holes, with
ties. `scheduling`: bursts below, at and above the quantum (5 is two quanta and
a rest), and a priority no level has. `project3`: four numbers make two halves
that both need a merge; five numbers with a limit of four let one Quicksort task
split, and its halves run `selection_sort` next to each other; each wrong puzzle
is wrong in another kind of region. `osh`: four lines are what it takes to use up
the descriptors and then ask for one more, or to type a long line, a short one
and `!!`, also with words behind it; three processes allow two readers and a
writer, or a pipeline next to a background child; a pipe of two units holds one program's output and not the
other's; two ticks cross a second and the wrap.

Every property of a passing run has a mutant in `PROJECT.json`: a definition of
the model changed as a plausible bug of the code would change it, which violates
the property. The mutated forms stand before the definitions they replace.

Deadlock is checked in every run but `osh`, where a blocked pipeline and a user
who types nothing more are real ends; where a program ends, an action that changes
nothing (`Joined`, `Finished`, `Ended`, `Closed`, `EndOfFile`, `Exit`) says so.

## 4. The proofs

A component's theorems and their proofs are in a module of their own,
`<Component>Proofs`; what several of them need is in `ProofLemmas`. Three modules
prove about a pair of systems of one kind: `SemaphoreProofs` about the two that
meet at semaphores, `ResourceProofs` about the two that hand out a resource,
`LinkedListProofs` about the two that keep their order in a linked list. The
theorems hold for all values of the constants that the named assumptions of the
module allow, and no other assumption is made but where it is said below.

| Module | Theorems, each `Spec => ...` (`DriverSpec` for `Scheduling`, `MemorySpec` for `Allocator`) unless it says otherwise | Assumptions |
|---|---|---|
| `SemaphoreProofs`, of `DiningPhilosophers` | `TableInvariance`, `SemaphoresBinary`, `ForksExclusive`, `WakeupKept` | N >= 2 |
| `SemaphoreProofs`, of `SleepingTA` | `Invariance`, `OfficeTypeCorrect`, `OneAtTheChairs`, `ChairsStayRing`, `SemaphoresStayBalanced` | of `SleepingTA` |
| `ProducerConsumerProofs` | `UnitsExact`, `RoomForEveryUnit`, `ThreadsNeverStall`, `ImplementsBoundedQueue` | at least 2 slots; for `ThreadsNeverStall` a producer and a consumer |
| `ThreadPoolProofs` | `TypeCorrect`, `OneAtTheQueue`, `TasksAccounted`, `ShutdownLosesNothing`, `ImplementsQueue` | of `ThreadPool` |
| `ResourceProofs`, of `Banker` | `UnitsAreConserved`, `RefusedExactlyIfUnsafe`, `BankStaysSafe`; `PassesSuffice` (of `safety()`, for all matrices) | of `Banker` |
| `ResourceProofs`, of `Allocator` | `ProcessesStayApart`, `SearchesAreRight`, `CompactionIsRight`, `StatusIsComplete` | of `Allocator` |
| `LinkedListProofs`, of `VirtualMemory` | `TypeCorrect`, `StackStaysWellFormed`, `TLBStaysOnTop`, `ImplementsPaging` | of `VirtualMemory` |
| `LinkedListProofs`, of `Scheduling` | `TiesRunInOrder`, `ShortestFirstWaitsLeast`, `ListsStayWellFormed`, `ImplementsReadyQueues` | of `Scheduling` |
| `Project3Proofs` | `WritesStayInRange`, `QuicksortIsRight`, `MergesortIsRight`, `VerdictIsRight`, `MergerLastIsRight`, `AnswersAreRight` | of `Project3` |
| `OshProofs`, of the entry | `EntryRecovers`, `ReadersGetTheTruth` | of `Osh` |
| `OshProofs`, of the shell | `ShellCleansUp`, `PipelinesDeliver`; `ShellRunsLines` for `SupportedLines` | of `Osh` |

### DiningPhilosophers

All three properties follow from `TableInvariance`, `Spec => []TableInv`.
`SemaphoresBinary` is more than typing: no philosopher is ever granted its forks
twice. None of the properties is inductive by itself. `TableInv` adds what
the code relies on without saying so: the mutex is 0 exactly while one thread is
inside (`MutexInv`), `state[i]` is what the position of thread i says, or
`EATING` if a neighbour has granted it (`StateInv`), a post is pending exactly
between a grant and its consumption (`PostInv`), neighbours are never both
`EATING` (`EatInv`), a thread about to grant still sees the condition it tested
(`GrantInv`), and a hungry philosopher that nobody covers will be tested by the
thread inside (`WakeInv`). `StepInv` has one lemma per action; the arithmetic of
the ring (`Neighbours`: left and right are inverse to each other, and differ
from the philosopher itself) is proved once, from two lemmas about `%`.

### Shared lemmas

`ProofLemmas` derives induction over the natural numbers from the library's
theorem that `<` is well-founded on them, stated for sets: a set that holds 0 and
with every number the next one holds them all. From that follow that a
recursive function on `0..N` exists (`RecursionExists`) and is unique
(`RecursionUnique`). Every loop of the code that the model writes as a recursive
function is proved about in the same way: one lemma says what the function goes
through (`PassDef`, `BestFitDef`, `KeptDef`...), a second one, by induction on
what has been looked at, what it returns. A function whose recursion goes down
some other measure exists by `MeasureRecursion`. The module also holds the arithmetic
of rings (places `0..n-1`, distances, and `Contents`, the sequence between two
indices, with what appending to it and taking from it do) and how the number of
threads in given places changes when one of them moves (`NumberStep`).

### ProducerConsumer

The invariant counts: the units of the two semaphores, the producers and
consumers between a `sem_wait` and the matching `sem_post`, and the occupied
slots. In the first run the sums are exact (`UnitsExact`). After a run that was
killed they are not, but the units of `empty` never outnumber the free slots
(`RoomForEveryUnit`), and that is what the refinement needs: a producer finds
room in every run, so a write is a `Put` of `BoundedQueue`. A run that inherits
too many units of `full` makes consumers find the buffer empty; they then take
nothing. `ThreadsNeverStall` argues from the exact sums: if all producers wait
for `empty` and all consumers for `full`, both semaphores are 0 and nobody is in
between, so the slots would be neither free nor occupied. Without a producer (or
a consumer) the claim is false, hence its two hypotheses; both numbers are
arguments of the program.

### ThreadPool

Up to an underflow, `IInv` follows each accepted task: it is in one slot of the
queue, in the hands of one worker, or executed once (`SlotInv`, `HandInv`,
`TaskInv`). A slot leaves the queue when a worker has copied it, before `head`
moves, and enters it when `tail` moves. That workers test `head == tail` without
the mutex costs nothing as long as the dequeue finds a task. The client's test
before it clears the token, from two loads at different times, could be stale;
it is sound because nobody but the client enqueues, so equal values mean that
the queue was empty at the second load and stays so (`ShutdownInv`). Hence
`ShutdownLosesNothing`.

### SleepingTA

The ring and the semaphores need each other: the TA never calls an empty chair
because, standing at the chairs, it holds the announcement of an occupied one,
so `count = sem_stu + seated + called` (`BalanceInv`) is part of the invariant
that `ChairsStayRing` needs. The bounds of the semaphores in `OfficeTypeOK` follow
from the balance.

### Banker

`UnitsAreConserved` is inductive; its work is a lemma about sums of which one
term changes. `RefusedExactlyIfUnsafe` is about `safety()`: the order in which
the scan finishes customers is a safe order (`Orderly`), and conversely, when
nobody is left whom the scan can finish, what it has free is at least what is
free at any point of a safe order (`PartLess`), which therefore finishes
everybody. That the code's passes come to such an end is `PassesSuffice`.
`BankStaysSafe` follows: a granted request has been scanned, and after a release
any safe order stays one.

### Allocator

`NoOverlap` is inductive together with the type. A search returns a node whose
hole is large enough, whichever it is, so an insertion keeps the processes apart
(`InsertKeeps`); what release keeps is a part of the list in its order
(`ReleaseKeeps`); compaction moves each process to the end of the one before,
which has moved down itself (`CompactionMoves`). `SearchesAreRight` follows the
three loops with what each has found so far; that no hole is larger than `MAX`
makes the first `best_vol`, `MAX + 1`, larger than any. For `StatusIsComplete` the
report is followed interval by interval: those printed up to a node account for
the addresses below its end once and for no other (`Told`).

### VirtualMemory

The pointers are reasoned about through the sequence of pages they link
(`Stacked`): the pointer assignments of a push, of a move to the front and of
an eviction are shown to do on that sequence what their names say, also when
the page is on the top already and for a moment points to itself. From there
on the invariant is about the sequence.

`TLBIsTopOfStack` needs all the rest. An entry of an evicted page would answer
with a frame that holds another page by then, and nothing removes entries of
evicted pages. It never happens because the TLB holds the first pages of the
stack, at most as many as there are frames, and the page evicted is the last.
That the TLB holds the first ones is kept by a TLB miss only if the entry
replaced is that of the page that leaves this top part, and the code chooses it
by time stamps: the invariant says that the stamps are ordered as the stack is
(`Stamped`). With the contents of the frames (`memory` is what the page table
says, and the free frames are the others) this makes each step a step of
`LRUPaging`, whose recency list is the sequence.

The hypothesis that the TLB has no more entries than there are frames is one of
the named assumptions; the code's sizes (16 and 256) satisfy it.

### Scheduling, the list programs

`ListInv` says that the tasks that have run, followed by those on the list, are
all the tasks added, ordered by key and among equal keys by arrival (`Sorted`).
The work is in `InsertSorted`: the place at which the walk of `add()` stops is
behind every key up to the new one and before every larger one, and the new task
has the largest number. `TiesRunInOrder` is then the definition.

`ShortestFirstWaitsLeast` is the textbook theorem about shortest-job-first, for
the list that `schedule_sjf.c` keeps. `StartsFirst` is its core: the task that
runs in place k starts no later than the task in place k of any other order. Let
c be the burst of the task in place k. Weigh each task by its burst less c.
Those that run before place k weigh at most 0, all others at least 0, so the k-1
that the program takes weigh no more than any other k-1 tasks; and because there
are k-1 on both sides, the c's cancel (`SumsDiffer`). Both sums are totals over
the numbers of the tasks (`Front`), where they can be compared term by term,
whatever the order. `TotalWaitIs` says that `TotalWait` adds up the starts.

### Scheduling, the round-robin programs

As in `VirtualMemory`, the pointers are reasoned about through the sequences they
link (`Chained`), here one for each level: `AppendChains`, `TailChains` and
`RotateChains` show that `add()`, the removal of a finished task and the four
assignments of a rotation do on the sequence what their names say, also when a
task is alone in its list and for a moment points to itself. `SwitchList`
carries this over to all the levels, which stay apart because no task is in two
of them (`Shape`). The invariant adds what the steps rely on: while the input is
read, `rear` is NULL for an empty list, and the nodes of the tasks to come still
point to NULL (`Input`), which is why `add()` need not set the pointer of the
node it appends; later, the levels that have been served stay empty, and
`schedule_rr.c` uses one level only (`Served`). After the last task of a level has
finished, `rear` is stale; nothing appends to that list any more.

From the invariant, `ListsStayWellFormed` reads off that each list ends, and
`ImplementsReadyQueues` that each step is an `Arrive`, a `Run` or none of theirs,
the sequences being the queues.

### Project3, Quicksort

A task knows what the loop it is in has established for its own range
(`Local`: what has been scanned is on the right side of the pivot, what has been
selected is in order and not larger than the rest), and no other active task
writes there, since the ranges of the active tasks are disjoint and a task that
has forked does nothing but wait. No tree of tasks is needed for that.

What the tasks know together is said of the array as it would be if every
exchange that has begun to move elements were made (`Shows`); the three
statements of an exchange then happen in one moment, and the array is a
rearrangement of the input at all times (`Permuted`). The invariant `Ordered`
says that two places that are not in the range of one task are in order. It is
what `selection_sort` relies on when it scans to the end of the array: whatever
it finds behind its range, the middle of another task's exchange included, is
not smaller than what its own range holds, and it takes a later place only for a
strictly smaller element. So its minimum is in its range, which is
`WritesStayInRange`. A fork keeps `Ordered` because the partition is finished
(`Parted`). When no task is active any more, no two places are in one range, so
`Ordered` says that the array is ascending: `QuicksortIsRight`.

### Project3, Mergesort

A task's array is its own, so the invariant `TasksHold` needs no tree either: the
array of a task has the numbers of its part of the input, each as often, is that
part itself until the task has split it, and is ascending when the task has
returned; and the halves of a task that waits in its join are tasks. What remains
is about the two algorithms. `SelectionSorts` goes turn by turn over the recursive
function of the outer loop. `MergeIs` goes over what the two sequences have left
(`Merged`: what is still to be appended is ascending, has the numbers that are
left, each as often, and no other), and it is symmetric in the two sequences, so
that a step of one loop is proved once. Numbers are counted (`CountIn`), and the
lemma `CountJoin` adds the counts of two sequences; the halves of a part, joined,
are that part (`HalvesAre`).

### Project3, the multithreaded sort

`merge_sort()` is the list of the calls of `merge()` that it makes, and the array
between them is what matters. `Plan` says what a list of calls still to come
relies on: each of the two parts that a call will merge is in order already and
no call before touches it, or an earlier call leaves it so; and the last call is
for the whole range. The list a thread starts with is such a plan
(`CallsPrepared`, by induction on the width of the range, `MeasureRecursion`),
and a plan without its first call is one for the array as that call leaves it
(`PlanNext`).

Inside a call, a thread that copies has in its `b`, in order, the elements it has
passed (`Copying`); whether the compiler keeps an element it has compared or
loads it again makes no difference, because no other thread writes into this
range. A thread that writes back knows the array that it will leave
(`AtWrites`); numbers are counted as in the other sorts. The sorters' ranges are disjoint, so
what one does leaves the other's invariant alone (`OtherKeeps`), and when the merger comes
last, what the two leave in order is what its one call needs (`Handover`). With
`early` nothing is claimed. `AnswersAreRight` puts the four programs together.

### Project3, the sudoku checker

`VerdictIsRight` rests on two facts. Main's loops create a thread for each row,
column and box (`AllCreated`, through the library's `FlattenSeq`), and the
element of `valid[]` a thread owns is no other thread's (`OwnIndex` is injective
on the threads, which is arithmetic with `\div` and `%`); so an element that is
1 was set by the thread that owns it. And a region has as many cells as there
are numbers, so a region of numbers in range without a repetition holds them
all, which is what `IsSolution` asks. The invariant says of every thread that it
is still to be created, or runs, or has ended and left in its element what its
region deserves.

### Osh, the entry

`EntryRecovers` is `Spec => []QuietMeansClear`, for all lines, programs, numbers
of processes and ranges of the clock. The property says nothing while somebody
reads, so it is not inductive. Its invariant adds `ReaderRemains`: as long as
`completed` is set (and nobody has stopped early) some reader has not yet seen
the end of the file. The reader that sees it clears `completed` in the same
call, so it never leaves it set behind itself; whoever sets it has the end still
to come. `BecomeInv` covers the steps of `proc_read` that leave `completed`
alone, `ReadInv`, `OpenInv`, `CloseInv`, `WriteInv` and `KernelInv` the rest.

`ReadersGetTheTruth` is `Spec => []AnswersTrue`. Its invariant `AnswerInv`
follows a reader that has been alone since it opened the entry (`calm`) from
call to call: `completed` is as the reader has left it (`Progress`), and what
it has been told, or is about to be told, was true at some moment since it
opened the entry (`Answered`). The clock moves while it reads, and `jiffies`
wraps; `TimeInv` keeps `init_jiffies` at the value `jiffies` had when the module
was loaded, so that their difference modulo the width is the time since then.

### Osh, the shell

One invariant, in layers, each of which needs the one before:

* `PromptInv` is about the shell's own variables: the line that was typed last
  and the flags and indices (`TypedInv`); `args` holds the words of that line,
  with one NULL from `open()` until the shell has waited, at the place the
  index says (`ArgsInv`); the descriptors are the leaked ones and that of the
  line at hand (`FilesInv`); a process is the shell's child or the child of a
  child, and a pipeline is in order: the first command has been waited for
  before the second is executed (`TreeInv`); and a line without `&` leaves
  nobody behind (`ForegroundInv`). `ShellCleansUp` needs no more.
* `SoundInv` is about what `fork()` has copied: each process has, until
  `execvp()`, the arguments and the flags of the line it was made for, although
  the shell goes on to change its own (`MemInv`), and after it runs what they
  say (`RunInv`); no file is taken for a pipe (`NamesInv`).
* `PipeInv` counts: what the first command has written is in the pipe or has
  been read. It gives `PipelinesDeliver`.

`ShellRunsLines` then reads off what a process runs: the words up to the first
symbol, or behind the `|`, as `Meant` has them. This is where the lines must be
supported, and `SupportedLines` is a hypothesis of the theorem and not of the
model: the model says what the code does with other lines, which are not what a
user means. TLC evaluates it for the lines of `MCOsh`. That `!!` runs the line
before it is part of `TypedInv`: the buffer `history_args` and the flags belong
to the last line that was a command.

The proof of `ShellRunsLines` is what showed that the model had put the word
back into `args` before the arguments of the second command were taken, and had
left units behind in the pipe of a second command that does not exist. TLC had
not, because no line of the instance had such a command; it has one now
(`ls | nothing`).

### Model-checked only

* Liveness, and what involves fairness or `ENABLED`, which the prover does not
  treat: `EveryoneEats`, `EndsUnlessUnderflow`, `EveryChairServed`,
  `LessonKept`, `EveryTaskServed`, `ProgramsEnd`, `PromptReturns`.

The `TypeOK` of a module that no run checks is written down for its proofs.

## 5. The plan

Done: the modules above, in the order project5 (the concurrent programs),
project8, project6, project7, project4, project3, project2 and project1, and the
proofs about all of them.

Every safety property that a run checks is proved. Left, if the project is taken
further: the liveness properties, with a prover that treats fairness.

No module uses a `RECURSIVE` operator; recursion is written as recursive
functions, so that every module can be proved about.

## 6. Left out, everywhere

Formatting, prompts and logging, except where a `printf` is a cancellation
point; memory allocation that fails; reading of malformed input files; sleeps,
which carry no state (a thread may pause before any step).
