# Verification of the COMP 530 programs

The repository holds three independent C programs from a course on operating
systems: an LRU tracker driven by threads (`lru-matt`), a replacement for
`malloc` (`malloc-lab3-ernest`) and a shell (`thsh-matt`, with an earlier
snapshot in `thsh-matt-1`). This directory holds TLA+ models of them, the TLC
runs that check the models, and TLAPS proofs about them.

To check a run: `tlc -config <cfg> <module>`; to check the proofs:
`tlapm <module>` with each of `SequentialLruProof.tla`, `MutexLruProof.tla`,
`SelfTestProof.tla`, `AllocatorProof.tla`, `HeapProof.tla`,
`CommandLineProof.tla`, `ShellProof.tla` and `PathSearchProof.tla`.

## 1. Inventory

### LRU tracker (`src/lru-matt`)

One driver, `main.c`, is linked with one of three implementations of `lru.h`.

| Part | State | Operations | Modelled by |
|---|---|---|---|
| `sequential-lru.c` | linked list sorted by key (`list_head`), `count` | `reference`, `clean`, `print` | `SequentialLru` |
| `mutex-lru.c` | the same list, `mutex`, `cv_low`, `cv_high`, `done` | the same, `shutdown_threads` | `MutexLru` |
| `fine-lru.c` (unfinished) | the same, a mutex in every node | the same | `FineLru` |
| `main.c` | `finished`, `separate_cleaner_thread`, each client's `counter` | `client`, `delete_thread`, `self_tests`, `main` | `MutexLru` |

Interaction: clients call `reference` with random keys; the cleaner calls
`clean(1)`; a single client calls `clean(0)` itself after every 64 references.
Everybody meets in the mutex, in the two condition variables and in the flags
`finished` (read by the loops) and `done` (read after a wait). `main` sets the
flags, broadcasts and joins the clients.

Hard behaviour: interleavings of critical sections, waits that give the mutex
up, one signal for several waiters, spurious wakeups, a shutdown that races
with clients on their way into a wait, `malloc` failing in an insertion, a
node freed under the cursor of the walk.

Correct means: the list stays sorted, complete and free of dangling pointers;
`count` is the number of nodes; the list stays within the water marks; no
thread sleeps through the event it waits for; the shutdown ends the program.

### Allocator (`src/malloc-lab3-ernest/th_alloc.c`)

State: per size level a chain of superblocks with `free_objects` and
`whole_superblocks`; per superblock a free list threaded through the free
objects, and `free_count`; a list of big objects. Operations: `malloc` (with
`size2level` and `alloc_super`) and `free` (with the loop that gives whole
superblocks back). It talks to the kernel (`mmap`, `munmap`) and to itself:
big objects get their list nodes from a recursive `malloc`. `pthread_create`
exits the process, so there is one thread.

Hard behaviour: three sets of counters that decide when memory is mapped and
unmapped, links stored in memory that is also poisoned, pointers into pages
that are being unmapped, failures of `mmap`.

Correct means: the counters agree with the objects in use, no object is handed
out twice, no page is unmapped under an object and none leaks, `free` returns,
the size level fits the request.

### Shell (`src/thsh-matt`)

| Part | State | Operations | Modelled by |
|---|---|---|---|
| `parse.c` | the line buffer, `errno` | `read_one_line`, `parse_line` | `CommandLine`, `Parser` |
| `thsh.c` | the stage index, `infd`, `pipefd`, `infile`, the open descriptors | `main` | `Shell` |
| `jobs.c` | `path_table` | `init_path`, `run_command` | `PathSearch` (the search), `Shell` (the processes) |
| `jobs.c` | the job list | `create_job`, `find_job`, `wait_on_job` | not modelled |
| `builtin.c` | the working directory, `old_path` | `handle_builtin`, `handle_cd`, `handle_exit` | `WorkingDirectory`, `Shell` |

`main` reads a line (`read_one_line`), parses it (`parse_line`) into stages and
redirections, opens files and pipes, and gives each stage to `run_command`,
which forks, looks the program up and waits, or to the builtins.

Hard behaviour: descriptors that outlive a command line, child processes that
return into the main loop, stages that are run one after the other although
they are joined by a pipe, tables of fixed size, a parser that works in place,
system calls that fail, a file system that others change meanwhile.

Correct means: what is typed is parsed as the handout says; a command line
leaves the shell's descriptors as they were; a program gets the input the line
names; lines that can end do; the first program on the path runs; `cd` and
`cd -` lead where they say.

`thsh-matt-1` is an earlier snapshot of the shell; the test programs
(`test.c`, `test1.c`, `parser_tester.c`, `test_env.c`) and the build files
have no state of their own. The tests say how the components are used. Of the
snapshot only `init_path` is taken up: its way of counting appears as
`SlotsTwice`.

`PROJECT.json` lists the components with their status, the hazards with their
lines, and the lines of code each definition translates.

## 2. Modules

| Module | What it is |
|---|---|
| `LruCache` | What `lru.h` promises: a reference count for every key, raised by `reference`, lowered by a cleaning pass. No lists, no threads. |
| `SequentialLru` | The linked list, one step per loop iteration, over nodes that are allocated and freed. Implements `LruCache`. |
| `SequentialLruProof` | Its proofs. |
| `MCSequentialLru` | Instance for TLC. |
| `MutexLru` | The threaded program: `main.c` with `mutex-lru.c`. |
| `MutexLruProof` | Its proofs; implements `LruCache`. |
| `SelfTestProof` | The proof about the self tests of `main.c`. |
| `MCMutexLru` | Instances for TLC. |
| `FineLru`, `MCFineLru` | The unfinished fine-grained list, as far as its code gets; an instance. |
| `Heap` | What `malloc` and `free` promise their caller: blocks of memory. No superblocks, levels or free lists. |
| `Allocator`, `MCAllocator` | Superblocks, free lists, big objects; implements `Heap`; instances. |
| `AllocatorProof` | Its proofs. |
| `HeapProof` | The proof that it implements `Heap`. |
| `Parser` | `parse_line` as a function of a line. |
| `Grammar` | What the handout says a line means, and the kinds of lines on which `parse_line` differs. |
| `CommandLine`, `MCCommandLine` | `read_one_line` over a terminal or file that may end or fail, then `parse_line`; an instance. |
| `CommandLineProof` | Its proofs. |
| `Shell`, `MCShell` | The main loop with its stages, descriptors and processes; an instance. |
| `ShellProof` | Its proofs. |
| `WorkingDirectory` | `cd`. |
| `PathSearch`, `MCPathSearch` | `init_path` and the search for a program, composed with `WorkingDirectory`; an instance. |
| `PathSearchProof` | Its proofs, with those about `cd`. |

Operators called "Mutated form of ..." are deliberate mistakes, each next to
the definition it distorts; put in its place, they make some property fail,
which shows that the property depends on the code.

### SequentialLru

Nodes are addresses; `live` is the set of allocated ones and `heap` their
contents. A call of `reference` is `CallReference`, some `SearchAdvance`
steps, and then `SearchHit`, `Insert` or `NoMemory`; a call of `clean` is
`CallClean`, one `CleanKeep` or `CleanDrop` per node, and `CleanReturn`. The
locals `cursor` and `last` are variables, so what they point to can be checked
between any two iterations. Any free address may be what `malloc` returns, and
it may fail at any time.

`ImplementsCache` maps this to `LruCache`: the abstract count of a key is the
`refcount` of its node, less one if the running pass has still to reach the
node. So a pass takes effect when it starts (`CallClean`) and the steps of its
loop are stutters; a reference takes effect at `SearchHit` or `Insert`.
`CallsTakeEffect` ties each abstract step to the call that is running, which
`LruCache` alone cannot: there, a pass that forgot to age one node would look
like a reference to it.

### MutexLru

Inside its critical sections `mutex-lru.c` repeats the two loops of
`sequential-lru.c`. Since `SequentialLru` shows that they implement
`LruCache`, and the mutex keeps others out, the list here is the function
`refs` from keys to counts; `count` is kept as the code keeps it.

`pc[t]` says where thread `t` is. `reference` is `RefLock` (take the mutex),
then `RefBlock` (list full: give the mutex up and sleep on `cv_high`) or
`RefEnter`, then `RefHit`, `RefInsert` or `RefNoMemory`, `RefSignal` (signal
`cv_low`) and `RefUnlock`. A woken thread is at `refWake` until `RefRelock`
gets the mutex and looks at `done`. `clean` has the same structure, with
`CleanEmpty` for the early return on an empty list. `Signal` wakes one of the
threads blocked on a condition variable, any one; `Spurious` wakes one without
a signal; `ShutdownBody` wakes all. The main thread runs the self tests of
`main.c` through the same actions, creates the threads (which may fail),
sleeps, shuts down, joins the clients and prints. When it returns or exits the
process is gone and no thread moves.

### Allocator

A pointer is a pair of a page and a slot, slot 0 being the start of the page.
A superblock with objects of level `l` has `FullSb(l)` = 2^(LEVELS-l) - 1
objects besides its bookkeeping: 127 down to 1 for the seven levels of the
code. `next` is the first word of every object, which is where the free list
has its links, where `malloc` writes ALLOC_POISON and `free` FREE_POISON.
`malloc` is one step (`Malloc`, `MallocBig` or `MallocCrash`), as the
allocator is single-threaded; `free` is `FreeObject` or `FreeBig` and then one
step per iteration of the release loop, so that its `curr` can be checked.
`held` is what the caller has; the caller frees only what it holds, once, and
may free the MAP_FAILED it was given. The crashes that the code really has are
states; for the asserts (lines 241 and 322) there are the properties
`SearchSucceeds` and `ChainSafe` instead. `size2level` counts how often the
size has to be halved until it is at most one; the code halves a double, which
is exact. Its comment promises -1 for a size that is too large, which it never
returns; `malloc` does not use the result then. `asked` records the request
behind each pointer.

`ImplementsHeap` maps this to `Heap`. `BlockAt` is the block behind an address:
where it starts in its page, how long it is (the object size of the level that
the bookkeeping names, or what was asked of `mmap`), whether all of it is
mapped, and the first word, as the poison, the links and the free lists have
left it. In `Heap` only `Malloc` adds a block, which must be long enough and
apart from the others, and only `Free` takes one away; so a step that moved,
shrank, unmapped or overwrote a block in use would not be a step of `Heap`.
`CallsTakeEffect` ties each step to the call that is running: without it a
`malloc` that handed out an address twice would pass for a stutter, as the set
of blocks would not change, and a `malloc` that lost a block for a `free`. A
failed `mmap` gives the caller MAP_FAILED and no block.

### FineLru

The code reaches few states: the second `reference` returns before it inserts
(line 146), keeping its locks, and a pass over a list with a node does not
return. So there is at most one node, and the module says so. Fields that are
not initialised have any value.

### Parser, Grammar, CommandLine

A line is a sequence of characters; what `strchr`, `strtok_r` and the string
ends written into the buffer do are operators on sequences. `Redirection`
stands for one of the blocks that find `<` or `>`, the file's name and the rest
of the pipeline; `FirstStages` and `LaterStages` for the two loops that divide
at bars, the second of which divides at spaces too. `Grammar` is not
translated from code: it gives each word its role from the characters around
it, so that the two definitions have nothing in common. `Handled` names the
lines on which they agree:

* `a >f <g`: the input file is not seen, nor the name of the output file when
  there is no space;
* `a >f b`: an argument after a redirection is dropped, and a command after it
  as well (`>f a`);
* `a <f | b c`: behind a redirection's bar every word is a stage;
* `a >f#`, `a >f | b #`: the `#` becomes part of a word.

`CommandLine` has one step per turn of the loop in `read_one_line`. At end of
file a line that was begun is lost and the result is `-errno` of whichever call
failed last, which is 0 if none has. A read that fails does not end the loop,
and the next one may succeed; the character left in the buffer by an earlier
line counts as read. `count` is one ahead of the characters while the line is
read; a newline ends the loop before it is raised again, so it is the length
of the line, the newline counted. A full buffer ends it afterwards.

### Shell

`procs` is the stack of processes: `run_command` forks and waits, so only the
youngest runs. A process has main's variables and its descriptors. A stage is
`RunBuiltin`, or `RunStage` (input file, then either the output file or the
pipe, then fork, which may fail; either file may be missing or refused), in the child `Exec`, `NotFound` or
`SearchCrashes`, then `ProgramEnds` and, in the parent, `Ran`. A child that
finds no program returns from `run_command` into main and reads lines of its
own. What programs do is reduced to what matters to descriptors: whether they
exist, whether they are named by a path (then `run_command` does not move their
input), whether they read to the end of their input. Which directory a program
is in is the subject of `PathSearch`.

### WorkingDirectory, PathSearch

Directories are paths of names. `Saved` is what `handle_cd` has in `old_path`
after `getcwd`, which fails in a removed directory and then leaves the buffer
alone; `Target` is the name given to `chdir`, built from it. `RemoveDir`,
`MakeDir` and `Others` are the other processes of the machine. A search is
`Fork`, one `Stat` per entry of the table, `Exec` for a file that `stat` found,
`StatBeyond` for what lies behind the table, and `GiveUp` at the bound of the
loop. `previous`, `missed` and `steady` are history variables for the
properties.

## 3. Runs

| Run | Shows |
|---|---|
| `sequential_list` | 3 keys, 4 addresses, counts up to 2: `ListShape`, `CursorSafe`, `CountAccurate`, `NoZombie`, `CallsReturn`, `ImplementsCache`, `CallsTakeEffect`. |
| `mutex_two` | 2 clients and the cleaner: mutual exclusion, the count, the water marks, the outcome of the self tests and that they never wait, no lost wakeup, no stall, sleeping clients are released. |
| `mutex_one` | 1 client that cleans for itself: the shutdown happens (`ShutdownHappens`) and completes (`ShutdownCompletes`). |
| `mutex_hang` (violated) | A client can go to sleep after the shutdown's broadcast and `main` waits for it for ever. |
| `alloc_levels` | 2 levels, 3 pages: the books agree with what is in use (`BooksBalance`, `PagesAccounted`), free lists stay clear of it (`FreeListsAreFree`), the search of `malloc` succeeds (`SearchSucceeds`), every object is of the smallest size that fits (`FitsRequest`), and the caller gets what `Heap` promises (`ImplementsHeap`). |
| `alloc_chain` | 1 level, 5 pages: the release loop is safe (`ChainSafe`), effective (`ReserveIsSmall`) and ends (`FreeReturns`). |
| `alloc_reuse` (violated) | The poison destroys the free list: malloc, free, malloc, malloc crashes. |
| `command_line` | Every line, typed, cut short or garbled by failing reads: no overrun of the buffer (`TypeOK`), the parse is the grammar's on exactly the lines `Handled` describes (`FollowsGrammar`), spaces do not matter (`SpacingIsIrrelevant`). |
| `shell_main` | Sessions of commands, pipelines and redirections: a pipeline hangs in two ways only (`HangsOnOwnPipeOrSecondShell`), programs get their input file (`InputArrives`), which steps change an open descriptor 0 (`PlainLinesKeepInput`), the lines outside these hangs end (`HarmlessLinesEnd`). |
| `shell_stages` (violated) | The stages of a pipeline from MAX_ARGS on are never run. |
| `path_search` | `cd` and the search while directories and programs come and go: `DashReturns`, `CdGoesWhereAsked`, `FirstProgramRuns`. |
| `fine_locks` (violated) | The second `reference` of the fine-grained list returns with two mutexes. |

The violated runs each state what a comment, an assert or a document of the
repository says; `PROJECT.json` quotes it under "findings".

### Other things the models show

These have no run of their own. They are in the models as the code has them,
and the properties that hold are stated around them.

* LRU: a new element has count 1 and the next pass removes it, whatever its
  age (`sequential-lru.c:80`). A single client can fill the list between two of
  its own passes, and then nobody is left to wake it (`mutex-lru.c:59`;
  `CleanerPreventsStall` assumes a cleaner). After the shutdown `print` prints
  nothing (`mutex-lru.c:203`).
* Allocator: MAP_FAILED passes the assert on the pointer of a big object and
  is returned as memory (`th_alloc.c:192-193`).
* `read_one_line` returns one more than the length for a line that fills the
  buffer, where `parse.c:18` has "the length of the string", and a positive
  length for a line with failed reads, where `parse.c:20` has a negative value.
  `main` only tests the sign. `LengthOffOnlyWhenFull` says where the first
  happens; nothing is claimed about the second.
* Parser: `parse_line` returns the number of words (`parse.c:371`) where its
  comment has the number of stages; `main` compares it with the stage index
  (`thsh.c:159`), so a command with arguments is not recognised as the last
  stage and gets a pipe.
* Shell: a program found on the path that reads its input and is not
  recognised as the last stage waits for the write end of its own pipe.
  `nosuch | wc` can hang, because the second shell runs `wc` while the first
  one holds the pipe. A two-stage pipeline replaces descriptor 0 of the shell,
  which meets the end of the pipe at its next prompt and exits. `cat <a >b`
  gives `cat`, and the shell, the output file for input; only when the output
  file cannot be opened does `cat` read `a`. Descriptors leak until `pipe` fails
  unnoticed, and then `close` is given whatever number `pipefd` held, which can
  be descriptor 0.
* `cd`: a `cd` that fails changes what `cd -` does; `cd ./x` stays where it
  is; a relative `cd` in a removed directory goes to a place built from the
  directory before.
* Path: an empty field in `PATH` (`a::b`) makes `init_path` crash; entries
  after the seventh are never tried; behind a shorter table anything is read.

### Bounds

* Lists: three keys give insertions and deletions at the front, in the middle
  and at the end, and adjacent deletions; the fourth address lets a freed
  address come back while the others are in use. `MaxRefs` = 2 distinguishes
  nodes that a pass keeps from nodes it drops. It only keeps the caller from
  asking for more.
* Threads: every size of the program divided by 32: MAX_KEY 128 becomes 4,
  the water marks 32 and 96 become 1 and 3, the 64 of the self tests and of
  CLEAN_RATIO become 2. So the list can be empty, low, between the marks and
  full, and both waits happen. Two clients are the fewest that compete for the
  room a signal announces. With `LOW` < `TestSize` < `HIGH`, as in the code, the
  self tests may not wait. `mutex_hang` has three keys. `MaxRefs` bounds what clients ask for.
* Allocator: the biggest size of each level, one byte more, and one too large;
  smaller sizes have the level of the biggest (`RequestsFit` is about all of
  them). Two levels on three pages have superblocks with several objects and
  with one. The reserve is 1 in `alloc_levels`, where it is 2 in the code, so
  that three pages are enough for the free of a big object to give back the
  superblock of its own node. In `alloc_chain` it is 2, and five pages with
  one level reach a chain whose first two superblocks are in use and whose last
  three are whole. `MaxBig` bounds the list of big objects.
* Lines: MAX_INPUT is 1024 in the code and 9 here, which admits lines of seven
  characters. That is enough for each pair of a redirection, a bar and a
  comment with words on both sides and for one line of every kind that
  `Handled` names; lines with two bars and both redirections do not fit. The
  word characters are numbered by position, so that words are told apart.
  `BreakAt` is where reads may fail: anywhere.
* Shell: a table of MAX_PIPELINE 4 rows, with lines of up to three stages, and a
  MAX_ARGS of 2, which the loop over the stages has for its bound, so that
  lines on both sides of it occur. OpenMax 6 leaves three descriptors besides the standard ones, so that
  one pipeline leaks and the next meets every way of running out. MaxShells 1
  lets only the first shell read lines; the second shells still run the rest of
  their line, which is where pipes are involved. (With two reading shells the
  safety properties hold too, in 8 million states.)
* Path: the search looks at sizeof(path_table) - 1 = 7 entries, here at 2, with
  values of `PATH` of one, two and three fields, relative and empty ones among
  them. The directories that others remove are leaves.
* Deadlock checking is off where the program ends, crashes or hangs
  (`MutexLru`, `Allocator`, `CommandLine`, `Shell`, `PathSearch`, `FineLru`).

### Fairness

* `SequentialLru`: the calling thread keeps running, WF on the steps of a call.
* `MutexLru`: each thread that can move eventually does (WF per thread). A
  mutex is not assumed to be fair: a thread that waits for it is only
  continuously enabled while it is free. A signal may wake any waiter.
  Spurious wakeups are possible at any time but do not go on for ever; without
  that, the wakeups themselves could keep everybody busy. The length of the
  sleep in `main` is not assumed to be finite, so `WaitersAreReleased` owes
  nothing to the shutdown.
* `Allocator`: the calling thread keeps running.
* `Shell`: a process that can go on does (WF on all steps but reading a line):
  nobody has to type. A program that reads the terminal or a file meets its
  end; one that reads a pipe does so when the last write end is closed.

## 4. Proofs

For all values of the constants that satisfy the ASSUMEs of the modules.

`SequentialLruProof` (any integer keys, any finite set of nodes). The property
`ListShape` is stated so as to be inductive: instead of following the list it
says that `list_head` leads to the least live node and every `next` to the
least live node above it. With `CursorSafe`, the place of the search key
between `last` and `cursor`, and the counts of nodes a pass has and has not
reached, it is preserved by every step. From the invariant follow
`TypeSafety`, `ListIsWellFormed`, `CursorIsSafe`, `CountIsAccurate`,
`NoNodeIsLost`, and the refinement `ListImplementsCache`, which maps each
action to `Reference`, `Clean` or a stutter of `LruCache`;
`EffectsAreTheCallsOwn` adds that it is the running call's own.
`LoopsAreBounded` is the part of `CallsReturn` that is about single steps: a
turn of a loop leaves the node behind on which it stood, and the nodes ahead of
the cursor are at most `count`.

`MutexLruProof` (any number of clients, keys and any water marks with
low < high). The invariant joins the types, `MutexDiscipline`,
`CountAccurate`, `WaterMarks`, `NoLostWakeup` and `MainOrder` (what main's
place says about `finished`, `done` and which threads exist). `MutexDiscipline` is
needed everywhere: a thread that has tested the water mark relies on nobody
else changing `count` before it acts. Theorems: `TypeSafety`,
`MutualExclusion`, `CountIsAccurate`, `WaterMarksHold`, `NoWakeupIsLost`, and
`CleanerPreventsStall`: with a cleaner thread, the threads are never all
asleep. The assumption is needed: see the single client in section 3. With the
types, every step also is a step of `LruCache` or leaves the counts alone
(`MutexImplementsCache`): `RefHit` and `RefInsert` are `Reference(key[t])`,
`CleanBody` is `Clean`. `ShutdownRunsDown` orders the places of a thread by how
far they are from its exit (`StepsLeft`) and shows that after the shutdown no
step leads away from it: `done` is looked at after each wait, `finished`, which
is set by then (`MainOrder`), at each turn of the loops. So after the shutdown
no thread goes on for ever; it can only be stuck, as `mutex_hang` shows.

`SelfTestProof` (any number of test keys up to MAX_KEY, any water marks).
`SelfTestOutcome` speaks of the prints and of waiting; `TestInv` says of every
moment of the self tests that the list is `After(Made)`, a function of the
number of calls that have changed it, and which call of the sequence is
running. It rests on `IndInv` of `MutexLruProof`: while main is in
`self_tests` no other thread exists (`MainOrder`), and the first `clean` does
not return early from an empty list because `count` is accurate
(`CountAccurate`). `ReferenceMade`, `CleanMade` and `PrintMade` say what one
call does to `After`. `SizeAfter` counts the keys in it, so that no call finds
the list full and the first `clean` finds more than LOW_WATER_MARK in it, if
the tests fit between the marks (`RoomInTest`). Theorem: `SelfTestsPrintRight`.

`AllocatorProof` (any number of levels, pages and big objects, any reserve,
any requests). The invariant `AllocInv` joins the properties of the runs with
what they need:

* `LinksLead`: a link between free objects that the poison has not destroyed is
  the one `alloc_super` made, to the free object before it in the page, and
  none leads to the head. So taking the head leaves no link to an object in use
  (`FreeListsAreFree`).
* `BigsApart`: no entry of the list of big objects, and no address in it,
  occurs twice. Then freeing one entry gives back one page (`PagesAccounted`).
* `WholeLimit`: a level has at most one whole superblock more than the reserve,
  and that only inside `free`. One pass of the release loop is enough, and the
  loop cannot run past the end of the chain (`ChainSafe`).

The counters (`BooksBalance`) are cardinalities of sets of free objects and
whole superblocks, to which each step adds, or from which it removes, one
object; `SearchSucceeds` is that a positive cardinality means a member. That
`size2level` and the object sizes fit for any number of levels is an argument
about powers of two, which are counted as numbers of subsets. Theorems:
`TypesHold`, `BooksAgree`, `PagesAreKnown`, `FreeListsStayFree`, `RequestsFit`,
`SearchAlwaysSucceeds`, `ChainAlwaysSafe`, `ReserveStaysSmall`, and
`ReleaseIsBounded`: a turn of the release loop either gives a superblock back,
after which the level has no more than its reserve (`WholeLimit`), or brings
`curr` nearer to the end of the chain.

`HeapProof` (under the same assumptions). `AllocInv` gives `BlocksApart`
(`InvSeparates`): two addresses in different pages have nothing in common; two
in one page are objects of one level, i and j with i < j, and i * s + s <= j * s
for objects of size s (`ObjectsInARow`); the last object ends inside the
superblock because `FullSb` leaves one object out for the bookkeeping, which
takes the place of the first (`ObjectsFit`). Then each step is shown to leave
alone what lies behind every address that the caller keeps (`Kept`): a `malloc`
takes an object that is not in use, a `free` poisons only the first word of the
object it is given (or of the node of the big object, which the caller never
had), and only superblocks without objects in use are given back. Hence a
`malloc` is `Malloc`, a `free` is `Free` (`NewBlock`, `OldBlock`), and the
release loop stutters. Theorems: `AllocatorImplementsHeap`, which is the run's
`ImplementsHeap`, and `BlocksAlwaysGood`. `FitsRequest`, a part of `AllocInv`
(`RequestsFit`), is the requirement on sizes in `ImplementsHeap`, and that no
smaller level would do.

`CommandLineProof` (a buffer of any size, any word characters, reads failing
anywhere). `TypeOK` and `LengthReturned` need one more fact: a line that is
still being read has no newline in it, and the counter is one ahead of the
characters (`Reading`). `StoreKeeps` then follows the three ways a turn of the
loop ends: a newline, a full buffer, another turn. Theorems:
`BufferIsNotOverrun`, and `LengthOffOnlyWhenFull`, which is not what the comment
of `read_one_line` promises but what it returns (see section 3).

`PathSearchProof` (any tree of directories, any values of PATH, any bound).
`CdTypeOK` is inductive and gives `DirectoriesExist`; with it each kind of
argument is followed through `Target` for `CdGoesThereAlways`. `DashReturns` is
inductive by itself (`DashLeadsBack`). For the search the invariant `SearchInv`
adds to `TypeOK` and `FirstProgramRuns` what has been passed so far (`Scanned`):
nothing executable, and as long as `found` is not set nothing at all. It is only
claimed while nothing changes (`steady`), so steps of others need no argument,
and whatever is runnable lies ahead (`RunnableAhead`). That the table is the
path is a fact about cardinalities: `init_path` asks for as many tokens as there
are fields, and only a path with no empty field has as many (`TableIsThePath`).
Theorems: `TableHoldsThePath`, `FirstProgramIsRun`.

`ShellProof` (any lines, any bound on stages, descriptors and nested shells).
The invariant `ShellInv` describes each process by itself (`ProcOK`) and each
waiting process together with what it has started (`Started`). Of a process it
says that a stage runs only if there is one, in a row that `parse_line` has
filled (`StageRuns`, `StagesAreCounted`), that `infile` and
`infd` are the running line's (`InputIsTheLines`, `GetsFile`), and that it has
at most one write end, that of its own stage's pipe, with a number above the
read end's (`OneWriteEnd`); so every write end of an earlier stage has been
closed, and a shell that waits for a pipe waits for somebody else. `Started`
is where second shells come in: a process waits either for the youngest
process, which runs the same stage with the same write ends, or for a child
that found no program. A new pipe gets a number no descriptor refers to,
because there are fewer descriptors than numbers (`NewPipeIsNew`). Theorems:
`TypesHold`, `InputReaches`, `HangsAreTwo`, and the action property
`InputIsKept`.

Only model-checked:

* liveness (`CallsReturn`, `WaitersAreReleased`, `ShutdownHappens`,
  `ShutdownCompletes`, `FreeReturns`, `HarmlessLinesEnd`), which the prover
  cannot treat under fairness: `LoopsAreBounded`, `ReleaseIsBounded` and
  `ShutdownRunsDown` bound the number of steps, and TLC shows that they are
  taken;
* the parser's properties (`FollowsGrammar`, `SpacingIsIrrelevant`): they say
  what recursive definitions over a line compute, which needs induction over
  the line;
* the violated runs, which are about one behaviour each.

## 5. Not modelled

* The job list: `create_job` only appends to it, nothing calls `find_job`, and
  `wait_on_job` does nothing.
* Option parsing, debug output and printing formats.
* Of the snapshot `thsh-matt-1` everything but the way `init_path` counts: its
  parser is the same apart from comments, and its `main` only echoes what was
  parsed. The tests and the build files.
* LRU: the failure of `random_r`; what happens to the cleaner after `main` has
  returned; reads of `finished` that overlap with its write (the variable is
  volatile and read in one step).
* Allocator: invalid uses of `free` (double, interior or foreign pointers);
  sizes of `mmap` regions beyond one page.
* Parser: lines with two redirections of one kind and lines longer than the
  table of commands, which the comments of the code exclude.
* Shell: PATH unset, which crashes before the first prompt; what is in memory
  behind the buffer of a program's name (`SearchCrashes` is all that remains of
  it); symbolic links; directory names that do not fit their buffers; signals.

## 6. Plan

Done, in this order: `LruCache`, `SequentialLru`, `MutexLru`, their proofs,
`Allocator`, `Parser` with `Grammar` and `CommandLine`, `Shell`,
`WorkingDirectory` and `PathSearch`, `FineLru`; proofs of the safety
properties of all of them but `FineLru` and the parser, the refinement of
`MutexLru` to `LruCache`, and `Heap` with the refinement of `Allocator` to it.

Left: for the parser, lemmas about single steps of `Redirection` and the stage
loops. They would say what one block of the code does, not what `parse_line`
returns, which stays with the run; a second implementation of `LruCache` in
place of the unfinished `FineLru`, should its code be finished.
