# A verification project for the computer systems labs

The repository holds the solutions of a course's labs. Most labs are a single C
file around a piece of state that is easy to get wrong: a shell whose job list
is shared with its signal handlers, a cache simulator, three malloc packages, a
set of transposes with the programs that evaluate them, and bit puzzles. This
directory models them in TLA+, checks them with TLC on small instances (the
transposes at full size), and proves with TLAPS, for every instance, the safety
properties of the shell, those of the cache simulator and of the three heaps,
refinement of their abstract specifications included, and that the transposes
transpose and are judged right.

File names below are short for the files of `src/`:

| short | file |
|---|---|
| tsh.c | `Lab9 ShellLab/20200927-tsh.c` |
| csim.c | `Lab7 CacheLab/csim.c` |
| mm_textbook.c | `Lab11 MallocLab/mm_textbook.c` (first fit) |
| next-fit file | `Lab11 MallocLab/20200927_*.c` (the submitted package) |
| mm_segregated.c | `Lab11 MallocLab/mm_segregated.c` |
| trans.c, test-trans.c, tracegen.c, cachelab.c, driver.py | the same under `Lab7 CacheLab/` |
| bits.c | `Lab1 DataLab/bits.c` |
| Lab2.c | `Lab2 DataLab2/Lab2.c` |

## 1. Inventory

### tsh, the tiny shell

*State.* The array `jobs[MAXJOBS]` of (pid, jid, state, command line) and the
counter `nextjid`; the locals of `eval`, `do_bgfg` and `waitfg`; in the kernel,
the pending and blocked signals of the shell and the state of every child.

*Operations.* `main` reads a line, `parseline` splits it, `builtin_cmd` runs
quit, jobs, bg and fg, `eval` forks everything else with SIGCHLD, SIGTSTP and
SIGINT blocked until `addjob` has run, `waitfg` sleeps until the job is no longer
in the foreground. `sigchld_handler` reaps and marks, `sigint_handler` and
`sigtstp_handler` pass the key on to the foreground job, `sigquit_handler` exits.

*Interaction.* The handlers interrupt `main` between any two of its steps, and
each other: `Signal` installs them with an empty `sa_mask`, so only a handler's
own signal is blocked while it runs. All of them read and write the job list
without further protection. Children change state at any time and the kernel
tells the shell by SIGCHLD, which does not queue.

*Hard.* The race of a short-lived child with `addjob`; one SIGCHLD for several
children; `do_bgfg` holding a pointer while handlers run; `waitfg` polling state
that only a handler changes; a full list; ids that wrap around.

*Correct when* list and children agree (no ghost, no lost job), every change of
a child is noticed, a stopped job is shown as stopped, the foreground entry is
the one main waits for, and the prompt comes back.

### csim, the cache simulator

*State.* `cache[S][E]` of (valid, tag, time stamp), the clock `last_use`, three
counters. *Operations.* `main` computes the geometry from `-s -E -b`, reads the
trace, and calls `accessCache` once for a load or a store and twice for a modify.
*Hard.* The geometry at the edge, and whether hits, fills and evictions together
keep the stamps in the order of use. *Correct when* it counts what an LRU cache
of 2^s sets of E lines counts.

### The malloc packages

*State.* The heap from `mem_sbrk`, as words with headers, footers and links;
`heap_listp`, `search_ptr` (next fit), the list heads (segregated).
*Operations.* `mm_init`, `mm_malloc`, `mm_free`, `mm_realloc`, over `extend_heap`,
`find_fit`, `place`, `coalesce` and, in mm_segregated.c, `insert_node` and
`delete_node`. *Interaction.* The client writes into the regions it is given and
calls in any order; `memlib` (not in the repository) grows the heap or refuses.
*Hard.* The four cases of `coalesce`, a `search_ptr` into a merged block, the
boundary at which `place` splits, arithmetic of `size_t`, failure half-way; in
mm_segregated.c, links that live inside the free blocks and must be rewritten
whenever a block changes its size or its class.
*Correct when* live regions are aligned, disjoint, inside the heap and keep their
contents, and the block structure the routines walk over is intact.

### The transposes and their evaluation

*State.* The matrices A and B of `tracegen`; the locals `val1` to `val8`; the
table `func_list` of registered functions; the record `results` of the
submission; the trace, and the counts that the reference simulator makes of it.
*Operations.* `transpose_submit` (a blocked transpose for each of three sizes,
nothing for any other) and `trans`. `tracegen` calls them between two marker
accesses and validates B, one function with `-F`, all of them without.
`test-trans` runs it under valgrind for each function in turn, cuts the trace at
the markers, feeds it to `csim-ref` and prints one line for `driver.py`, which
turns misses into points; an alarm after 120 seconds prints a line of zeros.
*Hard.* The 64 by 64 transpose parks elements in B and moves them on; the blocks
of 16 divide neither 61 nor 67; the order of the accesses decides the misses; in
`tracegen` without `-F` one function sees the B of the one before. *Correct when*
B is the transpose, no access leaves the matrices, the verdict and the count
reported are the submission's own, and the misses are within the limits for full
marks.

### The data labs

*State.* None: five functions on ints (bits.c), five on the bits of a float
(Lab2.c). *Hard.* The arguments at the edges: sums that overflow, shifts through
the sign, zero, denormals, the largest exponents, rounding. *Correct when* the
answer is that of the arithmetic the comment names.

### The rest

| component | what it is | modelled |
|---|---|---|
| bomb.c | `main` of the bomb; the phases exist only as a binary | no |
| AttackLab | input files of a binary target | no |
| practice.c | straight-line exercise of open and dup | no: nothing happens in another order |

## 2. Plan

| | modules | states and proves | status |
|---|---|---|---|
| 1 | `JobList`, `Tsh`, `MCTsh` | the shell, its handlers, kernel and children | done |
| 2 | `LruCache`, `CSim` | abstract LRU cache; csim implements it | done |
| 3 | `Allocator`, `ImplicitList` | what malloc promises; the two implicit lists implement it | done |
| 4 | `TshProofs` | the shell's safety properties, all of them | done |
| 5 | `SegregatedList`, over `Allocator` | mm_segregated.c: free lists by class, links inside free blocks, in-place realloc; what `place` returns | done |
| 6 | `Transpose`, `TestTrans`, over `LruCache` | the transposes, access by access, and the programs that evaluate them | done |
| 6a | `BitPuzzles`, `FloatPuzzles`, `DataLab` | the puzzles against a reference definition, for every argument | done |
| 7 | `CSimProofs` | csim's properties for every geometry, and that it implements `LruCache` | done |
| 8 | `Scans`, `HeapLemmas`, `ImplicitListProofs` | the properties of the implicit lists for every heap, and that they implement `Allocator` | done |
| 8a | `TestTransProofs` | the transposes and the verdicts on them, for every size tried | done |
| 9 | `SegregatedLemmas`, `SegregatedListProofs` | the properties of the segregated lists for every heap, which calls break the promise of malloc, and that all others implement `Allocator` | done |

Composition: `Tsh` EXTENDS `JobList`, as tsh.c uses its job list routines;
`CSim` and `ImplicitList` instantiate the abstract `LruCache` and `Allocator`
under a refinement mapping, and `SegregatedList` instantiates the same
`Allocator`, for the calls that do not mislead the client. `TestTrans` EXTENDS
`Transpose` and feeds its accesses to an instance of `LruCache`, as test-trans
feeds the trace to the reference simulator. No module declares a RECURSIVE
operator: walks over the heap are recursive functions. `BitPuzzles` and `DataLab`
use the Bitwise module, which does, and stay with TLC.

## 3. The modules

### JobList and Tsh

`JobList` has one operator for each job list routine, with the routine's name, on
the value of the array. A pointer to an entry is its index, NULL is 0, and the
first hit of an upward scan is the minimum index. The command line of a job is
left out: it is only printed.

`Tsh` has one action per access to the list or system call. `main.pc` is where
the main program is:

| pc | code | action |
|---|---|---|
| read | prompt, reading a line | `Quit`, `ReadCommand`, `ReadBgfg` |
| fork, addjob, unmask | `eval` | `Fork`, `AddJob`, `Unmask` |
| waitfg, poll | `waitfg` | `WaitfgEnter`, `WaitfgReturn` |
| takepid, setstate, sigcont, rereadpid | `do_bgfg` | `TakePid`, `SetState`, `SendCont`, `RereadPid` |
| exited, crashed | the process has ended | none |

`stack` holds the frames of active handlers, the running one first; main steps
only when it is empty. `Deliver(sig)` pushes a frame when sig is pending and
neither masked nor active. `LookFg`, `IntKill`, `TstpKill`, `TstpLookup`,
`TstpMark`, `Waitpid`, `ChldDelete` and `ChldStopped` are the steps of the
handlers. Line 478 is two of them, since sigchld_handler may run between the
result of `getjobpid` and the write through it. (The same expression in
sigchld_handler is one: its own signal is blocked, and the other two handlers
clear no entry.)
Dereferencing the null pointer that `getjobpid` returns for an unlisted pid ends
the shell (`crashed`), as the segmentation fault does.

The environment is modelled from how tsh.c calls it. A child goes from forked to
running (setpgid, execve), may stop by itself, end at any time, and be continued;
`kill` on a group that does not exist does nothing; a running child may catch or
ignore SIGINT and SIGTSTP; `waitpid` with WNOHANG and WUNTRACED returns a zombie
or an unreported stop, in any order, or nothing. A pid may be used again once
it is reaped. `dropped` and `raced` are history variables that no action reads:
the children `addjob` had no room for, and whether `do_bgfg` has already written
to an entry that was cleared under it.

### LruCache and CSim

`LruCache` is the manual's cache: each set is the sequence of its tags by
recency. `CSim` is csim.c: lines, stamps and counters, one action per trace
record, `accessCache` as an operator on the record of the variables so that a
modify is two accesses in a row. The mapping takes the valid lines of a set in
the order of their stamps (`ByUse`). The constants are what the types of the
code hold: S is an int that is doubled, a shift by b + s stays below the width of
the address, and the counters are ints, with `WORD` for 2^32. With `-s 0` the code has one set more than the manual, which the
mapping does not hide: it maps 2^s sets.

### Allocator and ImplicitList

`Allocator` knows regions and their contents and nothing of blocks.
`ImplicitList` has the memory word by word and the code's routines as operators
on the heap; `policy` chooses between the first-fit and the next-fit file, which
differ in `find_fit`, in `search_ptr`, and in `mm_realloc` to size 0. Addresses
are offsets from the start of the heap. A word is what PACK wrote or what the
client wrote; data that a routine took for a header would lead it out of the
heap, an error TLC reports. Words nobody may rely on are forgotten after each
call (`Forgotten`), which keeps the state space small and the check strict. A walk
over the blocks ends where `EndsAt` says, at a header of size 0; its other disjunct,
the end of memory, is there for a heap that is no longer tiled. The constants are
what the code takes for granted: chunks of at least 16 bytes, room for the words of
`mm_init`, and both far below 2^32.

`leaked` is a history variable: the blocks that mm_realloc to size 0 has left
allocated although the client has given them up (mm_textbook.c only).
`LiveIsAllocated` states that the allocated blocks are the client's and these, so
that any other lost block would be found.

mm_realloc of the next-fit file assigns to `search_bp`, which the file does not
declare. `Realloc` allows both repairs: `search_ptr` set, or the line dropped.

### SegregatedList

`SegregatedList` has the memory word by word as `ImplicitList` has, and in
addition the array `segregated_free_listp` and, in the first two words of a free
block, its links. `insert_node`, `delete_node`, `coalesce`, `extend_heap`,
`place`, `mm_malloc` and `mm_free` are operators on the heap with the code's
names; `ReallocGrow`, `ReallocMove`, `ReallocZero` and `ReallocNull` are the four
ways through `mm_realloc`; `leaked` is as in `ImplicitList`. Sizes have the width
of the code's types: the rounding of a size is done in `size_t` (`AdjustedSize`,
modulo `WORD`), the bytes left over by a neighbour and the bytes to extend by are
ints (`Signed`, `GrownInPlace`). The least int, whose negation overflows, has two
outcomes: an extension by a chunk, or a size that `mem_sbrk` refuses. The search in `insert_node` compares with a size that the loop
before it has shifted away, so that a new node always becomes the last one; the
model computes that as the code does (`PlaceIn`). Walks over the lists and over
the blocks stop where they would leave the memory; `FreeListsExact` and `Sound`
say that they do not get there. The constants are what the code takes for granted:
chunks that hold more than a node and a pair of tags, at least one list, room
for the words of `mm_init`, and a heap that an int can measure.

This package does not keep the promise of malloc: the pointer `place` returns is
that of the remainder. What happens after a client has written through such a
pointer depends on everything, so the model stops there: when the heap that a
call leaves is not `Sound` for its client (blocks that tile the heap, every
region in an allocated block with room for it, no allocated block lost),
`HandBack` sets `misled` and the behaviour ends. Up to that call everything
is checked, and `MisleadsExactlyWhen` states which calls they are. `mm_realloc`
of NULL reads the header before address 0 and is one of them.

### Transpose and TestTrans

A function of trans.c is a nest of loops; `Body` is the sequence of accesses of
one iteration of the innermost ones, in the order of the source, which the
Makefile compiles with -O0: reads of A, reads and writes of B, by way of the
locals. `Loops` and `Advance` are the loops around it. `Performed` does the
accesses to B, `Address` gives them their addresses, taken from the `trace.tmp`
in the repository, where A and B lie exactly 2^18 bytes apart, so that they
share their sets. All elements of A differ and B starts as something A does not
hold: `initMatrix` draws both at random, and equal numbers could only hide an
error.

`TestTrans` has one action for each stage of the evaluation of a function:
`Launch` (a new process for test-trans, the next call for tracegen), `Iterate`,
`Return` at the end marker, `Validate` or `ValidateAll`, `Collect`; `Alarm` may
come between any two of them. `sim` is the reference simulator, run along with the
trace instead of after it. It is a binary; the model takes it to be `LruCache` with
s = 5, E = 1, b = 5. The trace between the markers begins with the reads of the
function pointer, N and M, whose addresses are in `trace.tmp` as well; stack
accesses lie above the 32 bits that test-trans lets through.
The limits and `computeMissScore` of driver.py are definitions on the result line.

### BitPuzzles, FloatPuzzles and DataLab

The puzzles are operators with the code's names, on the bits of an int as a
natural number. `BitPuzzles` takes the width as a parameter; `FloatPuzzles` has a
format of EXP and FRAC bits, in which every mask and constant of Lab2.c is written
by its position: 0x10000000, for example, is the third bit of the exponent from
the top in any format. `DataLab` asks a puzzle with an argument and records the
answer. Undefined behaviour has the outcomes the compiler gives it: in
`float_i2f`, `1 << exp` with exp = -1 is a shift by the width minus one, and for
the least int, whose negation overflows, the answer is the one of the unoptimised
build or the one of a build that takes -x to be positive. The optimised loop may
also not end; then there is no answer.

## 4. The runs

| run | instance | shows |
|---|---|---|
| tsh_safety | 2 pids, 2 entries, ids up to 2, both keys | list and children agree under every interleaving: `JobsAreChildren`, `NoReportLost`, `StoppedIsKnown`, `ForegroundIsAwaited`, `JobPointerStable` |
| tsh_liveness | 2 pids, 1 entry, ctrl-z | with a child refused by `addjob`: `ChildrenAreListed`, `ZombiesAreReaped`, `PromptComesBack`, and `ListedStopsAreSafe`: which stop reports and which ctrl-z end the shell |
| csim | 2 sets of 3 lines, traces of up to 7 accesses | `ImplementsLru` and the invariants of the lines |
| heap | up to 96 bytes, sizes 0, 8, 12, 28, both policies | `ImplementsAllocator`, and the shape of the heap |
| heap_segregated | up to 160 bytes, sizes 0, 8, 24, 28, 56, 320, 500, 508, `WORD` 512, chunks of 32, 7 lists, 2 contents | `FreeListsExact`, `FreeBlocksCoalesced`, `LiveIsAllocated`, `GrowsOnlyWhenNoFit`; `KeepsPromise`: `Allocator` is implemented up to the first call that misleads; `MisleadsExactlyWhen`: which calls those are |
| transposes | 32 x 32, 64 x 64, 61 x 67 and the four shapes of 1 and 5, both programs | `NothingReadIsLost`, `VerdictsAreRight`, `ReportIsTheSubmissions`, `FullMarks`, `StepsAdvance` |
| data_labs | ints of 6, 8 and 16 bits, floats of 4 exponent and 3 fraction bits | `IntegerPuzzlesRight`, `SignPuzzlesRight`; `ScalingRightExactlyWhen`, `ConversionRightExactlyWhen`: for which arguments the others are right |
| tsh_one_foreground, tsh_ctrl_z, tsh_job_ids, csim_no_index_bits, heap_size_overflow | the smallest found that shows it | the disagreements of section 6 |

*Bounds, and why they are enough.* Two children are the fewest for a lost
SIGCHLD, for two candidates of a foreground job and for an entry freed below a
used one; with the pids reused, sequences of commands are not limited to two.
One entry and two children is the full list. `JidBound` stops new jobs once
`nextjid` has passed it; `nextjid` falls back as jobs are deleted, so jobs may be
started again and again. Both keys may be pressed at any time, each once until
it is delivered, and handlers nest as deep as there are signals. In csim, three
lines are the fewest for which least recently used, oldest and most recently used
differ; the addresses hold more blocks of a set than lines, in both sets, so
that both evict within seven accesses; `WORD` is 32. In the heap, 96 bytes hold up to four
blocks, so that all four cases of `coalesce` occur, and sizes that leave
remainders of 8 and 16 bytes, a growth, a refused growth, and `search_ptr`
before, at and behind the block that changes; `WORD` plays 2^32 and is far above
the sizes except where the run is about overflow. In the segregated heap, chunks
of 32 bytes and requests for blocks of 16, 32, 40 and 64 bytes (24 and 28 bytes
need 32 and 40) give blocks that fit exactly, remainders of 8 and of 16 and more,
free blocks in several lists, two nodes in one list, all four cases of
`coalesce`, blocks for `mm_realloc` to grow into in front of the end of the heap and
at it, and a refused growth; requests that fit exactly mislead nobody, so that
the sequences of calls are long ones. There `WORD` is 512, larger than three times
the heap: 320 is a size whose missing bytes are more than an int holds, or as many
as the least int; 500 and 508 wrap around, to blocks of 0 and of 8 bytes. The transposes run at their real sizes and
with the real cache: there is nothing to scale but the values of the elements.
The ints of the puzzles with two arguments have 6 bits, enough for each
combination of signs with and without overflow; bitCount needs four lanes of at
least four bits to fill one of them; the float format is the smallest whose mask
bit for the sign is neither the highest nor the lowest of the exponent, and ints
of 8 bits have, above the 4 that the format holds exactly, up to 3 bits to round
away. The statements about the float puzzles say by bit positions which arguments
are meant, and so read the same at 32 bits. Each property has a variant of the
modelled code, marked "Mutant", by which it is broken within these bounds.

*Fairness* is used by tsh_liveness only. `WF(MainStep)` and `WF(HandlerStep)`:
the operating system runs the shell. `SF(Deliver(sig))`: a pending signal is
delivered at the latest when it is unblocked, however often it is blocked in
between. `EventuallyQuiet`: the user at some time stops pressing keys; otherwise
handlers may run for ever. The run has ctrl-z, the key with the longer handler and
the one that can end the shell; ctrl-c is in tsh_safety (both keys at once are too
many states for a liveness check). Nothing is assumed of children, and nothing makes the
user type another command (`ReadCommand`, `ReadBgfg` and `Quit` have no fairness).

*Deadlock* is not checked for the shell, which stops at `exited` and `crashed`,
nor for csim, which stops at the end of the trace, nor for the segregated heap,
whose client stops once misled, nor for the puzzles, which answer once. It is for
the other heap and for the transposes: the programs stop only by exiting.

*Symmetry* in the process ids is used by the safety runs of the shell, where no
definition names a particular pid, and not by the liveness run.

## 5. The proofs

`TshProofs` begins with what each routine of the job list returns and leaves
alone, for every array, and proves of `Spec`, for every set `Pids`, every `MAXJOBS`,
`Keys` and `JidBound`:

| theorem | property |
|---|---|
| TypeCorrect | `TypeOK` |
| NoGhostJobs | `JobsAreChildren` |
| NoLostJobs | `ChildrenAreListed` |
| NoReportIsLost | `NoReportLost` |
| PointerIsStable | `JobPointerStable` |
| StopsAreRecorded | `StoppedIsKnown` |
| NoForegroundAtPrompt | `ForegroundIsAwaited` |
| ListedStopsDoNotCrash | `ListedStopsAreSafe` |

These are all the safety properties that the passing runs of the shell check.
`ChildrenAreListed` is checked where the list can be full, by tsh_liveness.

*Assumptions.* 0 is no pid, MAXJOBS and JidBound are natural numbers, and Keys are
keyboard signals: the named assumptions of `JobList` and `Tsh`, which TLC also
evaluates. Nothing bounds the number of processes or of nested handlers.

*Argument.* The properties about the list are not inductive by themselves. `IInv`
adds what makes them so:

- `SlotIsHeld`: in `do_bgfg`, main holds a slot. Needed for the type of the entry
  that is written.
- `FramesAreSound`: a handler's frame is at one of its own steps, one frame per
  signal, and a sigchld frame about to delete names a child that has been
  reaped. Needed so that a deletion hits the right entry.
- `SignalsHeldBack`: from `ReadCommand` to `Unmask`, the three signals are masked
  and no handler is active. This is what the `sigprocmask` calls of `eval` are
  for.
- `NewChildUnlisted`: between fork and addjob the new pid is not on the list. It
  rests on the one before: with no handler active no entry is waiting for its
  deletion, so a pid that the kernel hands out again is not listed.

`JobsAreChildren` follows as fork and addjob cannot be separated by a reap;
`ChildrenAreListed` as only a reap leads to a deletion, and only of the reaped
pid. `NoReportLost` and `JobPointerStable` have invariants of their own on top of
`IInv`: a SIGCHLD is raised with every change, the handler returns only when
`waitpid` has nothing left, and entries that are in use are only ever cleared,
by a handler, or filled by `AddJob`, which main cannot be at while it holds a
pointer, nor while a handler holds one, as the three signals are masked. Three
more have to be strengthened:

- `StoppedFramesAreSound` for `ListedStopsAreSafe`: between the report of a stop
  and its use only other handlers run, and those reap nobody (`OneReaper`), so
  the child still is one, and `ChildrenAreListed` says where its entry is. For
  sigtstp_handler, a pid that `fgpid` has found is that of a listed job or of one
  reaped since (`TargetsAreKnown`, `TargetsHold`): no process is forked while the
  handler is active.
- `NewChildUnreported` for `StoppedIsKnown`: an entry that `addjob` makes cannot be
  late for a stop, as no `waitpid` runs before it is made.
- `ForegroundIsOwed` for `ForegroundIsAwaited`: an entry in the foreground is not a
  cleared one, and main's command is fg. This is where the race of `do_bgfg`
  comes in: after it the statement is false, which tsh_one_foreground shows.

The invariants were run through TLC first on 2 pids with 1 and 2 entries.

`CSimProofs` proves of `CSim`'s `Spec`, for every s, E, b and every set of addresses:

| theorem | property |
|---|---|
| TypeCorrect | `TypeOK` |
| NoBlockTwice | `TagsDistinct` |
| StampsOrderLines | `ClockOrdersLines` |
| CountersAgree | `CountsAddUp` |
| SecondAccessHits | `ModifyHits` |
| Implementation | `ImplementsLru` |

*Assumptions.* `GeometryAssumption` and `TraceAssumption`: natural numbers, at least
one line in a set, that the powers of two the code computes are positive, that S
is an int and b + s less than the width of an address, and a trace that the int
counters can count.
`Implementation` has two hypotheses: s is not 0 (with `-s 0` it is false, see
section 6), and the addresses fit in an unsigned int, as `%x` keeps their low
32 bits only.

*Argument.* Here the conjunction of the four invariants is inductive as it stands
(`IInv`, `IInvMeans`). One access is an operator on the record of the variables,
so that what it preserves is the lemma `AccessKeeps`, cited once for a load or store
and twice for a modify. `AccessCases` names the line an access takes and the three
ways to it; `FillKeepsOrder` says why the tags stay distinct (the line filled is
the only one that may hold the tag) and the stamps ordered (the new one is ahead
of all); the counters follow as the valid lines become one more exactly when a free
line is filled. A modify's second access finds the tag its first has left.

For the refinement, `Enumerates(lines, n, p)` says that p counts off the n valid
lines by falling stamps. There is one such order at most (`OrderIsUnique`: at the
first place where two differ, each would have the other's line still to come), so
`ByUse` is it. That there is always one is an invariant of its own: an access
takes the line at some place r to the front, or puts a new one there
(`OrderMoves`), and `Raise` is the order after that. `TouchAgain` and `TouchNew` say
that the promised cache does the same to its sequence of tags; a line that is
evicted has the smallest stamp, hence the last place. A step of csim is then a
step of `LruCache` (`AccessImplements`, twice for a modify).

`ImplicitListProofs` proves of `ImplicitList`'s `Spec`, for both files and every
`Sizes`, `Clients`, `CHUNKSIZE`, `MaxHeap` and `WORD`:

| theorem | property |
|---|---|
| TypeCorrect | `TypeOK` |
| HeapIsTiled | `BlocksTileHeap` |
| Coalescing | `FreeBlocksCoalesced` |
| RegionsAreAllocated | `LiveIsAllocated` |
| SearchPointer | `SearchStartsAtBlock` |
| GrowsForNeed | `GrowsOnlyWhenFull` |
| Implementation | `ImplementsAllocator` |

*Assumptions.* `ConstantsAssumption`, and two hypotheses. `NoOverflow`: a size plus
the 15 that `AdjustedSize` may add is below `WORD`. Without it the theorems are
false, which heap_size_overflow shows. For `Implementation`, 0 is not in `Clients`:
0 names the word that nobody may rely on, and what a client writes is to be told
from it.

*Argument.* `Tiles(h, B)` says of a set B of addresses that they start the blocks of
h: header and footer agree, each block leads to the next one or to the epilogue,
none starts inside another. The invariant `IInv` is that the set `Blocks(heap)`,
which a walk over the headers meets, tiles the heap, that no two of its free blocks
touch and that search_ptr is one of it (`Sound`), and that the client's regions are
allocated blocks with room for them (`Owned`). `HeapLemmas` says of each routine
which tiling it makes of a given one and which blocks it keeps word by word:
`Retiled` and `SplitTiled` for tags that are written, `ChunkTiled` for a heap that
grows, `Coalesced` for the four cases of coalesce (of which two free blocks in a row
may be met: `Apart(h, B, bp)` excepts the block being freed). `Allocated`,
`Mallocated` and `Reallocated` then say what a call of the client does to the heap
and to all regions; `Implementation` reads the steps of `Allocator` off them.

*Walks without induction.* The walks of `Blocks` and `find_fit` are recursive
functions, and what they compute calls for an induction that the provers cannot be
given. `Scans` shows that the functions exist (`WalkExists`, `SearchExists`: the
value is defined by the sets closed under the walk), so that they satisfy their
equations; what they compute follows from a least or greatest counterexample, an
element of a finite set of addresses, which exists by the same module: the first
block that a walk does not meet is led to by one that it meets.

`SegregatedListProofs` proves of `SegregatedList`'s `Spec`, for every `Sizes`,
`Clients`, `CHUNKSIZE`, `LISTLIMIT`, `MaxHeap` and `WORD`:

| theorem | property |
|---|---|
| TypeCorrect | `TypeOK` |
| ListsAreExact | `FreeListsExact` |
| Coalescing | `FreeBlocksCoalesced` |
| RegionsAreAllocated | `LiveIsAllocated` |
| GrowingOnlyWhenNoFit | `GrowsOnlyWhenNoFit` |
| MisleadingCalls | `MisleadsExactlyWhen` |
| PromiseKept | `KeepsPromise` |

*Assumptions.* `SegregatedAssumption`: sizes below `WORD`, contents of the client
that are positive numbers, a chunk that is a multiple of 8 and larger than 16, at
least one list, a heap limit of at least the 16 bytes of `mm_init`; chunk and limit
are ints. And the hypothesis `NoOverflow` of every theorem: a size plus 16 is below
half of `WORD`, so that no rounding wraps around and no int turns negative that
should not. Sizes above that are left to TLC: heap_segregated has three of them, and
`MisleadsExactlyWhen` says what they do as well.

*Argument.* `InOrder(h, B)`: the blocks B tile the heap h (`Tiles`), and the free ones
among them are linked (`Linked`). A list is described without following it: PREV
and NEXT lead from free block to free block and are each other's inverse, either
leads out of every set of blocks (`Chain`, so that no list comes round again), a
neighbour is of the same class, and the one without NEXT is the head of its class.
The invariant `IInv` is that, until the client is misled,

- the heap is `InOrder`, no two free blocks touch, and the word before the footer of
  a free block holds nothing anybody knows (`Ready`). The last is there for
  `MisleadsExactlyWhen`: where `place` leaves 8 bytes over and writes a size
  smaller than the block, that word is where the next header would have to be;
- the regions are allocated blocks with room for them (`Owned`).

That heads are addresses in the heap (`Bounded`) also holds of the heap in which
a misled client is left, so that `TypeOK` is proved without a condition.

`SegregatedLemmas` says what each routine makes of such a heap. `DeleteLinked`
and `InsertLinked` are `delete_node` and `insert_node`: the links that are
rewritten are those of the neighbours (`ChainRemoved`, `ChainInserted`), wherever
in its list the node is. `Coalesced` is all four cases of coalesce, in which
the nodes are deleted while their headers still tell their class; `Extended` is
`extend_heap`; `TakenOver` and `PartTaken` are a block that becomes allocated as
a whole or in part. `FitFound` says that the search meets every node large enough,
`NodesAre` that the walk of `FreeListsExact` meets exactly the nodes. `FreeEffect`,
`MallocTakes`, `PlacedRightly`, `PlacedWrongly` and `RegrowEffect` are the calls,
the last with the ways `mm_realloc` can go wrong; `MisplacedIsUnsound` says that
no tiling agrees with the heap a wrong place leaves.

For each action there is a lemma (`MallocStep`, `FreeStep`, `GrowStep`, `MoveStep`,
`ZeroStep`) that says which calls mislead, that these leave the heap `Bounded`, and
that after every other one the heap is `Ready` again and the region is filled,
moved or dropped (`Filled`, `Moved`, `Dropped`). `MisleadingCalls` is the first part
of them, `PromiseKept` the last: `FilledIsMalloc`, `MovedIsRealloc` and
`DroppedIsFree` are steps of `Allocator`. Both directions of `MisleadsExactlyWhen`
matter: mm_free never breaks the promise, an exact fit never does, and each call
on the list does, in every heap, for requests within `NoOverflow`.

`TestTransProofs` proves of `TestTrans`'s `Spec`, for every `OtherSizes`:

| theorem | property |
|---|---|
| Typing | `TypeOK` |
| LosesNothing | `NothingReadIsLost` |
| RightVerdicts | `VerdictsAreRight` |
| Advancing | `StepsAdvance` |

*Assumption.* `SizesAssumption`: a matrix has at most 256 rows and columns, the MAXN
of test-trans.c and the arrays of tracegen.c. The run tries the sizes 1 and 5
besides the graded ones; the theorems say that `trans` is right at each size up to
that limit.

*Argument.* What `Performed` computes is the last of a sequence of states, one for
each access (`IsRun`); `Loads`, `Stores` and `Moves` say what accesses in a row
leave in B and in the locals, without following each of the thousands there are.
From them come the effects of one iteration: it copies a rectangle of A (`Copies`),
or, in the 64 by 64 transpose, parks half a row four rows above and four columns
behind its place (`Parks`) or takes four parked elements to their places and fills
those they leave (`Unparks`). `Loaded` and `Parked` say which elements of A have
been loaded before an iteration, and which of them are parked; the invariant `Inv`
is, in its main part, that each loaded element is in its place in B or parked
(`InPlace`) and that nothing else has been read (`ReadOK`). `RowStep` and
`BlockStep` carry it over an iteration, one for the transposes that copy parts of
rows and one for the blocks of 64 by 64. Behind the last iteration all elements are
loaded and none is parked (`AllLoaded`), so B is the transpose; where the submission
knows no case, B is the empty matrix, which is none (`EmptyMatrix`). The rest of
`Inv` follows this verdict through validation, `func_list` and the output.
`Advancing` reads `Progress` as a number whose digits are the function with its
stage and the three loop counters (`Lexicographic`).

`Scans` proves that a finite set of integers has a smallest and a largest element.
All five developments rest on it: a scan ends with an entry of the kind it looks
for, and where induction would be used a first or last counterexample is excluded.

*Only model-checked.* Liveness (`ZombiesAreReaped`, `PromptComesBack`: fairness and
ENABLED are out of the prover's reach); of the transposes, `ReportIsTheSubmissions` and `FullMarks`, which
speak of the misses of a trace, sums over thousands of accesses that only running
it gives; and the puzzles, as `BitPuzzles` uses the Bitwise module, which tlapm
cannot read.

## 6. Where code and documents disagree

- **Two foreground jobs** (tsh_one_foreground). The comment above the job states
  says at most one job is in state FG. `do_bgfg` keeps `job_1` with signals
  unblocked; when the job ends before line 366 or 372 writes its state, a cleared
  entry (pid 0) is left in state FG or BG. If it is FG and comes first, `fgpid`
  answers 0, so `fg` of a later job returns to the prompt at once and leaves
  that job FG; the next foreground job takes the cleared entry and is a second
  one. `ForegroundIsAwaited` holds until the race is lost (`raced`).
- **ctrl-z at the prompt** (tsh_ctrl_z). The manual says a key has no effect
  without a foreground job. `sigtstp_handler` tests the pid for `kill` and then
  uses `getjobpid(jobs, 0)`, which is NULL.
- **Duplicate job ids** (tsh_job_ids). `nextjid` wraps to 1 at MAXJOBS while job 1
  may still be listed.
- **`-s 0`** (csim_no_index_bits). The manual has 2^s sets; the code has two.
- **Sizes near 2^32** (heap_size_overflow). The adjusted size wraps and the block
  is smaller than the request.

The others are stated by properties that hold, since they say exactly where the
code is right and where it is not:

- **mm_realloc to size 0 leaks** (heap and heap_segregated, `LiveIsAllocated`). The
  lab's manual (page 2) has mm_realloc(ptr, 0) equivalent to mm_free(ptr), and the
  next-fit file frees the block (lines 227-230). In mm_textbook.c the same lines are
  commented out (220-223): mm_malloc(0) returns NULL and mm_realloc returns with the
  block allocated. mm_segregated.c returns NULL at line 187 before it looks at the
  block. Nothing can reach the block any more; `leaked` records it, and the
  property says that no other call loses a block.
- **mm_realloc of NULL** (`ReallocNull` in heap_segregated). The manual has it
  equivalent to mm_malloc(size). mm_segregated.c has no such case, and the lines
  for it in mm_textbook.c are commented out (224-226): both read the header before
  address 0. The next-fit file has the case.
- **Sizes above 2^31 in mm_segregated.c** (heap_segregated, `MisleadsExactlyWhen`).
  `mm_realloc` keeps the bytes left over in an int: for a size that misses more
  than 2^31 bytes it takes the next block over without extending the heap and
  returns a block that is too small. Within 15 of 2^32 the rounding wraps, as in
  mm_textbook.c.
- **The block that place returns** (heap_segregated, `MisleadsExactlyWhen`). The
  lab's manual promises a payload of at least the size asked for.
  `place` of mm_segregated.c moves `ptr` on to the remainder before it returns it;
  with 8 bytes left over it writes a size smaller than the block. `mm_realloc` to
  a larger size returns the old block when the next one is allocated, and takes the
  extension of the heap to be adjacent to it. The first `mm_malloc` after `mm_init`
  already returns the free remainder unless it asks for the whole chunk.
  (The comment in `insert_node` speaks of lists in descending order; a list is in
  the order of insertion. No property depends on it.)
- **float_twice and float_half** (data_labs, `ScalingRightExactlyWhen`). The comments
  ask for 2 * f and 0.5 * f. The mask for the sign is a bit of the exponent:
  negative numbers lose their sign, and positive ones whose exponent carries into
  or borrows from that bit are wrong, as are zero, denormals and overflow.
- **float_i2f** (data_labs, `ConversionRightExactlyWhen`). The comment asks for
  (float) x. The fraction of an int below 2^23 is not moved to the left end, so
  only powers of two are right there; above 2^24 rounding looks at eight bits
  whatever number is dropped; 0 and the least int are wrong.

## 7. Not modelled

In the implicit lists, the calls mm_realloc(NULL, n) and mm_realloc(NULL, 0) are left
out. In the next-fit file the first is mm_malloc(n) and the second calls
mm_free(NULL), which reads the header before address 0, as mm_realloc(NULL, n) of
mm_textbook.c does (section 6). The client of `ImplicitList` passes regions it owns.

Parsing, printing, the environment of a child and the text of result.txt: no
property is about them. A failing `fork` is modelled, as pid 0: `addjob` and `waitfg` treat -1 alike. Reuse of a pid
by a process that is not a child of the shell is not: `kill` on a reaped pid does
nothing. 64-bit addresses of a trace are named as a hazard in
PROJECT.json; no run reaches them. The utilization of a heap is not a matter of
safety and is left out, apart from `GrowsOnlyWhenFull` and `GrowsOnlyWhenNoFit`.

mm_segregated.c after a client has been misled is not followed further. Of the
evaluation of the transposes, valgrind, the files in which marker and trace are
passed on, option parsing, a failing `csim-ref` and the SIGSEGV handler (no access
leaves the matrices: `TypeOK` of `TestTrans`) are left out; of driver.py, running
test-csim, adding up and printing. `printSummary` and `randMatrix` of cachelab.c
have no part in it. The phases of the bomb and the target of AttackLab are binaries,
and practice.c runs in one order only.
