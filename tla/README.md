# A verification of libaco in TLA+

libaco is a library of asymmetric coroutines for C. A coroutine does not own a
stack: several of them execute, one at a time, on the same *share stack*, and
when one is resumed on a stack whose words belong to another, the library
copies the other's frames to a private *save stack* and copies the frames of
the resumed one back. The modules here model the library (`aco.c`, `aco.h`,
`acosw.S`) and two of its example programs, TLC checks them on small instances,
and TLAPS proves every safety property the runs check, among them that no
program can observe the copies, for any number of coroutines and stacks of any
size.

All names of actions and variables are those of the C source where there is
one. Line numbers refer to the repository's files.

## Inventory

| Component | State it keeps | Operations | Interacts with |
|---|---|---|---|
| Coroutines (`aco.c`, `aco.h`) | per `aco_t`: `is_end`, `reg[]`, `share_stack`, `save_stack`; per thread: `aco_gtls_co` | `aco_create`, `aco_resume`, `aco_yield`, `aco_exit`, `aco_destroy` | share stacks through `owner` and the copies; `acosw` |
| Share stacks (`aco.c`) | `owner`, `align_validsz`, the memory, `align_retptr`, `align_limit` | `aco_share_stack_new`, `aco_share_stack_new2`, `aco_share_stack_destroy` | malloc, mmap, mprotect |
| Copy statistics | `max_cpsz`, `ct_save`, `ct_restore` | updated by `aco_resume` | read by programs to choose `save_stack_sz` |
| Context switch (`acosw.S`) | the callee-saved registers, stack pointer, return address, x87 control word, MXCSR | `acosw`, `aco_save_fpucw_mxcsr` | the ABI, signal handlers |
| Protector | thread-local last-word function, the word at `align_retptr` | `aco_funcp_protector_asm`, `aco_funcp_protector`, `aco_thread_init` | every function that returns |
| Short copies (`aco.c:46-157`) | none | `aco_amd64_optimized_memcpy_drop_in` | both copies of `aco_resume` |
| Growth of a save stack (`aco.c:392-404`) | `sz`, `valid_sz`, `ptr` | the doubling loop, `free`, `malloc` | `aco_resume`, when it evicts |
| Programs (tutorials 3 and 6, benchmark) | the array of coroutines, their local variables; a counter and a mutex | scheduling loops, `foo` | the whole API, the threads' scheduler |

What is hard here. There is no parallelism inside one thread, and all of
libaco's variables are per thread or per object, so what interleaves is first of
all coroutines: any legal program may create, resume, suspend, finish and destroy
them in any order, in the middle of each other's lives. The dangerous state is
the cross reference between the two kinds of object (`owner` of the stack,
`share_stack` of the coroutine), which survives the end of its target and the
reuse of its address; the frames, which are in one of two places; and the sizes
that say where they end. Below that, in `acosw`, a signal handler may run
between any two instructions on a stack that is half left; above it, threads
share memory while their coroutines do not, and a program that runs a set of
coroutines must notice that all have ended. Each hazard is listed with its line in `PROJECT.json`.

What makes each component correct:

- coroutines: frames are preserved whatever runs in between; the owner field
  does not dangle; the current coroutine is the executing one; nothing executes
  after `aco_exit`; the assertions on internal bookkeeping cannot fail;
- share stacks: documented size guarantees, no wrap, every accepted stack
  pointer inside the area, area and descriptor given back unless `munmap` fails;
- statistics: saves and restores pair up, `max_cpsz` predicts reallocation;
- context switch: every register and control word the ABI asks for is kept, the
  stack pointer is valid between any two instructions;
- protector: every return ends there and the process aborts with last words;
- short copies: exactly the given bytes, for every length;
- growth: the loop ends, with enough or with an abort, though the shift wraps;
- programs: a scheduler that runs every unfinished coroutine ends, a coroutine's
  local variables survive on a shared stack, no thread waits for its own mutex.

## Modules

| Module | Content |
|---|---|
| `Coroutines` | what a program may rely on: every coroutine has a private stack, control passes between main and one coroutine |
| `Aco` | the library: save stacks, share stacks, ownership, copies; implements `Coroutines` |
| `AcoStats` | extends `Aco` with the counters of the save stacks |
| `AcoProofs` | the inductive invariant of `Aco` and the theorems; that `Aco` implements `Coroutines`, action by action |
| `AcoStatsProofs` | the invariant of the statistics and the theorems |
| `ShareStackSize` | `aco_share_stack_new2` in bytes, with w-bit arithmetic |
| `ShareStackSizeProofs` | its invariant and the theorems, for every width, size, page and address |
| `SaveStackGrow` | the doubling loop of `aco_resume`, with w-bit arithmetic |
| `SaveStackGrowProofs` | its invariant and the theorems, for every width |
| `ShortMemcpy` | the inline copy of short stacks, byte by byte |
| `ShortMemcpyProofs` | its invariant and the theorems, for every length and alignment |
| `Contexts` | what a context switch promises: each coroutine keeps its own context |
| `AcoSw` | `acosw` instruction by instruction on both architectures, with `aco_thread_init`, the start of a coroutine, the protector and signal handlers; implements `Contexts` |
| `AcoSwProofs` | the invariant of `AcoSw`, that it implements `Contexts`, and the theorems, for both architectures and both settings of the control words |
| `Scheduler` | extends `Aco` with `main` and `co_fp0` of `test_aco_tutorial_6.c` |
| `SchedulerProofs` | its invariant and the theorems, for any number of coroutines and yields |
| `Threads` | the threads, the mutex and the counter of `test_aco_tutorial_3.c` |
| `ThreadsProofs` | that the assertions of `pmain` hold and the counter is exact, for any number of threads and rounds |
| `MC...` | one instance for TLC of each module that has runs |

They fit together as follows. `Aco` is the centre. What it takes as one step or
as an assumption is opened up in a module of its own: the switch in `AcoSw`, the
size of a grown save stack (`SaveSizes`) in `SaveStackGrow`, the copies in
`ShortMemcpy`, the area of a share stack (`AcoAssumption`) in `ShareStackSize`.
`AcoStats` adds counters to it, `Scheduler` a program, and `Coroutines` is what
all that looks like from outside. `Threads` stands on that outside view.

### `Aco` and the code

One variable stands for one field: `live` is the set of `aco_t` between
`aco_create` and `aco_destroy`; `share_stack`, `is_end`, `reg` and `save_stack`
are fields of `aco_t`; `owner`, `align_validsz` and `mem` belong to
`aco_share_stack_t`; `cpu` says whose code executes, where, and with which
stack pointer; `abort` names the assertion that ended the process. Elements of
`Co` and `Stack` are addresses and are handed out again once freed.

Sizes and offsets count words of `sizeof(void*)`. A stack pointer is given as
its distance below `align_retptr`. It is 0 when a coroutine's function is
entered, which is where the return address lies (index 0 of `mem`), and -1 once
that word has been popped.

Every function of the API is one action; within one thread nothing else can
happen while it executes. `aco_resume` is split by the path it takes:
`ResumeOwner` (the coroutine still owns the stack, `aco.c:368` is false),
`ResumeFree` (no owner), `ResumeEvict` (the owner's frames are saved first) and
`ResumeAborts` (the first assertion that fails, in the order of the code). Its
last statement, the reset of `aco_gtls_co`, is executed when the coroutine
switches back and belongs to `aco_yield` and `aco_exit`. `CreateMain` and
`DestroyMain` are the main branches of `aco_create` and `aco_destroy`.

The program around the library is `Push`, `Pop`, `Return` and `TailYield`: the
function of a coroutine writes words on its stack, drops them, returns where it
should have called `aco_exit`, or ends with an `aco_yield` that the compiler
turned into a jump, so that `acosw` sees the function's own return address.
The library is called within the rules of the repository's `README.md`: only
the main coroutine resumes (363), a share stack is destroyed after its
coroutines (331), a coroutine does not destroy itself, the main coroutine is
destroyed last and nothing is called through a pointer that was freed.
Everything else is free, and calls the library must itself reject (resuming an
ended coroutine, yielding from main) are part of the model.

When a process aborts, nothing is observed any more; that is why `Die` leaves
the other variables alone although `aco_resume` may have changed some before
the failing assertion, and why `Aborted` stutters forever.

`SaveSizes` gives the result of the doubling loop directly: the only multiple of
the old size by a power of two in `need..2*need-1`. Sizes are unbounded there;
`AsInAco` of `SaveStackGrow` says when that is what w-bit arithmetic gives.

### `Coroutines` and the refinement

`Abstract` in module `Aco` maps `current` to `cpu.co`, the status to the states
of the repository's `README.md`, and the private stack of a coroutine to the
words below `align_retptr` if it owns its share stack, else to its save stack.
`ImplementsCoroutines` says that every behaviour of the library is one of the
abstract specification: no copy is visible, and a step changes only the stack
of the coroutine that executes.

### `AcoStats`

Each action of `Aco` that copies also updates `stats`; the counters wrap at
`CtMod`, the size of `size_t`. `asked_sz` and `shared` are history variables:
the size at creation, and whether the coroutine ever had company on its stack.

### `ShareStackSize`

The call proceeds in four steps: the size is settled or an assertion fails, the
`aco_share_stack_t` is allocated (`descriptor`), the area is allocated and its first
page made read-only (malloc, mmap and mprotect may fail, in which case the process
ends), and the pointers are laid out. `Destroy` gives back the area and the descriptor;
with a guard page it ends in an abort if `munmap` fails, which `AllIsFreed` does
not speak of. Masks with a page size are written with `%` as page sizes are powers of
two. Word size and alignment are the real ones; the other constants are
scaled down with the width of `size_t`.

### `SaveStackGrow`

`Test` is the comparison with `valid_sz` and the `free`, `Double` one turn of the
loop with its assertion, `Malloc` the allocation, which may fail. The assertion
looks for 0 only. With 6 bits, a size of 43 that must grow to 44 is doubled to
22 (a bit is lost) and then to 44, which is enough: the loop can go on from a
wrapped size and end with one that is no multiple of the old one. That is
harmless, as `FitsWhenCopied` shows, and it takes a need of more than half of
all addresses; below that the sizes are those of `Aco` (`AsInAco`), and the
assertion fails for no need that small (`DiesOfOverflowOnly`).

### `ShortMemcpy`

A byte of the destination holds its offset in the source. The test, the loads
into `xmm0` to `xmm7`, the stores and the last 8 bytes are steps; sixteen bytes
around the area are watched as well.

### `AcoSw` and `Contexts`

`acosw` is a sequence of instructions, built from the two halves of each
architecture (`SaveI386`, `LoadI386`, `SaveAmd64`, `LoadAmd64`) in the order of
`acosw.S`; there is one action per kind of instruction. Offsets are bytes. A
register or a word of memory holds a tuple that names its meaning: an address
in a stack or of an `aco_t`, a code address, or what coroutine `c` computed with
its frames down to offset `s`. Values differ with `c`, `s` and the register, so
that a register that is swapped, lost or taken from the other side shows.

`Call` is the program between two switches: it computes new registers and
frames and calls `acosw`, with the arguments where the ABI puts them. One of the
two coroutines is the main one. `Signal` may happen wherever the stack pointer
is; it overwrites everything below it, even the red zone of amd64, which is the
worst a handler may do. The control words are those of the x87 unit and MXCSR;
`ShareEnv` is `ACO_CONFIG_SHARE_FPU_MXCSR_ENV`. Each coroutine has its own stack
here, since sharing is the subject of `Aco`, and so has the tail call of
`aco_yield`. `called`, `reference` and `promised` are history variables.

`Contexts` has contexts that only the running coroutine changes. The
mapping takes the context of a suspended coroutine from `co->reg`, that of the
running one from the registers, and keeps that of a coroutine inside `acosw`
at what it was when it made the call; so a switch happens, in the abstract
specification, at the last jump, when everything must be in place.

### `Scheduler`

`SetUp` to `CleanUp` are the statements of `main`, `Enter` to `Increment` those
of `co_fp0`, each over the actions of `Aco`. The local variables of `co_fp0` lie on the
share stack as words 1 and 2; it counts right only if they are put back.
`Loops` replaces `rand() % 1000`. `SchedulerAssumption` says that there are
coroutines (100 in the program), that the locals hold what they count, and that
the two of them fit on the share stack, which the program asks for with the
default size of 2 MB. The build for Valgrind, in which every coroutine
has its own share stack, is left out.

### `Threads`

Two threads run `pmain` with three coroutines each. A switch is one step. Load and store
of the counter are separate steps, and `aco_get_arg`, `aco_yield` and `aco_exit` act on
whatever `aco_gtls_co` of the thread names: a yield saves the place in that coroutine and
goes on in its main coroutine, and aborts if it has none (`BackToMainOf`). Creating and destroying the
coroutines, which touches nothing that is shared, is left out.

## Runs

| Run | Instance | Shows |
|---|---|---|
| `AcoCopy` | 2 coroutines, 1 stack, 2 words, `Limit` 3, `Room` 3, save stacks of 1 or 2 words | `ImplementsCoroutines`: frames keep their contents; `TypeOK` |
| `AcoShare` | 3 coroutines, 2 stacks, 1 word, `Limit` 2, `Room` 2 | `OwnerIsValid`, `RunnerIsCurrent`, `OwnAssertionsHold`, `EndIsFinal` |
| `AcoDeep` | 2 coroutines, 1 stack, 1 word, `Limit` 5, `Room` 5 | `EvictedFramesFit`, `ReturnIsCaught` |
| `AcoStats` | 2 coroutines, 1 stack, `Limit` 3, `Room` 2, counters modulo 3 | `SavesArePaired`, `MaxCpszPredictsGrowth`, `StandaloneIsNeverCopied` |
| `ShareStackSize` | all sizes of a 9-bit `size_t`, pages of 1, 16, 64, 128 bytes, 3 addresses | the documented guarantees, overflow, layout, deallocation |
| `SaveStackGrow` | every size and need of a 6-bit `size_t` | `FitsWhenCopied`, `DiesOfOverflowOnly`, `AsInAco`; `LoopEnds` |
| `ShortMemcpy` | every length of 1 to 168 bytes, addresses 0, 1, 4 or 8 past a multiple of 16 | `CopiesExactly`, `UnitsAreAligned` |
| `AcoSwAmd64` | 2 coroutines, stacks of 48 bytes, 2 sets of control words | `ImplementsContexts`, `StackPointerIsValid`, `StartsWithThreadWords`, `TypeOK` |
| `AcoSwI386` | the same on i386 | `ImplementsContexts`, `StackPointerIsValid` |
| `AcoSwShared` | 3 coroutines on amd64 with shared control words | `ImplementsContexts` |
| `Scheduler` | 3 coroutines that yield 0 to 2 times, 1 share stack, `Limit` 3, `Room` 2 | `Completes`, `NoAssertionFails`, `ResumedAsAsked`, `TakeTurns` |
| `Threads` | 2 threads, 3 coroutines each, 4 rounds | `AllThreadsEnd`, `NoAssertionFails`, `CountIsExact` |

Why these bounds are enough. A defect of ownership needs an owner, a second
coroutine and possibly a third whose address is reused, and a second stack to
tell "no owner" from "owner elsewhere": `AcoShare`. A defect of copying shows
with two different words in frames of two lengths: `AcoCopy`, where the frames
are up to two words when evicted and three at most. Growth takes more than one
doubling from 1 to 3 or 4 words, and the last word of the area that may not be
saved takes `Room` above `Limit - 1`: `AcoDeep`. Counters modulo 3 wrap within
a few evictions. A stack of 48 bytes has two aligned depths for the frames of a call
(16 and 32), so that a context can be overwritten by a shorter and by a longer
one; a third coroutine in `AcoSwShared` is one that neither side of a switch may
touch. `ShortMemcpy` goes two units past the last inline length. The two locals of
`co_fp0` fill `Room`, and up to two yields make coroutines end in different rounds.
In `Threads` the behaviour of a round does not depend on its number, so 4 rounds stand
for the 6 of the program; two threads are what the program has. Coroutines, stacks and words are interchangeable, which the
symmetry sets use; no run with symmetry checks liveness. The counterpart of a
bound is a proof: see below.

Deadlock is checked in every run but those of `ShareStackSize`, `SaveStackGrow`
and `ShortMemcpy`, where the call ends.

Every property has a mutant: an operator beside the definition it replaces,
marked "Mutant", that changes it as a slip in the C code would. No
specification uses these operators.

### Fairness

The library waits for nothing, so `Aco` and `AcoSw` state no fairness. The
three specifications that do assume no more than that a thread which can take
its next step is scheduled again and again: `WF_vars(Next)` in `SaveStackGrow`,
`WF_allVars(Step)` in `Scheduler`, where `Step` is everything but a failing
allocation, and `WF_vars(ThreadStep(t))` for each thread in `Threads`. Weak
fairness does not say that a thread gets a mutex others take again and again:
that `AllThreadsEnd` holds all the same comes from each thread locking it
finitely often. `Completes` allows the program to die when memory runs out, which no
scheduler can prevent.

## Proofs

`AcoProofs` proves, for every set of coroutines, share stacks and words and
every `Limit`, `Room`, `SaveArgs` and `DefaultSave` that satisfy
`AcoAssumption`, that `TypeOK`, `OwnerIsValid`, `RunnerIsCurrent`,
`EvictedFramesFit`, `OwnAssertionsHold`, `ReturnIsCaught` and `EndIsFinal` hold.
`AcoAssumption` says that the addresses are distinct and that the deepest stack
pointer `aco_resume` accepts is in the area (`Limit - 1 <= Room`). The second
is what `LimitBelowStack` of `ShareStackSize` says of the layout; it is proved below.

None of these properties is inductive alone. `IInv` joins them with four facts:

- `LiveHaveStacks`: a live coroutine's share stack exists, so that its owner
  field can be read;
- `SavedIsThere`: a save stack holds at least `valid_sz` words and never more
  than can be restored;
- `SlotsIntact`: the word at `align_retptr` is the protector's address and no
  other word is;
- `NoneIsWild`: every coroutine continues in its code with a stack pointer at or
  below the slot, or in the protector.

They depend on each other in a circle: the owner must be valid for its stack
pointer to be the bound of the frames that are saved; what is saved must fit
for a restore to stay off the slot; the slot must be intact for a return to
reach the protector instead of code that keeps no invariant. There is a lemma
per action (`aco_resume` has one per path), lemmas for the two copies and the
growth of the save stack, and `NextKeepsIInv` puts them together.

`SaveStackGrowProofs` proves `TypeOK`, `FitsWhenCopied` and `DiesOfOverflowOnly` of
the doubling loop for every width of `size_t`. The invariant says that in the
loop the size is positive and below the need. `DoubledIs` gives the double of a
size without `%`: it either is the double or has lost `Mod`, and then it is
smaller than the size it came from, hence below the need again. So a size that
ends the loop has lost no bit since the one before it, and 0 can only come from
half of all sizes, which was still below the need.

It also proves `AsInAco`, which closes the gap left by `SaveSizes` of `Aco`. The
powers of two are counted, not computed: `2^n` is the number of subsets of a set
of `n` elements, and `FS_SUBSET` of the library gives what a power is without
induction (`PowerNext`, `PowerGrows`). `PowerInv` says that the size is the one
asked for times a power of two, with an exponent below the width, as long as the
need is at most half of all sizes.

The second half of `AcoProofs` proves `ImplementsCoroutines`. `Looks(d)` says that neither the
status nor the frames of `d` change as `Coroutines` sees them; for each action,
all coroutines but the one that acts look the same (`OthersLook`), and that one
makes the abstract step. A push or a pop is `Work`; a return cannot be seen; a
yield leaves the frames in place. The three paths of `aco_resume` need the
invariant: the owner that is evicted has exactly as many words in use as are
saved (`SavedIsWhatWasUsed`), what a coroutine gets back is what was evicted,
although the words above belong to others by then (`RestoredIsEvicted`), and
third coroutines have their frames in a save stack or on another share stack
(`BystandersKeepFrames`). `OwnerIsValid` is what makes the last of these true.

`AcoStatsProofs` proves `SavesArePaired`, `MaxCpszPredictsGrowth` and
`StandaloneIsNeverCopied` for any width of the counters. `StatsInv` adds to them
that `shared` knows of all company (`CompanyIsKnown`), so that a coroutine that
never had any cannot be the owner somebody else evicts. A coroutine that is
copied gets one more save or one more restore modulo `CtMod` (`CounterWraps`,
`Difference`); every step that copies nothing is quiet (`UncountedIsQuiet`).

`ShareStackSizeProofs` proves all properties of `ShareStackSize` for every width
of `size_t`, every page size, every size asked for and every address that
`SizeAssumption` allows. `SizeInPages` is its centre: the assertions of
`aco.c:228-243` hold exactly if the pages wanted are fewer bytes than `2^w`, and
the sum is then their size; it rests on the uniqueness of quotient and remainder
(`DivisionIsUnique`) and on `Wrap`, which gives w-bit addition without `%`. The
invariant then follows the area from the allocation to its release, and `Laid`
gives the pointers in numbers. `LimitIsBelowStack` closes the gap left by
`AcoAssumption`: what `AcoProofs` assumes of `Limit` and `Room` is a theorem about
the code that lays out the stack.

`ThreadsProofs` proves `NoAssertionFails` and `CountIsExact` of `Threads` for any
number of threads and rounds. The invariant says of each thread that `aco_gtls_co` names the
coroutine it has resumed (`CurrentIsOwn`), or its main one, and that its three
coroutines have had, have or await their turn in the order of their numbers
(`InOrder`). A step of one thread leaves the data of every other alone
(`UndisturbedStaysOK`), because it reaches coroutines through its own
`aco_gtls_co`; were that variable global, the proof would fail at `Resume`.

The counter is a matter of its own: `CountInv` says that at most one thread is
between lock and unlock and that the value it has loaded is still the counter
when it stores; a store then adds one to the counter and one element to
`Stores`, the turns that have stored.

`AcoSwProofs` proves `TypeOK`, `StackPointerIsValid`, `StartsWithThreadWords`
and `ImplementsContexts` of `AcoSw`, for any set of coroutines
and control words, any size of the stacks, both architectures and both settings
of `ShareEnv`. Its invariant follows `acosw` instruction by instruction. `Listing`
numbers the instructions of each architecture; by that number, `Written` says which
fields of the caller have been stored, `Switched` which registers and control
words are already those of the callee, `ScratchOK` what the scratch registers
hold as long as they are used. Outside `acosw`, all coroutines but the executing one
are `Ready`: suspended, or not begun. The abstract step is the last jump:
`SavedAsCalled` says that what was stored is the context of the call,
`RestoredAsLeft` that what is in force is the context the callee left. A signal
between any two instructions changes only words below the stack pointer, where
no frame of a context lies (`SignalSpares`).

`SchedulerProofs` proves `NoAssertionFails`, `ResumedAsAsked` and `TakeTurns` of
`Scheduler`. It looks at the coroutines through `StatusOf` and `FramesOf` only and
takes what each call of the library does to them (`CreateShows` to `ExitShows`)
from the refinement of `Coroutines`, so that nothing in it depends on where
frames lie; the one exception is that the owner's two words are few enough to
be saved (`OwnerIsShallow`). `SchedInv` adds to the invariant of `Aco`:

- `Counts`: by where a coroutine is, its frames are its argument and a count
  that has kept up with the times it was resumed;
- `InTurn`, `Distinct`, `Filling`: the coroutine that executes is the one at
  place `ct`, no coroutine has two places, and places are filled in order;
- `EvenRounds`: two coroutines that go on were resumed equally often, but for
  the turn one of them had in this round;
- `EmptySeen`: the last `null_ct` places the scan has visited, across the end of
  the array, are empty, so that `co_amount` of them in a row are all;
- no coroutine has ended when `main` scans, since it is destroyed at once.

`ct++` is not a call of the library; `IncrementShows` proves that it keeps `IInv`.

`ShortMemcpyProofs` proves `CopiesExactly` and `UnitsAreAligned` for every length
and alignment. The invariant is that the destination is `Filled` up to the unit
that comes next and that all loads come before the first store;
`StoredExtends` makes it longer by one store.

So every invariant, action property and refinement the runs check is a theorem.
Only model-checked are the three liveness properties `LoopEnds`, `Completes` and
`AllThreadsEnd`: liveness under fairness and `ENABLED` are out of the prover's
reach. So is induction over data, which no theorem here needs.

## Not modelled

- overflow of a coroutine's stack into the guard page: the hardware stops it;
- sharing the address of a local variable between coroutines on one share
  stack, which the repository's `README.md:904` forbids;
- Valgrind and AddressSanitizer annotations and the builds for them;
- `aco_runtime_test` and the static assertions, which hold or fail before any
  state exists;
- the messages of failed assertions and of the default last-word function;
- the build and test scripts, the benchmark, printing and timing.

## Plan

What is left is to prove of the liveness properties what does not need fairness:
a bound on the turns of the doubling loop, on the resumes of the scheduler and on the
steps of a thread, each as a natural number that every step lowers.
