# A verification of CoreMark-PRO

CoreMark-PRO runs nine benchmark kernels under MITH, a harness that executes
work items on a pool of threads.  This directory models the harness, the
parts of the kernels that have a logic of their own, and the arithmetic the
suite brings along for targets without a floating-point unit or a C library, in
TLA+; it checks the models with TLC and proves the central results with TLAPS.

    tlc -config MCWorkPool_plain.cfg MCWorkPool     one run (PROJECT.json lists all)
    tlapm WorkPool_proofs.tla                       the proofs of a module

`PROJECT.json` has, for every definition, the source lines it stands for, and for
every property a plausible bug of the code that breaks it (an operator
with the comment "Mutant" beside the original; no specification uses one).


## 1. The system

A program (`workloads/<w>/<w>.c`) builds one *workload*: an array `load[]` of
work items, each with the functions of a kernel and the `params` that its
`define_params_*` returned.  `mith_main` resets the workload, starts
`num_contexts` threads that take items from it round-robin until each has been
executed `num_iterations` times, joins them, prints a report; `main` cleans up.

| Component | State | Operations | What is hard |
|---|---|---|---|
| Pool (`mith_lib.c`: `bench_thread`, `mith_main_loop`; `mith_workload.c`: `mith_wl_get_next`) | `mith_mutex`; `next_idx`; `assigned`, `finished`, `failed` per item; a context per thread | get next item, execute, record, create, join, report | two critical sections with the execution between them; everything between is unlocked |
| Chains (`get_chain_mutex`, barriers of `bench_thread`) | a row of mutexes per chain instance: 0 for the start, one per item | hold the items back until the last is assigned; wait for all at the end | locks taken by one thread and released by another, while `mith_mutex` is held |
| Connections (`chain_*`) | mutex, condition, data, for CTRL and DATA of each link | send and receive a buffer | handshake over conditions without predicates; polling without a lock |
| Kernel interface (nine kernels) | `params` shared by the contexts, a copy per context, the blocks they point to | `define_params`, `bmark_init`, `t_run_test`, `bmark_verify`, `bmark_fini`, `bmark_clean` | pointers copied by `memcpy`; what is allocated in one function is released in another |
| Workload program and structure (`main`, `mith_wl_*`) | command line, `load[]`, chain arrays | parse, define, add, reset, run, report, clean up, destroy | `next_idx` with two meanings; 32-bit products; a validation run overrides the iterations for `mith_main` only |
| Allocation statistics (`th_malloc_x` and others) | list of (address, size), total, maximum, one mutex | allocate, reallocate, release | the C library is called outside the mutex |
| core kernel | a list, a matrix and a text block used again in every iteration | list find/sort/remove, matrix, state machine | every iteration must leave the data as it found them |
| Accurate bits (`th_bignum.c`, `load_dp` of `th_al.c`) | `acc_summary` | take floats apart, add, negate, shift big numbers, compare | carries between limbs, exponents far apart, subnormals |
| softfloat (`al/soft`) | rounding mode, exception flags | every operation on float32 and float64 | sticky bits, ties, subnormals, NaNs; libgcc's names for comparisons |
| fdlibm (`al/fdlibm`) | `errno`, `signgam` | the functions of `math.h` and their wrappers | two 32-bit words per double; an error convention for each standard |
| getopt (`th_getopt.c`) | `th_optind`, `nextchar`, `first_nonopt`, `last_nonopt` | `th_getopt_long` | permutes argv a little in every call |
| th_lib utilities | none | flags, CRC, random numbers | 32-bit edges |
| Adaptation layer (`al`) | pthread objects | one pthread call each | |

How they interact: `main` calls `mith_wl_add` and `mith_main`; `mith_main_loop`
creates the threads; a thread calls the pool's functions and through the item's
pointers the kernel's; kernels allocate through `th_malloc`; items of a chain
talk over connections found by `mith_get_connections`.  Contexts share the workload
(under `mith_mutex`), the item's `params` (read only, by convention), the
allocation statistics (under their mutex) and a few globals.  The floating-point
kernels verify themselves with the accurate bits; on a target without
floating-point hardware the compiler turns every operation of theirs, and of fdlibm's,
into a call of softfloat.  On Android `main` is a function of a library that is
called several times and does the phases it is asked for.

What makes each correct:

- *Pool*: every item is executed exactly `num_iterations` times and accounted for
  each time; failures are counted for the item that failed; no two threads
  execute the same iteration of an item; the report comes after everything; the run ends.
- *Chains*: the items of an instance are executed together; nobody waits forever.
- *Connections*: buffers arrive once and in order; no signal is lost.
- *Kernels*: nobody uses or releases memory that is not theirs; nothing leaks; contexts do not disturb each other.
- *Program*: the pool, the report and the cleanup find in `load[]` what was put there; all is released; every context gets work.
- *Statistics*: the total is what is allocated.
- *core*: the data are restored by each iteration; both builds of the state machine agree.
- *Accurate bits*: a result is credited with exactly the leading bits that are right.
- *softfloat*: the result is the exact one rounded once, the flags tell what happened, comparisons order numbers.
- *fdlibm*: values and `errno` are what mathematics and the chosen standard ask for.
- *getopt*: the options come first, nothing is lost and nothing changes its order.

`PROJECT.json` lists the hazards of the code with their lines; those without a
property say why.


## 2. Modules

| Module | Models | Read with |
|---|---|---|
| `RunPromise` | what `mith_main` promises (`mith_workload.h`): start, complete, report | |
| `WorkPool` | the pool and the chain barriers; implements `RunPromise` | `mith_lib.c` 97-314, `mith_workload.c` 139-251 |
| `WorkPool_proofs` | its proofs, and that it implements `RunPromise` | |
| `ChainProtocol` | the buffer protocol between the items of a chain | `mith_lib.c` 525-658, `mith_sync.h` |
| `ChainProtocol_proofs` | its proofs | |
| `KernelLife` | the memory of the nine kernels | the kernel files |
| `KernelDiscipline` | what each function of a kernel has to do on its own; definitions over `KernelLife`'s programs | |
| `KernelLife_proofs` | that disciplined kernels are safe together | |
| `WorkloadMain` | `main` of every workload and its Android variant; the pool as one step, as `RunPromise` says | `workloads/*/*.c`, `workloads/*/jni/*.c`, `mith_workload.c` |
| `WorkloadMain_proofs` | its proofs | |
| `ThMalloc` | the allocation functions with statistics | `th_lib.c` 775-1104, 2192-2251 |
| `ThMalloc_proofs` | its proofs | |
| `CoreState` | the state machine benchmark of core | `core_state.c` |
| `NaturalRecursion` | induction over the naturals and the existence of recursive functions, for the proofs | |
| `CoreList` | the list benchmark of core | `core_list_join.c` |
| `Core_proofs` | the proofs of `CoreState` and `CoreList` | |
| `FloatFormat`, `SoftFloat` | softfloat: what both formats share, and the operations | `al/soft/softfloat.c`, `softfloat-macros`, `softfloat-specialize`, `softfloat-for-gcc.c` |
| `FloatReference` | what IEEE 754 asks of them: the exact result, rounded once | |
| `FdlibmWords` | fdlibm's functions on the words of a double; extends `FloatReference` | `al/fdlibm/s_*.c`, `e_fmod.c`, `e_remainder.c`, `e_sqrt.c` |
| `Fdlibm` | fdlibm's special cases, wrappers and `errno` | `al/fdlibm/e_*.c`, `w_*.c`, `k_standard.c` |
| `AccurateBits` | `load_dp`, the big numbers, the comparison of results | `th_bignum.c`, `th_al.c` |
| `Getopt` | `th_getopt_long` | `th_getopt.c` |
| `Library_proofs` | the proofs of `Fdlibm` and `Getopt` | |
| `MCLibrary` | one system of the parts that run alone | |

`MCWorkPool`, `MCWorkloadMain`, `MCCoreState`, `MCFdlibmWords` and `MCAccurateBits` give the constants of the other runs.
The modules `MC*` also evaluate what the theorems assume: `MCWorkloadMain` that the nine kernels are
disciplined (`KernelsDisciplined`) and which options of theirs are not (`OptionsOffend`), `MCLibrary` that the presets' seeds make no commas (`PresetSeeds`), that the
items of its lists can be told apart by their idx (`IdxTellsItems`), and the assumptions of the parts.

**WorkPool.**  `pc[t]` is the place of a thread in `bench_thread`; there is one
action per piece of code between two points where another thread can get in: the lock
(`LockToGet`), the search and the choice (`GetNext`, `GetNone`), the locks of the
chain (`LockStart`, `LockOwn`), the assignment and unlock (`Assign`), the wait
for the start (`ReleaseStart` by the last item, `WaitStart` by the others), the execution
(`Bench`: a verdict), the end barrier (`UnlockOwn`, then `WaitEnd` for each mutex of
the loop), `LockToRecord`, `Record`.  `Record` writes what `LockToRecord` read, so
that a lost update would show.  The mutexes have no owner that must unlock them:
the code has the last item unlock what the first locked, which default pthread mutexes
allow on the targets.  The main thread is `CreateThread`, `JoinThread`, `ReportResults`.

**ChainProtocol.**  A link between two items has a CTRL and a DATA connection.  A
side holds its mutex except while it waits on its condition, so the other's lock
succeeds only then; a function that locks, works and unlocks is one action.  A signal
wakes a waiter if there is one and is lost otherwise.  `SpuriousNext` adds
wake-ups without a signal.

**KernelLife.**  Each function of a kernel is the sequence of what it does to
memory (`New`, `Free`, `Read`, `Write`, `CopyParams`); the actors execute the sequences of one
kernel, step by step, in every interleaving.  A block is named by who
allocated it, when, for which field and with which allocator.  `Program` has the nine kernels and, as programs of their own,
every option of a dataset or of the build that changes what a kernel does to memory:

| Program | Option | Lines | What it does |
|---|---|---|---|
| `unzip` | zip `-d=1` | `zip_darkmark.c` 220-236 | releases the shared `unz_buf` in every execution |
| `zipFile`, `unzipFile` | zip `-f=`, alone and with `-d=1` | `zip_darkmark.c` 158-170, 207-208, 262-265 | fills the buffer of the other direction: init copies from a null pointer, the execution releases the shared buffer |
| `parserFile` | parser `-f=` | `parser.c` 149-177 | in order |
| `parserText`, `parserNone` | parser `-n=0` | `parser.c` 170, 187-188 | `bmark_clean` releases the static text; without one, init copies from null |
| `nnetRef` | nnet `-g` | `nnet.c` 265-266 | every execution allocates `ref_passes` and nobody releases it |
| `nnetTooMany` | nnet with too many patterns | `nnet.c` 112-116 | releases an aligned block as a plain one and returns null, of which init ends the program |
| `cjpegPreset` | cjpeg built with `SELECT_PRESET_ID` | `bmark_lite.c` 166-235, 336-345 | in order: the image is static |
| `cjpegOther` | the same with another image than the one built in | `bmark_lite.c` 340 | the image is never released |

No shipped workload has the options that go wrong.  `kernel_life` runs the programs that are in order, `kernel_unzip` shows
one of the others, and `OptionsOffend` (in `MCWorkloadMain`) has TLC evaluate exactly what each of the others does wrong.

**WorkloadMain.**  One thread, the steps of `main` in order; a step's guard is the
code's branch.  Products wrap at `Word`.  The Android function (`CallAndroid`) is `main`
by phases: a call names those it does, the workload stays between calls.  The model makes only the
calls that are defined (`Usable`: what a phase needs is there); the others follow
pointers nobody has set.  Chains come from an "external caller", which may also call `mith_main` again (`RunAgain`): no
`main` in the repository does either.  The arrays of a chain have the run in their names, so that those a later
`mith_wl_reset` loses are seen.

**ThMalloc.**  A call is: the C library (for `realloc` before the statistics, for
`free` after), the unlocked test for initialisation, the lock, the accounting.

**CoreState.**  `Written` is the loop of `core_init_state`: `Filled` is its state after each pass (what is written, the pattern
in hand, and whether the block is full), the zeros come after; the scans read one symbol a step
with both machines; `Flip` is the corruption and its undo.

**CoreList.**  A node is its number, the list a sequence of nodes, `info` what the nodes
hold.  One action per stage of `core_bench_list`: a round of finding (`Find`: find,
reverse, move), the sort by data with the values `calc_func` computes and caches
(`SortByData`: any values, the state machine and the matrix give them), removal,
undo, sort by idx.  The next call starts from `res->list`, which none of this updates (`FromHeader`).
The sort is the merge sort of the code: passes over runs of 1, 2, 4... nodes, until a pass makes one merge.

**FloatFormat, SoftFloat.**  The code has every function twice, for float32 and
float64, with other numbers: here it is written once and the format is a parameter, a record of the
numbers of exponent and fraction bits.  What the code writes as a number (`0x3FE`, `<<7`) is
written as what it is of the format (`Bias`, `Guard`).  A behaviour is a call: a rounding
mode, operands, a result and the flags it raises.  Products that the code puts together from halves of a
word are taken whole, and `estimateSqrt32`, a table for 32 bits, is any
estimate within the error its comment promises.

**FloatReference.**  Values as integers times a power of two, exact, rounded once
by definition of the mode.  Nothing of the code is in it but the layout of a float.

**FdlibmWords.**  A double is the integer of its bits, `HI` and `LO` its words; the
functions do what the code does word by word and use `SoftFloat` for the
arithmetic in them, so that `scalbn` or `rint`, which round by a multiplication
or an addition, are checked together with it.  The loops of `fmod` and `sqrt` work on a pair of words (`Pair`) with the
borrow of a subtraction and the bit a doubling carries over, and the words of a subnormal are shifted into each other as in the
code.  The shift by a whole word in `sqrt` (`e_sqrt.c:126`), undefined in C, gives either outcome; what it adds is masked out.

**Fdlibm.**  A number is its sign and its magnitude in halves, enough to tell integers, odd integers, zeros, infinities and the
thresholds of the functions apart; a result is NaN, infinite, zero or ordinary.  `__kernel_standard`
is the table of error types with the four standards (`version`).

**AccurateBits.**  Big numbers are integers modulo `Base^Limbs`; addition and the
shift go limb by limb as in the code, carry recognised by comparison.  A shift by the whole width of a limb is undefined in C: both
outcomes are taken.

**Getopt.**  `th_getopt_long` called until it returns -1.  `argv` holds the numbers the
texts had on the command line, so a lost or exchanged text shows.  `exchange` is the loop of the code, `SwapShorter` one turn of it.

**MCLibrary.**  These parts, `CoreState` and `ThMalloc` call nothing of each other
and share no variables.  A behaviour of `MCLibrary` chooses one of them (`library`)
and takes its steps while the others rest: the states are the sum, not
the product, of the parts' states.  The modules are extended, so the properties the run checks are those the
theorems prove; only softfloat, its words and the accurate bits are instances on narrow formats.


## 3. Runs

| Run | Question | Bounds | Result |
|---|---|---|---|
| `pool_plain` | is anything lost, done twice, blamed on another item or reported early; is `RunPromise` implemented | 3 threads, 3 items, 2 iterations, verdicts 0/1 | holds |
| `pool_chains` | do the barriers hold the chain together; does the run end | 3 threads; chain of 2, single item, chain of 3 | holds for the items the end loop reaches |
| `chain_end` | "make sure all items in chain are done" | 2 threads, chain of 2 | **violated** |
| `fake_item_failures` | are failures reported for the item that failed, when an item has no `init_func` | 2 threads, chain of 2 | **violated** |
| `chain_protocol` | order, acknowledgement, completion of the handshake | 4 items, 3 buffers | holds |
| `chain_spurious` | the same acknowledgement with spurious wake-ups | 2 items, 2 buffers | **violated** |
| `kernel_life` | ownership of memory in all nine kernels and the options in order | 2 contexts, 3 iterations (or 1, verified) | holds |
| `kernel_unzip` | the same for zip with `-d=1` | 1 context, 2 iterations | **violated** |
| `workload_main` | what the pool, the report and the cleanup find; is the verdict the run's; what is released; the loop over the iterations | every program, 1-7 items, flags up to a word of 2048, 2 calls of the Android function or of a caller's `mith_main` | holds |
| `library` | do the results agree with mathematics; is what is changed for a while restored; do total, list and heap agree | below | holds |
| `rint` | "rounded to integral value according to the prevailing rounding mode" | doubles of 6+9 bits | **violated** |
| `accurate_bits` | "supports denorm" | limbs of 4 bits | **violated** |

In `library`:

| Part | Properties | Bounds |
|---|---|---|
| `CoreState` | `SameMachine`, `StateNamesFormat`, `ScansInside`, `CorruptionUndone` | blocks of 2-104 bytes, preset seeds, 3 steps |
| `CoreList` | `ListRestored` | lists of 4-31 nodes, the presets and small lists, up to 102 rounds, 4 calls |
| `SoftFloat` | `RoundsCorrectly`, `FlagsTell`, `ComparesAsNumbers` | float32 as 5+2 bits, float64 as 6+9, four modes, int32 of 7 bits, int64 of 16 |
| `FdlibmWords` | `WordsTell` | doubles of 6+9 bits, 6 of them the low word; shifts from -600 to 600; four modes |
| `Fdlibm` | `ErrnoTells`, `InfinitiesAgree` | magnitudes at and next to every threshold, both signs, NaN; four standards |
| `AccurateBits` | `AccurateBitsTell` | limbs of 4 bits, 6 of them; 3 and 6 bits of fraction; buffers of 1 and more |
| `Getopt` | `GetoptPermutes` | all command lines of 3 texts out of 11, of 4 out of 5; the three orders |
| `ThMalloc` | `TotalIsSum`, `ListIsHeap`, `TotalIsAsked`, `AccountsLocked` | 2 contexts and main, 3 addresses, 2 calls each |

Why the bounds are enough.  Three threads are the first number at which one can be overtaken by another while a third is between the
critical sections; two iterations are the first at which `next_idx` wraps with work left; three items let the wrap fall
before, at and behind the item in hand.  The chains of 2 and 3 with `mcl` 3 have an item below, at and above the end loop's
limit.  Four items of a chain have two in the middle, which both send and receive; three buffers
have a first, a middle and a last.  In `kernel_life` the third iteration makes
one context run twice while the other is inside a function.  A word of 2048 with flags up to 2047 wraps the
product to zero and to a small number for programs of one, three and seven items; two calls of the Android function
are the first at which a run finds what another left.

Nothing of softfloat depends on the width of a format but its constants.  The narrow formats keep the relations
between them that the code relies on (`FormatAssumption`): a double has twice the bits of a
single, an int32 fits the fraction of a double with its guard bits but not that
of a single, an exponent difference can exceed the word, the quotient loop of the remainder goes round more than once.
The operands are those around the ends of the ranges of exponents and fractions and around one; every rounding
mode meets ties, carries out of the significand, subnormals, overflow and NaNs of both kinds.  The words of a
double split its fraction as 3+6 bits (4+5 in `rint`, where the case that fails is two bits from the boundary), so that every function
meets exponents that put the point in the high word, at the boundary and in the low word, and `fmod` and `sqrt` subnormals to be shifted by
less than the high word's bits, by more, and by more than a word; one operand has a root whose low word is all ones.  Big numbers of six limbs hold the largest gap the code shifts by
(`BitsAssumption`), the mantissa crosses a limb.  Three addresses let `realloc` move a block while another thread takes the old
address; contexts and addresses are interchangeable (`Symmetry`).  The
sizes of `CoreState` surround the lengths at which the last pattern fits and the multiples
of the steps; the rounds of finding of the presets are more than the list is long.
Four texts on a command line are the first at which options and non-options alternate twice, with segments of equal and of different length.
The properties of `pool_plain` that are proved hold for all sizes anyway.

Stopping is explicit (`Ended`, `Done`, `Finished`, `Stopped`: the program has ended), so
TLC's deadlock check is on, except in `rint` and `accurate_bits`, where a behaviour is one call of a function and ends with it.

### Fairness

`WorkPool` (`FairSpec`, in `pool_chains`) and `ChainProtocol` assume weak fairness of each thread: a
thread that can always go on does.  A thread waiting for a mutex can go on only while it
is free, and weak fairness does not promise the mutex to anyone in particular;
as every other thread has finitely many items, that suffices.  This is less than what
any pthread scheduler gives.  `RunEnds` assumes that a kernel returns.
`WorkloadMain` is sequential: weak fairness of `Main` says that a call, once made, runs;
nothing says that another call is made.  No liveness is claimed of the other modules.

### What the violations show

1. *End barrier* (`mith_lib.c:183`): the loop waits for mutexes 0 to `mcl`-1 while the
   items' mutexes are 1 to `mcl`; the last item of the longest chain is not waited for.
2. *Left-over verdict* (`mith_lib.c:195`): `failed` is set only under `init_func!=NULL` and
   added for every item.
3. *Spurious wake-up* (`mith_lib.c:655`): condition waits test no predicate.
4. *Double free in zip* (`zip_darkmark.c:226`): with `-d=1` the context's `unz_buf` is the
   shared one.  The default does not unzip.
5. *rint's sticky bit* (`s_rint.c:68`): with two bits of the fraction in the high word the bit that stands
   for the lower ones is shifted out; compiled, `rint(262144.75)` is 262144.
6. *Subnormals among the accurate bits* (`th_al.c:903`): `load_dp` returns before it has set the exponent, so a
   result next to zero is credited with the bits of a number near one.

No shipped workload has chains, so 1 to 3 concern the library; 5 concerns targets that use fdlibm's `rint`.

### What else differs from what one would expect

Met while modelling; the models have it as the code does, the properties except it where they say so.

- `th_calloc` accounts `size` instead of `nmemb*size` (`th_lib.c:919`, `929`), so the printed maximum can be below what is allocated.
  `ThMalloc` knows a block by the size accounted.
- The chains and the statistics apart, a few inputs leave the code's domain, and the models' assumptions exclude them: a
  list of fewer than four nodes (`core_list_remove` follows NULL), text blocks of fewer than two bytes, seeds that give an item the header's `idx`.
- Accurate bits: the in-place shift of a big number reads limbs it has written when the gap is 32 bits or more; a
  reference far larger than the result is then credited with up to 19 bits.  `AccurateBitsTell` is about gaps below a limb.
- fdlibm: outside IEEE's version `k_standard.c` answers against the comments of the functions: `pow(0, negative)` is minus infinity
  though `e_pow.c:39-40` say plus unless a negative zero meets an odd power, `y0`, `y1`, `yn`, `log` and `log10` of a negative are minus infinity though
  `k_standard.c:213`, `247`, `281`, `e_log.c:50` and `e_log10.c:35` say NaN, `acos` and `asin` beyond one are zero though
  `e_acos.c:33` and `e_asin.c:40` say NaN.  `InfinitiesAgree` has them as they are.
- fdlibm: `ceil` rounds up, and its comment says "toward -inf" (`s_ceil.c:16`); `nextafter` beyond the largest double is `x+x`, which some rounding
  modes leave at the largest; rounding down, a zero that `remainder` gets by a subtraction has the sign opposite to x.  `WordsTell` has
  them as they are.
- fdlibm: `cosh` of an infinity raises ERANGE; `scalb` by a fraction is NaN without an error; `remainder(NaN,0)` sets EDOM; `logb` of a subnormal is the
  format's smallest exponent and the fraction of `modf(NaN)` a zero.
- getopt: after an ambiguous `-W` the element behind it is passed over, at the end of the command line `th_optind` passes `argc`
  (the model stops there, and `OptionsArePermuted` claims nothing after an ambiguous `-W`); from the second call on the prefix `+` or `-` of
  `optstring` counts as an option letter.  Nothing in the repository calls it.
- `mith_wl_reset`, said to "Reset all workload structures" (`mith_workload.c:132-133`), does not clear `failed`: a workload run
  again, as Android's phase 4 may, reports the failures of the runs before with its own.  `VerdictIsOfRun` therefore says of the first run that its
  verdict is exact, and of later ones only that it is never better than the run.
- A chain run again: `mith_wl_reset` releases the two outer arrays and allocates all anew (`mith_workload.c:186-193`); the arrays they
  pointed to are lost, once for each run but the last, although "final destruction of sync support is done only at workload destroy" (`:135-137`).
  `NothingLeaks` lets exactly those be lost.
- `th_realloc(NULL)` would find the dummy header of the list, whose address is the null pointer, and rename it (`th_lib.c:967-979`). Its callers, all in
  `ezxml.c`, have a block to resize, and so has `ThMalloc`.
- `mith_wl_add` tests its bound one late (`mith_workload.c:90`); every `main` adds exactly `max_idx` items.


## 4. Proofs

A theorem names in its comment the code it is about.  Those that state a property of a run hold for
every value of the constants; the run shows the same on a small instance.

| Module | Theorem | Says, for every behaviour | Assuming |
|---|---|---|---|
| `WorkPool_proofs` | `PoolInvariant` | `IInv` holds | `PoolAssumption`: the types of the constants |
| | `TypeCorrect`, `NothingLost`, `InstanceIsOwn`, `ItemsInStep` | `TypeOK`, `Conservation`, `NoIterationTwice`, `LockStep` | the same |
| | `Implements` | `WorkPool` implements `RunPromise` | the same |
| | `FailureCount` | `FailuresAreOwn` | every item has an `init_func` |
| | `ChainsTogether` | `ChainRunsTogether` | `ChainsInOrder`: chains complete, in the order of their numbers |
| `ChainProtocol_proofs` | `LinksInvariant`, `TypeCorrect` | `IInv`, `TypeOK` | `ProtocolAssumption`: two items or more; signalled waits only |
| | `BuffersInOrder`, `SignalAcknowledged`, `SignalRead` | `InOrder`, `AckOnReady`, `SignalIsSet` | the same |
| | `BufferUnshared` | the receiver does not read a buffer while it is set | the same |
| `KernelLife_proofs` | `LifeInvariant`, `TypeCorrect` | `IInv`, `TypeOK` | each kernel is `Disciplined` |
| | `UsesAreLive`, `FreesOwn`, `ContextsApart`, `AllReleased` | `NoDanglingUse`, `FreesItsOwn`, `NoInterference`, `NothingLeaks` | the same |
| `WorkloadMain_proofs` | `MainInvariant`, `TypeCorrect` | `IInv`, `TypeOK` | `MainAssumption`: programs and flags fit the word |
| | `SlotsFilled`, `AllEngaged`, `ReportTrue`, `ParamsThere`, `AllReleased`, `VerdictTold` | `PoolFindsItems`, `ContextsEngaged`, `ReportIsTrue`, `CleanupFindsParams`, `NothingLeaks`, `VerdictIsOfRun` | the same |
| `ThMalloc_proofs` | `HeapInvariant` | `IInv` | `HeapAssumption`: finitely many contexts |
| | `StatisticsLocked`, `ListMatchesHeap`, `TotalsAgree` | `AccountsLocked`, `ListIsHeap`, `TotalIsSum` | the same |
| | `TotalAsked` | `TotalIsAsked` | and finitely many addresses |
| `Core_proofs` | `MachinesAgree`, `StatesNameFormats` | `SameMachine`, `StateNamesFormat` | `StateAssumption`, `XorAssumption` |
| | `ScansStop`, `TypeCorrect` | `ScansInside`, `TypeOK` | the same |
| | `UndoRestores` | equal seeds restore the block unless a byte became a comma | the same |
| | `SeedsRestore` | `CorruptionUndone` | `SparesCommas`: the seeds make no commas |
| | `MergesortSorts` | the merge sort of any list, by any key, ends and leaves the same nodes in order | nodes have keys that are integers |
| | `ListIsRestored` | `ListRestored` | `ListAssumption`, `WordAssumption`; `IdxTellsItems`: an item's idx is above the header's, equal idx only of equal items |
| `Library_proofs` | `CallsTold`, `ErrnoTold`, `InfinitiesTold` | `ErrnoTells`, `InfinitiesAgree` and both | `MathAssumption`: arguments are numbers |
| | `ExchangeRotates` | `exchange` leaves two segments in the other order, each as it was | |
| | `OptionsArePermuted` | `GetoptPermutes` | `OptionsAssumption`: texts are sequences |

"Every behaviour" is of any number of contexts, items, iterations, buffers, addresses, calls; of any
programs, flags, word; of any block size, seed and step; of any length of list, values of the benchmark's
items; of any command line, letters and long options.

*The inductive invariant of the pool.*  `Conservation` alone is not inductive:
`Record` adds one to a value read earlier, which is right only if nobody wrote between
(`SeenInv`), which needs that readers and writers are alone (`MutexInv`) and know
their item (`HoldInv`).  `NoIterationTwice` needs that an iteration number in a thread's hands is below
`assigned` (`HoldInv`) and that the next number is taken under the mutex.  `LockStep` does
not follow from the counters, as the search starts at `next_idx`: `RoundInv` says that the items before `next_idx` are exactly
one ahead, also while an item is chosen and not yet counted.  That the run reports only complete
counters needs `ExitInv` (who leaves has found nothing to assign, and that stays so) and `MainInv`
(the main thread reports after all have exited).  `IInv` is the conjunction; for each part a
lemma goes through the actions.  The refinement maps `Assign` to `Start`,
`Record` to `Complete` and `ReportResults` to `Report`; every other action is invisible.
`FailureCount` adds the verdict that a thread holds between `Bench` and `Record`; it needs that no item is
without `init_func`, and finding 2 shows that it must.

*Chains.*  `ChainsTogether` adds `ChainInv`: every item at work holds its own mutex (`OwnLockInv`), and from
the choice of the first item to the assignment of the last mutex 0 of the instance is taken (`GateInv`), so nobody passes it before
(`StartedInv`).  It uses `LockStep`: when the last item of an instance is assigned, all others have been.  Hence
its condition: `load[]` must have a chain's items in the order of their numbers, all of them.
The loop's end is not part of it (finding 1).

*Connections.*  The invariant relates the two sides of each link.  `MutexInv`: each side holds its mutex from its
first lock on, except in its wait.  `SignalInv` says what the signal holds at each stage of the sender,
`HandshakeInv` that sender and receiver are in corresponding stages: a request is pending exactly while the receiver waits for DATA and
has not been woken.  `BufferInv` counts: the link's buffer is the last one set, and the receiver has it or fetches it next.
These make up for the missing predicates of the waits only as long as a wait returns when signalled: `Spec`, not
`SpuriousSpec` (finding 3).

*Kernel memory.*  The proof is in two halves.  `Disciplined(k)` is a property of the text of
a kernel's functions, one function at a time: with what the function holds at its entry and has
allocated and released so far, each operation releases only what it holds or a pointer nobody has set, writes only what
it holds, and reads that or what belongs to `params` and is still as copied; the last functions leave nothing.  There are no
contexts in it and no interleaving, so TLC settles it by evaluation: `KernelsDisciplined` has all nine kernels
disciplined and zip with `-d=1` not (finding 4).  The theorems conclude from it, for any number of
contexts and iterations in any interleaving, that no context hurts another.  The invariant says that the allocated blocks are those somebody holds and that
their pointers are the holders' (`HoldInv`), and that a context's other pointers are those of `params`
(`CopyInv`), which does not change while contexts run (`PhaseInv`).

*Workload program.*  `LoadInv` follows `load[]` and both meanings of `next_idx` through the phases, `LiveInv` gives
the allocated blocks at every step, `IterationInv` the relation of contexts, iterations and
what the loop executed, in the arithmetic of the word; `CallInv` says which phases
an Android call may ask for when.  `FailureInv` ties `failed` to what went wrong in the runs of the workload.

*Statistics.*  A block is listed after the C library has made it, and unlisted before (`free`) or after
(`realloc`) the library has released it, so list and heap differ while calls are under way, and an address can be listed twice.
`ListInv` counts: an address is listed once for each `realloc` that has left it and not yet told
the list, and once more if a block is there that no call is about to list or to release.  As `dsearch` takes any entry of the address, this is
enough for every release to find one, for `ListMatchesHeap` when no call is under way, and for its other half: an address without a
block is listed only for such a `realloc`, so `free` gives an address back after its entry has gone.  `TotalsAgree` follows the sum,
defined by recursion, through insertion, replacement and removal (`SumPrepend`, `SumReplace`, `SumRemove`).
`TotalAsked` adds that an entry has the size of the block at its address unless a `realloc` that has left it will replace it, and that
only one has, as long as no listed address was used again (`ISizes`); then a list with each block once sums to the heap (`ListSum`), in whatever
order `MapThenSumSet` takes the addresses (`SumTakesOut`).
That the statistics are initialised by one thread alone rests on `PhaseInv`: main keeps a block while contexts run.

*State machine of core.*  `MachinesAgree` reads the table against the switch state by state and class by class
(`SwitchIsTable`); the invariant adds that no token goes on from the invalid state, where the two would differ.
`StatesNameFormats` adds what the symbols of the token spell in each state (`ISpelling`).  `ScansStop` needs what `core_init_state` writes, of any length: its last two bytes are
zero (`TwoZeros`) and the corruption hits only one of them, since the step is more than one (`HitsOne`), so a zero that ends the scan is
always ahead (`IZeroAhead`).  `UndoRestores` follows the block through corruption and undo (`IBlock`).  Its
condition is real: the undo decides by the corrupted byte, so a seed whose low byte turns a character
into a comma (0x19 turns `5` into one) does not restore the block, although the comment at `core_state.c:102`
asks only that the seeds are equal.  `SeedsRestore` names the seeds for which no byte that `core_init_state` writes
can become one; `PresetSeeds` has TLC evaluate this for the seeds of the presets.

*List of core.*  `MergesortSorts` follows the code's passes: a pass merges neighbouring runs of `insize` into runs of twice that,
each sorted, of the same nodes, and a pass that makes one merge has sorted the list.  That there
is such a pass follows from the doubling of `insize` (`InsizeGrows`).  `ListInv`: within a call the list has every
node once and each node the data made for it, up to the low byte, where the values are cached; after the removal of an item
undo can put back what is missing, with the data of the two nodes exchanged (`Undoes`); between calls the
data is that made, the cache cleared by the sort by idx, and the list in order of idx.  Two sorted lists of the same nodes agree in their idx
(`SameKeys`), and items of equal idx are equal: hence the condition.  The header, the least of them, stays first, so
`res->list` is the whole list.

*getopt.*  `ExchangeRotates`: a turn of the loop leaves a smaller rotation to be done (`LowTurn`, `HighTurn`), and after as many turns as there are places
none is left.  `OptionsInv` is what the scan keeps: the non-options passed over lie together between `first_nonopt` and `last_nonopt`, in their
order, the options and their arguments around them in theirs, and from `th_optind` on nothing has moved (`Scan`); the letters left
of an element are an end of it (`Remains`), so the next call is still within this element.  `AdvancedIs` takes an
exchange and the skipping through it, `Passes` says which elements an option may pass: itself, and what it returns as its
argument or names after a `-W`.  An ambiguous `-W` passes an element nobody is told of, so from there on nothing is claimed (`Clear`).

*fdlibm.*  One lemma for each function of `math.h`; each compares, for all arguments and four standards, the special cases, the
wrapper and `__kernel_standard`'s table with the property.  `InfinitiesAgree` fixes the result of a finite call in each
standard but SVID's, the three exceptions of section 3 named function by function.

*Recursion.*  No result about the program, but what the others rest on: the library's theorems about recursive functions take an operator as
a parameter, which these provers cannot instantiate.  `NaturalRecursion` has induction about a set of naturals, from the
least element of a set, and recursion with the step as a function: first order, so that they can be cited.

Only model-checked:

- liveness (`RunEnds`, `ChainCompletes`, `CallsReturn`): fairness and ENABLED are out of the prover's reach;
- what the functions of `SoftFloat`, `FdlibmWords` and `AccurateBits` compute (`RoundsCorrectly`, `FlagsTell`, `ComparesAsNumbers`,
  `WordsTell`, `AccurateBitsTell`): all of it is about powers of two with the format as exponent, and the prover has no facts
  about `^`, nor about the `RECURSIVE` operators of `FloatReference`;
- what the violations show, being counterexamples.


## 5. What is not modelled

- What the kernels compute: floating-point work (nnet, linpack, loops, fft), matrices, hashing, compression, JPEG encoding.
- Vendored code of the kernels: zlib, ezxml, the JPEG library, MD5.
- fdlibm's polynomial approximations and argument reduction: their correctness is a matter of error analysis, not of states.
- softfloat's 80 and 128-bit formats, which no build of the suite compiles.
- The helpers of `th_lib.c` that parse flags, datasets and values, CRC, random numbers: pure functions on strings and bits; what
  they return is an input of `WorkloadMain` and `KernelLife`.
- `chain_ready_in`, `chain_signal_in_ready`, `chain_lock_out`, which the documented protocol does not call;
  `bignum_shl_with_carry`, `bignum_shr_with_carry`, `bignum_cmp`, which nothing calls.
- The mutexes and the data of connections, which nobody destroys ("TODO: destroy all connections", `mith_workload.c:57`); cjpeg's
  image from the standard input, where `fileName` is not set (`filedata.c`).
- Failure of `malloc`; a thread that cannot be created; a run with no context (`-c 0`); the race of contexts on `acc_summary`, which feeds a
  debugging summary only.  The hazards without a property say why.
- Timing, affinity, file I/O, printing; build files, scripts and data.
- The counters and CRC of the core benchmarks: the two builds of the state machine count transitions differently
  (at commas and on the way to the invalid state), so their CRCs are not comparable.


## 6. Plan

All modules of the first plan are there but for the pure helpers above.  Every safety property of the
concurrent modules and of the core kernel is proved, as are those of fdlibm's special cases and of getopt.  What is left:

1. softfloat and the accurate bits for every format: lemmas about powers of two first, as the steps of the invariant
   `value * 2^shift` that rounding and normalisation keep.
2. The helpers of `th_lib.c` that parse flags and datasets, whose results `WorkloadMain` and `KernelLife` take as inputs.
3. The race of contexts on `acc_summary`, if the summary is ever used for more than debugging.
