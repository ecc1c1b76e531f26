---------------------------- MODULE WorkloadMain ----------------------------
(***************************************************************************)
(* main() of a generated workload and the workload structure it owns:      *)
(* mith_wl_init, one define_params and mith_wl_add per item, mith_main     *)
(* (mith_wl_reset, the pool, the report), cleanup, mith_wl_destroy.  The   *)
(* Android library has, in place of main, a function that is called with a *)
(* command line, keeps the workload from call to call and does the phases  *)
(* of main that -phase= tells.                                             *)
(*                                                                         *)
(* One thread; what varies is the program, the command line and the shape  *)
(* of the workload.  The pool itself is module WorkPool: here it runs as   *)
(* RunPromise says.  No main in the repository builds chains or calls      *)
(* mith_main twice: both are an external caller's here ("again").          *)
(***************************************************************************)
EXTENDS Naturals, FiniteSets

CONSTANTS
  Programs,        \* records like those below
  IterationFlags,  \* values of -i
  ContextFlags,    \* values of -c
  MaxCalls,        \* calls of the Android function, or of mith_main, in a
                   \* behaviour
  Word             \* 2^32: e_u32 arithmetic wraps

-----------------------------------------------------------------------------
(* The programs: what one main has and the other has not.                  *)

Main1(iterations) == [items |-> 1, iterations |-> iterations, calls |-> "main"]
Android(iterations) == [items |-> 1, iterations |-> iterations, calls |-> "jni"]

cjpeg_rose7_preset == [items |-> 7, iterations |-> 10, calls |-> "main"]
core == Main1(1)
linear_alg == Main1(50)
loops_all == Main1(50)
nnet_test == Main1(10)
parser_125k == Main1(1)
parser_500k == Main1(1)
radix2_big == Main1(1000)
sha_test == Main1(10)
zip_test == Main1(1)

linear_alg_jni == Android(50)
loops_all_jni == Android(50)
nnet_test_jni == Android(10)
radix2_big_jni == Android(1000)
sha_test_jni == Android(10)
zip_test_jni == Android(1)

Workloads == {cjpeg_rose7_preset, core, linear_alg, loops_all, nnet_test, parser_125k, parser_500k,
              radix2_big, sha_test, zip_test, linear_alg_jni, loops_all_jni, nnet_test_jni,
              radix2_big_jni, sha_test_jni, zip_test_jni}

\* Every Android function has one item.
ASSUME MainAssumption ==
  /\ Word \in Nat /\ Word > 1 /\ MaxCalls \in Nat /\ MaxCalls > 0
  /\ \A p \in Programs : /\ p.items \in 1..(Word - 1) /\ p.iterations \in 0..(Word - 1)
                         /\ p.calls \in {"main", "again"} \/ (p.calls = "jni" /\ p.items = 1)
  /\ IterationFlags \cup ContextFlags \subseteq 0..(Word - 1)

-----------------------------------------------------------------------------

VARIABLES
  program,
  chained,     \* all items form one chain (mcl = items)
  calls,       \* calls made: of the Android function, or else of mith_main
  phases,      \* do_phase: the bits of -phase=, all of them in main
  pc,          \* what main does next
  k,           \* the index of its loop
  load,        \* workload->load: index of the item in the slot, 0 for NULL
  next_idx,    \* workload->next_idx: first the place to add at, then the
               \* place where the pool starts to search
  iterations,  \* workload->iterations
  contexts,    \* num_contexts
  verify,      \* verify_output
  finished,    \* item->finished
  failed,      \* item->failed
  live,        \* allocated blocks
  mishap       \* an execution of the last run has failed: a history variable

vars == <<program, chained, calls, phases, pc, k, load, next_idx, iterations, contexts, verify,
          finished, failed, live, mishap>>

\* what stays as it is while a call runs
setting == <<program, chained, calls, phases>>

counts == <<finished, failed, mishap>>

items == program.items

Slots == 0..(items - 1)

\* A block is named after the pointer to it; the per-item and per-iteration
\* ones also have an index.
Block(name, index) == <<name, index>>
Each(name, indices) == {Block(name, i) : i \in indices}

\* the static workload of the Android function is not NULL
HasWorkload == Block("workload", 0) \in live

Steps == {"call", "init", "parse", "engage", "define", "connect", "loop", "run", "report",
          "clean", "destroy", "return", "exited"}

TypeOK ==
  /\ program \in Programs /\ chained \in BOOLEAN /\ verify \in BOOLEAN /\ mishap \in BOOLEAN
  /\ calls \in 0..MaxCalls /\ phases \subseteq {1, 2, 4, 8}
  /\ pc \in Steps
  /\ k \in 0..items
  /\ load \in [Slots -> 0..items]
  /\ next_idx \in 0..items
  /\ iterations \in 0..(Word - 1) /\ contexts \in 0..(Word - 1)
  /\ finished \in [Slots -> 0..(Word - 1)] /\ failed \in [Slots -> 0..MaxCalls]

Nothing == [s \in Slots |-> 0]

Init ==
  /\ program \in Programs
  /\ chained \in {c \in BOOLEAN : c => items > 1}
  /\ calls = 0 /\ phases = {}
  /\ pc = "call" /\ k = 0
  /\ load = Nothing
  /\ next_idx = 0 /\ iterations = 1 /\ contexts = 1
  /\ verify = TRUE
  /\ finished = Nothing /\ failed = Nothing
  /\ live = {} /\ mishap = FALSE

-----------------------------------------------------------------------------

\* The step of the phase, or of the next one that was asked for.
From(phase, step) ==
  LET steps == <<[bit |-> 2, pc |-> "define"], [bit |-> 4, pc |-> "loop"], [bit |-> 8, pc |-> "clean"]>>
      due == {i \in 1..3 : steps[i].bit >= phase /\ steps[i].bit \in phases}
  IN IF phase \in phases THEN step
     ELSE IF due = {} THEN "return" ELSE steps[CHOOSE i \in due : \A j \in due : i <= j].pc

\* main is called once, by the system.
CallMain ==
  /\ pc = "call" /\ program.calls # "jni" /\ calls = 0
  /\ calls' = 1 /\ phases' = {1, 2, 4, 8}
  /\ contexts' = 1
  /\ pc' = "init"
  /\ UNCHANGED <<program, chained, k, load, next_idx, iterations, verify, counts, live>>

\* The phases that can be asked for: real_items and dataname are locals that
\* only phase 1 sets, phases 2 and 8 use them, and the flags are stored in
\* the workload.  So a call makes a workload and may run and release it, or
\* runs one again; it can be released only in the call that made it.
Usable == IF HasWorkload THEN {{4}} ELSE {{1, 2}, {1, 2, 4}, {1, 2, 4, 8}}

CallAndroid ==
  /\ pc = "call" /\ program.calls = "jni" /\ calls < MaxCalls
  /\ calls' = calls + 1
  /\ phases' \in Usable
  /\ contexts' = 1
  /\ live' = live \cup {Block("pcmd", 0)}
  /\ pc' = IF 1 \in phases' THEN "init" ELSE "parse"
  /\ UNCHANGED <<program, chained, k, load, next_idx, iterations, verify, counts>>

\* Mutant: the counters of the items are not zero at first.
WlInitKeepingCounts ==
  /\ pc = "init"
  /\ live' = live \cup {Block("workload", 0), Block("load", 0), Block("real_items", 0)}
  /\ iterations' = program.iterations
  /\ load' = Nothing /\ next_idx' = 0
  /\ pc' = "parse"
  /\ UNCHANGED <<setting, k, contexts, verify, counts>>

WlInit ==
  /\ pc = "init"
  /\ live' = live \cup {Block("workload", 0), Block("load", 0), Block("real_items", 0)}
  /\ iterations' = program.iterations
  /\ load' = Nothing /\ next_idx' = 0
  /\ finished' = Nothing /\ failed' = Nothing /\ mishap' = FALSE
  /\ pc' = "parse"
  /\ UNCHANGED <<setting, k, contexts, verify>>

\* Any of the flags may be there; without -v0 the output is verified.
ParseFlags ==
  /\ pc = "parse"
  /\ iterations' \in IterationFlags \cup {iterations}
  /\ contexts' \in ContextFlags \cup {contexts}
  /\ verify' \in BOOLEAN
  /\ pc' = "engage"
  /\ UNCHANGED <<setting, k, load, next_idx, counts, live>>

\* Mutant: one iteration more is taken for enough.
EngageContextsOnce ==
  /\ pc = "engage"
  /\ iterations' = IF contexts > iterations * items THEN (iterations + 1) % Word ELSE iterations
  /\ pc' = From(2, "define")
  /\ UNCHANGED <<setting, k, load, next_idx, contexts, verify, counts, live>>

\* Mutant: the loop raises nothing.
EngageContextsForever ==
  /\ pc = "engage"
  /\ IF contexts > (iterations * items) % Word THEN pc' = pc ELSE pc' = From(2, "define")
  /\ UNCHANGED <<setting, k, load, next_idx, iterations, contexts, verify, counts, live>>

\* while (num_contexts > (workload->iterations * N)) workload->iterations++
EngageContexts ==
  /\ pc = "engage"
  /\ IF contexts > (iterations * items) % Word
     THEN iterations' = (iterations + 1) % Word /\ pc' = pc
     ELSE pc' = From(2, "define") /\ UNCHANGED iterations
  /\ UNCHANGED <<setting, k, load, next_idx, contexts, verify, counts, live>>

WlAdd(item) ==
  IF next_idx > items
  THEN UNCHANGED <<load, next_idx>>
  ELSE load' = [load EXCEPT ![next_idx] = item] /\ next_idx' = next_idx + 1

\* Mutant: the params are not given to the item.
DefineItemWithoutParams ==
  /\ pc = "define" /\ k < items
  /\ live' = live \cup {Block("item", k), Block("tcdef", k)}
  /\ WlAdd(k + 1)
  /\ k' = k + 1
  /\ UNCHANGED <<setting, pc, iterations, contexts, verify, counts>>

\* define_params of item k and the helper that builds the item from it.
DefineItem ==
  /\ pc = "define" /\ k < items
  /\ live' = live \cup {Block("params", k), Block("item", k), Block("tcdef", k)}
  /\ WlAdd(k + 1)
  /\ k' = k + 1
  /\ UNCHANGED <<setting, pc, iterations, contexts, verify, counts>>

\* "Error when trying to define benchmark params"
DefineFails ==
  /\ pc = "define" /\ k < items
  /\ pc' = "exited"
  /\ UNCHANGED <<setting, k, load, next_idx, iterations, contexts, verify, counts, live>>

AllDefined ==
  /\ pc = "define" /\ k = items
  /\ k' = 0
  /\ pc' = IF chained THEN "connect" ELSE From(4, "loop")
  /\ UNCHANGED <<setting, load, next_idx, iterations, contexts, verify, counts, live>>

\* mith_init_chains, and mith_connect for each two neighbours: the first
\* call allocates the prototypes of all.
Connect ==
  /\ pc = "connect"
  /\ live' = live \cup {Block("chain_info", 0), Block("connection_protos", 0)}
  /\ pc' = "loop"
  /\ UNCHANGED <<setting, k, load, next_idx, iterations, contexts, verify, counts>>

-----------------------------------------------------------------------------

num_iterations == IF verify THEN 1 ELSE iterations

\* One array of each for the iterations, and n arrays in it for every run.
OuterArrays == {Block("chain_mutexes", 0), Block("connections", 0)}
InnerArrays(runs, n) ==
  {Block("chain_mutexes of all iterations", <<run, n>>) : run \in runs}
    \cup {Block("connections of all iterations", <<run, n>>) : run \in runs}

\* Mutant: mith_wl_reset leaves the index where mith_wl_add left it.
WlResetKeepingIndex ==
  /\ iterations' = num_iterations
  /\ finished' = Nothing /\ UNCHANGED failed
  /\ live' = IF chained THEN live \cup OuterArrays \cup InnerArrays({calls}, num_iterations) ELSE live
  /\ UNCHANGED next_idx

\* Mutant: mith_wl_reset forgets to store the number of iterations.
WlResetKeepingIterations ==
  /\ next_idx' = 0
  /\ finished' = Nothing /\ UNCHANGED failed
  /\ live' = IF chained THEN live \cup OuterArrays \cup InnerArrays({calls}, num_iterations) ELSE live
  /\ UNCHANGED iterations

\* Every run has arrays of its own.  Those of the run before are released
\* first, but not the arrays their elements point to.  item->failed stays.
WlReset ==
  /\ next_idx' = 0
  /\ iterations' = num_iterations
  /\ finished' = Nothing /\ UNCHANGED failed
  /\ live' = IF chained THEN live \cup OuterArrays \cup InnerArrays({calls}, num_iterations) ELSE live

\* "This workload contains a chain that cannot be instantiated with
\* currently defined number of contexts!": th_exit ends the program.
TooFewContexts == chained /\ contexts < items

\* mith_main_loop up to the thread pool.
MainLoop ==
  /\ pc = "loop"
  /\ \/ /\ contexts < 1   \* "No contexts to execute on!"
        /\ pc' = "report"
        /\ UNCHANGED <<iterations, next_idx, finished, failed, live>>
     \/ /\ contexts >= 1 /\ TooFewContexts
        /\ pc' = "exited"
        /\ next_idx' = 0 /\ iterations' = num_iterations
        /\ UNCHANGED <<finished, failed, live>>
     \/ /\ contexts >= 1 /\ ~TooFewContexts
        /\ pc' = "run"
        /\ WlReset
  /\ mishap' = FALSE
  /\ UNCHANGED <<setting, k, load, contexts, verify>>

\* The contexts come and go with the run, which ends with every item finished
\* as often as mith_wl_reset required (WorkPool!KeepsPromise).
RunPool ==
  /\ pc = "run"
  /\ finished' = [s \in Slots |-> num_iterations]
  /\ \/ UNCHANGED <<failed, mishap>>
     \/ \E s \in Slots : failed' = [failed EXCEPT ![s] = @ + 1] /\ mishap' = TRUE
  /\ next_idx' \in Slots
  /\ pc' = "report"
  /\ UNCHANGED <<setting, k, load, iterations, contexts, verify, live>>

\* mith_report_results
Report ==
  /\ pc = "report"
  /\ pc' = From(8, "clean")
  /\ UNCHANGED <<setting, k, load, next_idx, iterations, contexts, verify, counts, live>>

\* Another call of mith_main, with the same arguments.
RunAgain ==
  /\ pc = "report" /\ program.calls = "again" /\ calls < MaxCalls
  /\ calls' = calls + 1
  /\ pc' = "loop"
  /\ UNCHANGED <<program, chained, phases, k, load, next_idx, iterations, contexts, verify, counts,
                 live>>

\* th_free(real_items), then item->cleanup(item->params) for each item
CleanItem ==
  /\ pc = "clean" /\ k < items
  /\ live' = live \ {Block("real_items", 0), Block("params", load[k] - 1)}
  /\ k' = k + 1
  /\ UNCHANGED <<setting, pc, load, next_idx, iterations, contexts, verify, counts>>

AllClean ==
  /\ pc = "clean" /\ k = items
  /\ k' = 0
  /\ pc' = "destroy"
  /\ UNCHANGED <<setting, load, next_idx, iterations, contexts, verify, counts, live>>

\* Mutant: the prototypes stay.
WlDestroyReleasesNoProtos ==
  Each("item", {load[s] - 1 : s \in Slots}) \cup Each("tcdef", {load[s] - 1 : s \in Slots})
    \cup {Block(name, 0) : name \in {"workload", "load", "chain_info"}}
    \cup OuterArrays \cup InnerArrays({calls}, iterations)

\* The arrays of the last run, for workload->iterations iterations.
WlDestroyReleases ==
  Each("item", {load[s] - 1 : s \in Slots}) \cup Each("tcdef", {load[s] - 1 : s \in Slots})
    \cup {Block(name, 0) : name \in {"workload", "load", "chain_info", "connection_protos"}}
    \cup OuterArrays \cup InnerArrays({calls}, iterations)

WlDestroy ==
  /\ pc = "destroy"
  /\ live' = live \ WlDestroyReleases
  /\ load' = Nothing
  /\ pc' = "return"
  /\ UNCHANGED <<setting, k, next_idx, iterations, contexts, verify, counts>>

Return ==
  /\ pc = "return"
  /\ live' = live \ {Block("pcmd", 0)}
  /\ pc' = "call"
  /\ UNCHANGED <<setting, k, load, next_idx, iterations, contexts, verify, counts>>

Stopped ==
  /\ pc = "exited" \/ (pc = "call" /\ IF program.calls = "jni" THEN calls = MaxCalls ELSE calls > 0)
  /\ UNCHANGED vars

Main ==
  \/ WlInit \/ ParseFlags \/ EngageContexts
  \/ DefineItem \/ DefineFails \/ AllDefined \/ Connect
  \/ MainLoop \/ RunPool \/ Report \/ RunAgain
  \/ CleanItem \/ AllClean \/ WlDestroy \/ Return

Next == CallMain \/ CallAndroid \/ Main \/ Stopped

\* One thread: a call, once made, runs until it is done.
Spec == Init /\ [][Next]_vars /\ WF_vars(Main)

-----------------------------------------------------------------------------
(* Properties.                                                             *)

\* mith_wl_get_next and mith_report_results follow load[i] for every i below
\* max_idx without a NULL check, the pool from next_idx on, which
\* mith_wl_add left behind the last slot: by then every slot holds an item
\* of its own and the search starts inside load[].
PoolFindsItems ==
  pc \in {"run", "report", "clean"} =>
    /\ \A s \in Slots : load[s] # 0
    /\ Cardinality({load[s] : s \in Slots}) = items
    /\ pc = "run" => next_idx < items

\* "make sure we have enough iterations to engage all contexts at least once"
\* (zip-test.c:108), wrap-around of the product included.  A validation run
\* has one iteration whatever the number of contexts (mith_lib.c:252).
ContextsEngaged == pc = "run" /\ ~verify => contexts <= iterations * items

\* The report's "iterations" is what was executed: each item has finished
\* that often (unless there was no context to execute on).
ReportIsTrue ==
  pc = "report" /\ contexts > 0 => \A s \in Slots : finished[s] = iterations

\* main cleans up what define returned while the item that points at it, and
\* the load[] that points at the item, are still there.
CleanupFindsParams ==
  /\ pc \in {"run", "report"} => Each("params", Slots) \subseteq live
  /\ pc = "clean" /\ k < items =>
       {Block("workload", 0), Block("load", 0), Block("item", load[k] - 1),
        Block("params", load[k] - 1)} \subseteq live

\* What mith_wl_reset loses: the arrays of every iteration of the runs before
\* the last.
Lost == IF chained /\ contexts > 0 THEN InnerArrays(1..(calls - 1), iterations) ELSE {}

\* A call that keeps a workload keeps nothing else.  One that returns without
\* it has released all it allocated, save the arrays of earlier runs of a
\* chain, of which no pointer is left: "final destruction of sync support is
\* done only at workload destroy" (mith_workload.c:135) is true of one run.
NothingLeaks ==
  pc = "call" =>
    IF HasWorkload
    THEN live = {Block(name, 0) : name \in {"workload", "load", "real_items", "item", "tcdef", "params"}}
    ELSE live \subseteq Lost

FirstRun == 1 \in phases /\ (program.calls = "jni" \/ calls = 1)

\* The verdict of a report is never better than its run, and the first report
\* of a workload is of its run alone, whatever other workloads the program had
\* before.  (A later one has the failures of the runs before it as well, since
\* mith_wl_reset leaves item->failed.)
VerdictIsOfRun ==
  pc = "report" =>
    /\ mishap => \E s \in Slots : failed[s] > 0
    /\ FirstRun /\ ~mishap => \A s \in Slots : failed[s] = 0

\* Whatever the flags, a call ends: also the loop that raises the iterations.
CallsReturn == pc # "call" ~> pc \in {"call", "exited"}

=============================================================================
