------------------------- MODULE WorkloadMain_proofs -------------------------
(***************************************************************************)
(* Proofs about main and the workload structure of WorkloadMain, for any   *)
(* programs, command lines and word size, with and without chains.         *)
(***************************************************************************)
EXTENDS WorkloadMain, FiniteSetTheorems, TLAPS

-----------------------------------------------------------------------------
(* The inductive invariant.                                                *)

\* A call does all phases, or, of an Android function, makes a workload and
\* may run it, or runs the one that is there.
WholeCall == {1, 2, 4, 8}
Making    == {{1, 2}, {1, 2, 4}, WholeCall}
Rerun     == {4}

\* The steps at which every item is in the workload, and what each step is
\* for; only a call of its own makes a workload or releases it.
Filled == {"connect", "loop", "run", "report", "clean", "destroy"}

CallInv ==
  /\ pc # "call" => calls > 0
  /\ chained => items > 1 /\ program.calls # "jni"
  /\ pc \notin {"call", "exited"} =>
       phases \in IF program.calls = "jni" THEN Making \cup {Rerun} ELSE {WholeCall}
  /\ pc \in {"init", "parse", "engage", "define", "connect"} => program.calls = "jni" \/ calls = 1
  /\ pc \in {"init", "define", "connect"} => phases \in Making
  /\ pc \in {"loop", "run", "report"} => 4 \in phases
  /\ pc \in {"clean", "destroy"} => phases = WholeCall
  /\ pc = "connect" => chained
  /\ pc \notin {"define", "clean", "exited"} => k = 0

\* Slot s holds item s + 1, once it is there.
Full == [s \in Slots |-> s + 1]

LoadInv ==
  /\ pc = "define" => next_idx = k /\ load = [s \in Slots |-> IF s < k THEN s + 1 ELSE 0]
  /\ pc \in Filled => load = Full
  /\ pc \in {"parse", "engage"} =>
       IF phases = Rerun THEN load = Full ELSE next_idx = 0 /\ load = Nothing
  /\ pc = "return" /\ phases # WholeCall => load = Full
  /\ pc = "call" /\ HasWorkload => load = Full
  /\ pc = "run" => next_idx = 0

\* Enough iterations, and as many as were executed.
IterationInv ==
  /\ pc \in {"define", "connect"} \/ (pc \in {"loop", "run", "report"} /\ ~verify) =>
       contexts <= iterations * items
  /\ pc = "run" \/ (pc \in Filled \ {"connect", "loop"} /\ contexts > 0) =>
       iterations = num_iterations
  /\ pc = "loop" /\ program.calls # "jni" /\ calls > 1 /\ contexts > 0 =>
       iterations = num_iterations
  /\ pc = "run" => contexts > 0
  /\ pc = "report" /\ contexts > 0 => \A s \in Slots : finished[s] = iterations

\* A run counts at most one failure for an item, and a call runs once.
FailuresBounded ==
  /\ \A s \in Slots : failed[s] <= calls
  /\ pc \in {"init", "parse", "engage", "define", "connect", "loop", "run"} =>
       \A s \in Slots : failed[s] < calls

\* Those of the last run are there, and in the first run no others.
FailuresOfRuns ==
  /\ mishap => \E s \in Slots : failed[s] > 0
  /\ pc \in {"parse", "engage", "define", "connect", "loop", "run"} /\ FirstRun =>
       \A s \in Slots : failed[s] = 0
  /\ pc = "report" /\ FirstRun /\ ~mishap => \A s \in Slots : failed[s] = 0

FailureInv == FailuresBounded /\ FailuresOfRuns

\* The blocks that are allocated at each step.
Pcmd       == IF program.calls = "jni" THEN {Block("pcmd", 0)} ELSE {}
Own        == {Block("workload", 0), Block("load", 0)}
RealItems  == {Block("real_items", 0)}
Defined(n) == UNION {Each(name, 0..(n - 1)) : name \in {"params", "item", "tcdef"}}
Protos     == IF chained THEN {Block("chain_info", 0), Block("connection_protos", 0)} ELSE {}

\* after n runs
Arrays(n) ==
  IF chained /\ contexts > 0 /\ n > 0 THEN OuterArrays \cup InnerArrays(1..n, iterations) ELSE {}

Made == Own \cup RealItems \cup Defined(items)

Cleaned(n) == Each("params", 0..(n - 1)) \cup (IF n = 0 THEN {} ELSE RealItems)

LiveInv ==
  /\ pc = "call" => live = Lost \/ (program.calls = "jni" /\ live = Made)
  /\ pc = "init" => live = Pcmd
  /\ pc \in {"parse", "engage"} =>
       live = Pcmd \cup (IF phases = Rerun THEN Made ELSE Own \cup RealItems)
  /\ pc = "define"  => live = Pcmd \cup Own \cup RealItems \cup Defined(k)
  /\ pc = "connect" => live = Pcmd \cup Made
  /\ pc = "loop"    => live = Pcmd \cup Made \cup Protos \cup Arrays(calls - 1)
  /\ pc \in {"run", "report"} => live = Pcmd \cup Made \cup Protos \cup Arrays(calls)
  /\ pc = "clean"   => live = (Pcmd \cup Made \cup Protos \cup Arrays(calls)) \ Cleaned(k)
  /\ pc = "destroy" => live = (Pcmd \cup Made \cup Protos \cup Arrays(calls)) \ Cleaned(items)
  /\ pc = "return"  => live = Pcmd \cup (IF phases = WholeCall THEN Lost ELSE Made)

IInv == /\ TypeOK
        /\ CallInv
        /\ LoadInv
        /\ IterationInv
        /\ FailureInv
        /\ LiveInv

-----------------------------------------------------------------------------
(* Facts about programs, phases and the flags.                             *)

\* What a program fixes.
LEMMA ProgramType ==
  ASSUME TypeOK
  PROVE  /\ items \in Nat /\ items >= 1 /\ items < Word
         /\ program.iterations \in 0..(Word - 1)
         /\ program.calls \in {"main", "again"} \/ (program.calls = "jni" /\ items = 1)
         /\ Word \in Nat /\ Word > 1 /\ MaxCalls \in Nat /\ MaxCalls > 0
         /\ Slots = 0..(items - 1)
BY MainAssumption DEF TypeOK, items, Slots

\* Each phase that was asked for comes, and the others are skipped.
LEMMA FromPhases ==
  /\ phases \in Making => From(2, "define") = "define"
  /\ phases = Rerun    => From(2, "define") = "loop"
  /\ 4 \in phases      => From(4, "loop") = "loop"
  /\ phases = {1, 2}   => From(4, "loop") = "return"
  /\ 8 \in phases      => From(8, "clean") = "clean"
  /\ phases \in {{1, 2, 4}, Rerun} => From(8, "clean") = "return"
<1> DEFINE steps == <<[bit |-> 2, pc |-> "define"], [bit |-> 4, pc |-> "loop"],
                      [bit |-> 8, pc |-> "clean"]>>
           due(phase) == {i \in 1..3 : steps[i].bit >= phase /\ steps[i].bit \in phases}
<1>1. steps[1].bit = 2 /\ steps[2].bit = 4 /\ steps[3].bit = 8 /\ steps[2].pc = "loop"
  OBVIOUS
<1>2. ASSUME phases = Rerun
      PROVE  From(2, "define") = "loop"
  <2>1. due(2) = {2}
    BY <1>1, <1>2 DEF Rerun
  <2>2. (CHOOSE i \in due(2) : \A j \in due(2) : i <= j) = 2
    BY <2>1
  <2> QED  BY <1>1, <1>2, <2>1, <2>2 DEF From, Rerun
<1>3. ASSUME phases = {1, 2}
      PROVE  From(4, "loop") = "return"
  <2>1. due(4) = {}
    BY <1>1, <1>3
  <2> QED  BY <1>3, <2>1 DEF From
<1>4. ASSUME phases \in {{1, 2, 4}, Rerun}
      PROVE  From(8, "clean") = "return"
  <2>1. due(8) = {}
    BY <1>1, <1>4 DEF Rerun
  <2> QED  BY <1>4, <2>1 DEF From, Rerun
<1>5. /\ phases \in Making => From(2, "define") = "define"
      /\ 4 \in phases => From(4, "loop") = "loop"
      /\ 8 \in phases => From(8, "clean") = "clean"
  BY DEF From, Making, WholeCall
<1> QED  BY <1>2, <1>3, <1>4, <1>5

\* A call that makes a workload has phase 1, the others have not.
LEMMA PhaseSets ==
  /\ \A p \in Making : 1 \in p /\ p # Rerun
  /\ \A p \in Making : 8 \in p => p = WholeCall
  /\ WholeCall \in Making /\ WholeCall # Rerun /\ WholeCall # {1, 2}
  /\ 4 \notin {1, 2}
<1>1. 1 \notin Rerun /\ 8 \notin {1, 2} /\ 8 \notin {1, 2, 4} /\ 8 \in WholeCall /\ 1 \in WholeCall
  BY DEF Rerun, WholeCall
<1>2. \A p \in Making : 1 \in p
  BY DEF Making, WholeCall
<1>3. WholeCall \in Making /\ 4 \notin {1, 2}
  BY DEF Making
<1>4. \A p \in Making : 8 \in p => p = WholeCall
  BY <1>1 DEF Making
<1> QED  BY <1>1, <1>2, <1>3, <1>4

\* From leads to one of five steps.
LEMMA FromSteps ==
  ASSUME phases \in Making \cup {Rerun}
  PROVE  /\ From(2, "define") \in {"define", "loop"}
         /\ From(4, "loop") \in {"loop", "return"}
         /\ From(8, "clean") \in {"clean", "return"} \/ phases = {1, 2}
BY FromPhases DEF Making, WholeCall, Rerun

\* A remainder is in range and no greater than what is divided.
LEMMA Remainder ==
  ASSUME NEW m \in Nat, m > 0, NEW x \in Nat
  PROVE  x % m \in 0..(m - 1) /\ x % m <= x
OBVIOUS

\* Nor is a product of naturals anything else.
LEMMA Product ==
  ASSUME NEW a \in Nat, NEW b \in Nat
  PROVE  a * b \in Nat
OBVIOUS

-----------------------------------------------------------------------------
(* Each part of the invariant is preserved by every step.                  *)

Step == CallMain \/ CallAndroid \/ Main

\* The program and the shape of its workload stay.
LEMMA Fixed ==
  ASSUME Step
  PROVE  /\ program' = program /\ chained' = chained
         /\ items' = items /\ Slots' = Slots /\ Full' = Full /\ Nothing' = Nothing
<1>1. program' = program /\ chained' = chained
  BY DEF Step, Main, CallMain, CallAndroid, WlInit, ParseFlags, EngageContexts, DefineItem,
         DefineFails, AllDefined, Connect, MainLoop, RunPool, Report, CleanItem, AllClean,
         WlDestroy, Return, RunAgain, setting
<1> QED  BY <1>1 DEF items, Slots, Full, Nothing

LEMMA TypeStep ==
  ASSUME IInv, Step
  PROVE  TypeOK'
<1> USE DEF IInv, TypeOK, setting, counts, items, Slots, Nothing
<1>0. /\ items \in Nat /\ items >= 1 /\ program.iterations \in 0..(Word - 1)
      /\ Word \in Nat /\ Word > 1 /\ MaxCalls \in Nat /\ MaxCalls > 0
  BY ProgramType
<1>1. CASE CallMain
  BY <1>0, <1>1 DEF CallMain, Steps
<1>2. CASE CallAndroid
  BY <1>0, <1>2 DEF CallAndroid, Usable, Steps
<1>3. CASE WlInit
  <2>1. Nothing \in [Slots -> 0..items] /\ Nothing \in [Slots -> 0..(Word - 1)]
        /\ Nothing \in [Slots -> 0..MaxCalls]
    BY <1>0
  <2>2. /\ load' \in [Slots -> 0..items] /\ failed' \in [Slots -> 0..MaxCalls]
        /\ finished' \in [Slots -> 0..(Word - 1)]
    BY <1>3, <2>1 DEF WlInit
  <2>3. program' = program /\ next_idx' = 0 /\ iterations' \in 0..(Word - 1) /\ mishap' = FALSE
        /\ pc' = "parse"
        /\ UNCHANGED <<chained, calls, phases, k, contexts, verify>>
    BY <1>0, <1>3 DEF WlInit
  <2>4. /\ load' \in [Slots' -> 0..items']
        /\ finished' \in [Slots' -> 0..(Word - 1)] /\ failed' \in [Slots' -> 0..MaxCalls]
    BY <2>2, <2>3
  <2>5. k' \in 0..items' /\ next_idx' \in 0..items'
    BY <1>0, <2>3
  <2> QED  BY <2>3, <2>4, <2>5 DEF Steps
<1>4. CASE ParseFlags
  BY <1>4, MainAssumption DEF ParseFlags, Steps
<1>5. CASE EngageContexts
  <2>1. phases \in Making \cup {Rerun}
    BY <1>5, FromSteps DEF EngageContexts, CallInv, Making, WholeCall
  <2>2. pc' \in Steps
    BY <1>5, <2>1, FromSteps DEF EngageContexts, Steps
  <2>3. iterations' \in 0..(Word - 1)
    BY <1>0, <1>5, Remainder DEF EngageContexts
  <2> QED  BY <1>5, <2>2, <2>3 DEF EngageContexts
<1>6. CASE DefineItem
  <2>1. k < items /\ next_idx = k
    BY <1>6 DEF DefineItem, LoadInv
  <2>2. next_idx' = k + 1 /\ load' = [load EXCEPT ![k] = k + 1] /\ k' = k + 1
        /\ k \in Nat
    BY <1>0, <1>6, <2>1 DEF DefineItem, WlAdd
  <2>3. k + 1 \in 0..items /\ load' \in [Slots -> 0..items]
    BY <1>0, <2>1, <2>2
  <2> QED  BY <1>6, <2>2, <2>3 DEF DefineItem
<1>7. CASE DefineFails
  BY <1>7 DEF DefineFails, Steps
<1>8. CASE AllDefined
  <2>1. phases \in Making
    BY <1>8 DEF AllDefined, CallInv
  <2>2. pc' \in Steps
    BY <1>8, <2>1, FromSteps DEF AllDefined, Steps
  <2> QED  BY <1>0, <1>8, <2>2 DEF AllDefined
<1>9. CASE Connect
  BY <1>9 DEF Connect, Steps
<1>10. CASE MainLoop
  <2>1. pc' \in Steps /\ next_idx' \in 0..items /\ iterations' \in 0..(Word - 1)
    BY <1>0, <1>10 DEF MainLoop, WlReset, num_iterations, Steps
  <2>2. finished' \in [Slots -> 0..(Word - 1)] /\ failed' \in [Slots -> 0..MaxCalls]
    BY <1>0, <1>10 DEF MainLoop, WlReset
  <2>3. mishap' = FALSE /\ UNCHANGED <<program, chained, calls, phases, k, load, contexts, verify>>
    BY <1>10 DEF MainLoop
  <2> QED  BY <2>1, <2>2, <2>3
<1>11. CASE RunPool
  <2>1. num_iterations \in 0..(Word - 1)
    BY <1>0 DEF num_iterations
  <2>2. \A s \in Slots : failed[s] + 1 \in 0..MaxCalls
    <3>0. pc = "run" /\ FailuresBounded
      BY <1>11 DEF RunPool, FailureInv
    <3>1. calls \in 0..MaxCalls /\ \A s \in Slots : failed[s] \in Nat /\ failed[s] < calls
      <4>1. \A s \in Slots : failed[s] < calls
        BY <3>0, Zenon DEF FailuresBounded
      <4>2. calls \in 0..MaxCalls /\ \A s \in Slots : failed[s] \in 0..MaxCalls
        OBVIOUS
      <4>3. \A s \in Slots : failed[s] \in Nat
        BY <1>0, <4>2
      <4> QED  BY <4>1, <4>2, <4>3
    <3>2. ASSUME NEW s \in Slots  PROVE failed[s] + 1 \in 0..MaxCalls
      <4>1. failed[s] \in Nat /\ failed[s] < calls /\ calls \in 0..MaxCalls
        BY <3>1
      <4> QED  BY <1>0, <4>1
    <3> QED  BY <3>2
  <2>3. failed' \in [Slots -> 0..MaxCalls] /\ mishap' \in BOOLEAN
    BY <1>11, <2>2 DEF RunPool
  <2> QED  BY <1>0, <1>11, <2>1, <2>3 DEF RunPool, Steps
<1>12. CASE Report
  <2>1. phases \in (Making \cup {Rerun}) \ {{1, 2}}
    BY <1>12 DEF Report, CallInv, Making, WholeCall
  <2>2. pc' \in Steps
    BY <1>12, <2>1, FromSteps DEF Report, Steps
  <2> QED  BY <1>12, <2>2 DEF Report
<1>13. CASE CleanItem
  BY <1>0, <1>13 DEF CleanItem
<1>14. CASE AllClean
  BY <1>0, <1>14 DEF AllClean, Steps
<1>15. CASE WlDestroy
  BY <1>0, <1>15 DEF WlDestroy, Steps
<1>16. CASE Return
  BY <1>16 DEF Return, Steps
<1>17. CASE RunAgain
  BY <1>0, <1>17 DEF RunAgain, Steps
<1> QED
  BY <1>1, <1>2, <1>3, <1>4, <1>5, <1>6, <1>7, <1>8, <1>9, <1>10, <1>11, <1>12, <1>13, <1>14,
     <1>15, <1>16, <1>17 DEF Step, Main

LEMMA CallStep ==
  ASSUME IInv, Step
  PROVE  CallInv'
<1> USE DEF IInv, CallInv, Making, Rerun, WholeCall, setting, items
<1>1. CASE CallMain
  BY <1>1, ProgramType DEF CallMain, TypeOK
<1>2. CASE CallAndroid
  <2>1. program.calls = "jni" /\ ~chained /\ calls' > 0 /\ k' = 0 /\ phases' \in Making \cup {Rerun}
        /\ pc' = (IF phases' \in Making THEN "init" ELSE "parse")
    BY <1>2, ProgramType DEF CallAndroid, Usable, TypeOK
  <2> QED  BY <1>2, <2>1 DEF CallAndroid, setting
<1>3. CASE WlInit
  BY <1>3 DEF WlInit
<1>4. CASE ParseFlags
  BY <1>4 DEF ParseFlags
<1>5. CASE EngageContexts
  BY <1>5, FromPhases DEF EngageContexts
<1>6. CASE DefineItem
  BY <1>6 DEF DefineItem
<1>7. CASE DefineFails
  BY <1>7 DEF DefineFails
<1>8. CASE AllDefined
  BY <1>8, FromPhases DEF AllDefined
<1>9. CASE Connect
  BY <1>9 DEF Connect
<1>10. CASE MainLoop
  BY <1>10 DEF MainLoop
<1>11. CASE RunPool
  BY <1>11 DEF RunPool
<1>12. CASE Report
  BY <1>12, FromPhases DEF Report
<1>13. CASE CleanItem
  BY <1>13 DEF CleanItem
<1>14. CASE AllClean
  BY <1>14 DEF AllClean
<1>15. CASE WlDestroy
  BY <1>15 DEF WlDestroy
<1>16. CASE Return
  BY <1>16 DEF Return
<1>17. CASE RunAgain
  BY <1>17 DEF RunAgain, TypeOK
<1> QED
  BY <1>1, <1>2, <1>3, <1>4, <1>5, <1>6, <1>7, <1>8, <1>9, <1>10, <1>11, <1>12, <1>13,
     <1>14, <1>15, <1>16, <1>17 DEF Step, Main

\* An array belongs to one run, and is none of the other blocks.
LEMMA ArraysApart ==
  ASSUME NEW n \in Nat, NEW m
  PROVE  /\ InnerArrays(1..(n - 1), m) \cap InnerArrays({n}, m) = {}
         /\ InnerArrays(1..(n - 1), m) \cap OuterArrays = {}
         /\ \A name \in {"item", "tcdef", "params"} : InnerArrays(1..(n - 1), m) \cap Each(name, Slots) = {}
         /\ \A name \in {"workload", "load", "real_items", "chain_info", "connection_protos", "pcmd"} :
              Block(name, 0) \notin InnerArrays(1..(n - 1), m) /\ Block(name, 0) \notin InnerArrays({n}, m)
<1>1. n \notin 1..(n - 1)
  OBVIOUS
<1> DEFINE M(r) == Block("chain_mutexes of all iterations", <<r, m>>)
           C(r) == Block("connections of all iterations", <<r, m>>)
<1>2. \A runs : InnerArrays(runs, m) = {M(r) : r \in runs} \cup {C(r) : r \in runs}
  BY DEF InnerArrays
<1>3. \A r, q : M(r) # C(q) /\ (M(r) = M(q) => r = q) /\ (C(r) = C(q) => r = q)
  BY DEF Block
<1>4. /\ \A r : M(r) \notin OuterArrays /\ C(r) \notin OuterArrays
      /\ \A r : \A name \in {"item", "tcdef", "params"} : M(r) \notin Each(name, Slots) /\ C(r) \notin Each(name, Slots)
      /\ \A r : \A name \in {"workload", "load", "real_items", "chain_info", "connection_protos", "pcmd"} :
           M(r) # Block(name, 0) /\ C(r) # Block(name, 0)
  BY DEF OuterArrays, Each, Block
<1> HIDE DEF M, C
<1> QED  BY <1>1, <1>2, <1>3, <1>4

\* Nor is a workload among what is lost.
LEMMA WorkloadNotLost ==
  ASSUME TypeOK
  PROVE  Block("workload", 0) \notin Lost
<1>1. calls \in Nat
  BY ProgramType DEF TypeOK
<1> QED  BY <1>1, ArraysApart DEF Lost

LEMMA LoadStep ==
  ASSUME IInv, Step
  PROVE  LoadInv'
<1>0. /\ items \in Nat /\ items >= 1 /\ Slots = 0..(items - 1)
      /\ items' = items /\ Slots' = Slots /\ Full' = Full /\ Nothing' = Nothing
  BY ProgramType, Fixed DEF IInv
<1> USE <1>0 DEF IInv, LoadInv, Filled, setting
<1>1. CASE CallMain
  BY <1>1 DEF CallMain, Making, Rerun, WholeCall
<1>2. CASE CallAndroid
  <2>1. /\ pc' = "init" \/ (pc' = "parse" /\ HasWorkload /\ phases' = Rerun)
        /\ load' = load
    BY <1>2 DEF CallAndroid, Usable, Rerun
  <2> QED  BY <1>2, <2>1 DEF CallAndroid
<1>3. CASE WlInit
  <2>1. phases \in Making
    BY <1>3 DEF WlInit, CallInv
  <2>2. phases' # Rerun /\ pc' = "parse" /\ next_idx' = 0 /\ load' = Nothing
    BY <1>3, <2>1, PhaseSets DEF WlInit
  <2> QED  BY <2>2
<1>4. CASE ParseFlags
  BY <1>4 DEF ParseFlags
<1>5. CASE EngageContexts
  <2>1. phases \in Making \cup {Rerun} /\ (phases \in Making => phases # Rerun)
    BY <1>5, PhaseSets DEF EngageContexts, CallInv
  <2>2. pc' \in {"engage"} \cup IF phases = Rerun THEN {"loop"} ELSE {"define"}
    BY <1>5, <2>1, FromPhases DEF EngageContexts
  <2>3. k = 0 /\ UNCHANGED <<phases, load, next_idx, k, live>>
    BY <1>5 DEF EngageContexts, CallInv
  <2>4. Nothing = [s \in Slots |-> IF s < 0 THEN s + 1 ELSE 0]
    BY DEF Nothing
  <2> QED  BY <1>5, <2>1, <2>2, <2>3, <2>4 DEF EngageContexts
<1>6. CASE DefineItem
  <2>1. /\ k \in Nat /\ k < items /\ next_idx = k
        /\ load = [s \in Slots |-> IF s < k THEN s + 1 ELSE 0]
    BY <1>6 DEF DefineItem, TypeOK
  <2>2. /\ k' = k + 1 /\ next_idx' = k + 1 /\ pc' = "define"
        /\ load' = [load EXCEPT ![k] = k + 1]
    BY <1>6, <2>1 DEF DefineItem, WlAdd
  <2>3. load' = [s \in Slots |-> IF s < k + 1 THEN s + 1 ELSE 0]
    <3>1. ASSUME NEW s \in Slots
          PROVE  (IF s = k THEN k + 1 ELSE IF s < k THEN s + 1 ELSE 0) =
                   (IF s < k + 1 THEN s + 1 ELSE 0)
      BY <2>1, <3>1
    <3>2. k \in Slots
      BY <2>1
    <3>3. load' = [s \in Slots |-> IF s = k THEN k + 1 ELSE IF s < k THEN s + 1 ELSE 0]
      BY <2>1, <2>2, <3>2
    <3> QED  BY <3>1, <3>3
  <2> QED  BY <2>2, <2>3
<1>7. CASE DefineFails
  BY <1>7 DEF DefineFails
<1>8. CASE AllDefined
  <2>1. load = Full
    BY <1>8 DEF AllDefined, Full
  <2>2. pc' \in {"connect", "loop", "return"}
    BY <1>8, FromSteps DEF AllDefined, CallInv
  <2> QED  BY <1>8, <2>1, <2>2 DEF AllDefined
<1>9. CASE Connect
  BY <1>9 DEF Connect
<1>10. CASE MainLoop
  BY <1>10 DEF MainLoop, WlReset, CallInv, Rerun
<1>11. CASE RunPool
  BY <1>11 DEF RunPool
<1>12. CASE Report
  <2>1. pc' \in {"clean", "return"}
    BY <1>12, FromSteps, PhaseSets DEF Report, CallInv
  <2> QED  BY <1>12, <2>1 DEF Report
<1>13. CASE CleanItem
  BY <1>13 DEF CleanItem
<1>14. CASE AllClean
  BY <1>14 DEF AllClean
<1>15. CASE WlDestroy
  BY <1>15 DEF WlDestroy, CallInv
<1>16. CASE Return
  <2>1. phases = WholeCall => ~HasWorkload'
    BY <1>16, WorkloadNotLost DEF Return, LiveInv, Pcmd, HasWorkload, Block
  <2> QED  BY <1>16, <2>1 DEF Return
<1>17. CASE RunAgain
  BY <1>17 DEF RunAgain
<1> QED
  BY <1>1, <1>2, <1>3, <1>4, <1>5, <1>6, <1>7, <1>8, <1>9, <1>10, <1>11, <1>12, <1>13,
     <1>14, <1>15, <1>16, <1>17 DEF Step, Main

LEMMA IterationStep ==
  ASSUME IInv, Step
  PROVE  IterationInv'
<1>0. /\ items \in Nat /\ items >= 1 /\ Word \in Nat /\ Word > 1
      /\ items' = items /\ Slots' = Slots
  BY ProgramType, Fixed DEF IInv
<1> USE <1>0 DEF IInv, IterationInv, Filled, setting, counts, num_iterations
<1>1. CASE CallMain
  BY <1>1 DEF CallMain
<1>2. CASE CallAndroid
  BY <1>2 DEF CallAndroid, Usable
<1>3. CASE WlInit
  BY <1>3 DEF WlInit
<1>4. CASE ParseFlags
  BY <1>4 DEF ParseFlags
<1>5. CASE EngageContexts
  <2>1. pc' \in {"engage", "define", "loop"}
    BY <1>5, FromSteps DEF EngageContexts, CallInv, Making
  <2>2. pc' # "engage" => contexts <= iterations * items /\ iterations' = iterations
    <3>1. iterations \in Nat /\ contexts \in Nat
      BY DEF TypeOK
    <3>2. iterations * items \in Nat
      BY <3>1, Product
    <3>3. (iterations * items) % Word <= iterations * items /\ (iterations * items) % Word \in Nat
      BY <3>2, Remainder
    <3>4. pc' # "engage" => ~(contexts > (iterations * items) % Word) /\ iterations' = iterations
      BY <1>5 DEF EngageContexts
    <3> QED  BY <3>1, <3>2, <3>3, <3>4
  <2> QED  BY <1>5, <2>1, <2>2 DEF EngageContexts, CallInv
<1>6. CASE DefineItem
  BY <1>6 DEF DefineItem
<1>7. CASE DefineFails
  BY <1>7 DEF DefineFails
<1>8. CASE AllDefined
  <2>1. pc' \in {"connect", "loop", "return"}
    BY <1>8, FromSteps DEF AllDefined, CallInv
  <2> QED  BY <1>8, <2>1 DEF AllDefined, CallInv
<1>9. CASE Connect
  BY <1>9 DEF Connect, CallInv
<1>10. CASE MainLoop
  <2>1. contexts \in Nat /\ contexts' = contexts /\ verify' = verify
    BY <1>10 DEF MainLoop, TypeOK
  <2>2. CASE pc' = "report" /\ contexts < 1
    BY <1>10, <2>1, <2>2 DEF MainLoop, WlReset
  <2>3. CASE pc' = "exited"
    BY <2>3
  <2>4. CASE pc' = "run" /\ contexts >= 1 /\ iterations' = num_iterations
    BY <1>10, <2>1, <2>4 DEF MainLoop
  <2> QED  BY <1>10, <2>2, <2>3, <2>4 DEF MainLoop, WlReset
<1>11. CASE RunPool
  <2>1. finished' = [s \in Slots |-> iterations] /\ pc' = "report" /\ iterations = num_iterations
        /\ UNCHANGED <<iterations, verify, contexts>>
        /\ (~verify => contexts <= iterations * items)
    BY <1>11 DEF RunPool
  <2>2. \A s \in Slots : finished'[s] = iterations'
    BY <2>1
  <2>3. (~verify => contexts <= iterations * items)' /\ iterations' = num_iterations'
    BY <2>1
  <2> QED  BY <2>1, <2>2, <2>3
<1>12. CASE Report
  <2>1. pc' \in {"clean", "return"}
    BY <1>12, FromSteps, PhaseSets DEF Report, CallInv
  <2> QED  BY <1>12, <2>1 DEF Report
<1>13. CASE CleanItem
  BY <1>13 DEF CleanItem
<1>14. CASE AllClean
  BY <1>14 DEF AllClean
<1>15. CASE WlDestroy
  BY <1>15 DEF WlDestroy
<1>16. CASE Return
  BY <1>16 DEF Return
<1>17. CASE RunAgain
  BY <1>17 DEF RunAgain, TypeOK
<1> QED
  BY <1>1, <1>2, <1>3, <1>4, <1>5, <1>6, <1>7, <1>8, <1>9, <1>10, <1>11, <1>12, <1>13,
     <1>14, <1>15, <1>16, <1>17 DEF Step, Main

LEMMA FailureStep ==
  ASSUME IInv, Step
  PROVE  FailureInv'
<1>0. /\ calls \in Nat /\ failed \in [Slots -> Nat] /\ Slots' = Slots
      /\ \A s \in Slots : failed[s] \in Nat
  BY ProgramType, Fixed DEF IInv, TypeOK
<1> USE <1>0 DEF IInv, FailureInv, FailuresBounded, FailuresOfRuns, FirstRun, setting, counts
<1>1. CASE CallMain
  BY <1>1 DEF CallMain
<1>2. CASE CallAndroid
  BY <1>2 DEF CallAndroid
<1>3. CASE WlInit
  <2>1. /\ calls > 0 /\ calls' = calls /\ mishap' = FALSE
        /\ \A s \in Slots : failed'[s] = 0
    BY <1>3 DEF WlInit, CallInv, Nothing
  <2>2. \A s \in Slots : failed'[s] < calls' /\ failed'[s] <= calls' /\ ~(failed'[s] > 0)
    BY <2>1
  <2> QED  BY <2>1, <2>2
<1>4. CASE ParseFlags
  BY <1>4 DEF ParseFlags
<1>5. CASE EngageContexts
  <2>1. pc' \in {"engage", "define", "loop"}
    BY <1>5, FromSteps DEF EngageContexts, CallInv, Making
  <2> QED  BY <1>5, <2>1 DEF EngageContexts
<1>6. CASE DefineItem
  BY <1>6 DEF DefineItem
<1>7. CASE DefineFails
  BY <1>7 DEF DefineFails
<1>8. CASE AllDefined
  <2>1. pc' \in {"connect", "loop", "return"}
    BY <1>8, FromSteps DEF AllDefined, CallInv
  <2> QED  BY <1>8, <2>1 DEF AllDefined
<1>9. CASE Connect
  BY <1>9 DEF Connect
<1>10. CASE MainLoop
  BY <1>10 DEF MainLoop, WlReset
<1>11. CASE RunPool
  <2>1. \A s \in Slots : failed[s] < calls
    BY <1>11 DEF RunPool
  <2>2. CASE UNCHANGED <<failed, mishap>>
    BY <1>11, <2>2 DEF RunPool
  <2>3. ASSUME NEW s \in Slots, failed' = [failed EXCEPT ![s] = @ + 1], mishap' = TRUE
        PROVE  FailureInv'
    <3>1. failed'[s] > 0 /\ failed'[s] <= calls
      BY <2>1, <2>3
    <3>2. \A r \in Slots : r # s => failed'[r] = failed[r]
      BY <2>3
    <3> QED  BY <1>11, <2>1, <2>3, <3>1, <3>2 DEF RunPool
  <2> QED  BY <1>11, <2>2, <2>3 DEF RunPool
<1>12. CASE Report
  <2>1. pc' \in {"clean", "return"}
    BY <1>12, FromSteps, PhaseSets DEF Report, CallInv
  <2> QED  BY <1>12, <2>1 DEF Report
<1>13. CASE CleanItem
  BY <1>13 DEF CleanItem
<1>14. CASE AllClean
  BY <1>14 DEF AllClean
<1>15. CASE WlDestroy
  BY <1>15 DEF WlDestroy
<1>16. CASE Return
  BY <1>16 DEF Return
<1>17. CASE RunAgain
  BY <1>17 DEF RunAgain
<1> QED
  BY <1>1, <1>2, <1>3, <1>4, <1>5, <1>6, <1>7, <1>8, <1>9, <1>10, <1>11, <1>12, <1>13,
     <1>14, <1>15, <1>16, <1>17 DEF Step, Main

-----------------------------------------------------------------------------
(* The blocks.                                                             *)

\* One item more is defined, or its parameters released.
LEMMA DefinedNext ==
  ASSUME NEW n \in Nat
  PROVE  /\ Defined(0) = {}
         /\ Defined(n + 1) = Defined(n) \cup {Block("params", n), Block("item", n), Block("tcdef", n)}
         /\ Cleaned(0) = {}
         /\ Cleaned(n + 1) = Cleaned(n) \cup {Block("real_items", 0), Block("params", n)}
<1>1. 0..(0 - 1) = {} /\ 0..((n + 1) - 1) = 0..(n - 1) \cup {n}
  OBVIOUS
<1>2. ASSUME NEW name
      PROVE  /\ Each(name, 0..(0 - 1)) = {}
             /\ Each(name, 0..((n + 1) - 1)) = Each(name, 0..(n - 1)) \cup {Block(name, n)}
  BY <1>1 DEF Each
<1>3. \A m : Defined(m) = Each("params", 0..(m - 1)) \cup Each("item", 0..(m - 1))
                            \cup Each("tcdef", 0..(m - 1))
  BY DEF Defined
<1>4. Defined(0) = {} /\ Cleaned(0) = {}
  BY <1>2, <1>3 DEF Cleaned
<1>5. Defined(n + 1) = Defined(n) \cup {Block("params", n), Block("item", n), Block("tcdef", n)}
  BY <1>2, <1>3
<1>6. n + 1 # 0 /\ Cleaned(n + 1) = Each("params", 0..((n + 1) - 1)) \cup RealItems
  BY DEF Cleaned
<1>7. ASSUME n = 0
      PROVE  Each("params", 0..(n - 1)) = {}
  BY <1>2, <1>7
<1>8. Cleaned(n + 1) = Cleaned(n) \cup {Block("real_items", 0), Block("params", n)}
  BY <1>2, <1>6, <1>7 DEF Cleaned, RealItems
<1> QED  BY <1>4, <1>5, <1>8

\* The n-th run adds its arrays to those of the others.
LEMMA ArraysNext ==
  ASSUME NEW n \in Nat, n > 0, NEW m
  PROVE  /\ InnerArrays(1..n, m) = InnerArrays(1..(n - 1), m) \cup InnerArrays({n}, m)
         /\ n = 1 => InnerArrays(1..(n - 1), m) = {}
<1>1. 1..n = 1..(n - 1) \cup {n} /\ (n = 1 => 1..(n - 1) = {})
  OBVIOUS
<1> QED  BY <1>1 DEF InnerArrays

\* Of what cleanup has left, mith_wl_destroy releases everything but the
\* command line of an Android call and what mith_wl_reset has lost.
LEMMA DestroyAll ==
  ASSUME TypeOK, load = Full, calls > 0
  PROVE  ((Pcmd \cup Made \cup Protos \cup Arrays(calls)) \ Cleaned(items)) \ WlDestroyReleases = Pcmd \cup Lost
<1>0. items \in Nat /\ items >= 1 /\ Slots = 0..(items - 1) /\ calls \in Nat
  BY ProgramType DEF TypeOK
<1>1. {load[s] - 1 : s \in Slots} = Slots
  <2>1. \A s \in Slots : load[s] - 1 = s
    BY <1>0 DEF Full
  <2> QED  BY <2>1
<1>2. WlDestroyReleases =
        Each("item", Slots) \cup Each("tcdef", Slots)
          \cup {Block(name, 0) : name \in {"workload", "load", "chain_info", "connection_protos"}}
          \cup OuterArrays \cup InnerArrays({calls}, iterations)
  BY <1>1 DEF WlDestroyReleases
<1>3. Made = Own \cup RealItems \cup Each("params", Slots) \cup Each("item", Slots)
               \cup Each("tcdef", Slots)
  BY <1>0 DEF Made, Defined
<1>4. Cleaned(items) = Each("params", Slots) \cup RealItems
  BY <1>0 DEF Cleaned
<1>5. Own \subseteq WlDestroyReleases /\ Protos \subseteq WlDestroyReleases
  BY <1>2 DEF Own, Protos
<1>6. Block("pcmd", 0) \notin WlDestroyReleases /\ Block("pcmd", 0) \notin Cleaned(items)
  <2>1. Block("pcmd", 0) \notin InnerArrays({calls}, iterations)
    BY <1>0, ArraysApart
  <2> QED  BY <1>2, <1>4, <2>1 DEF Each, Block, OuterArrays, RealItems
<1>7. /\ Arrays(calls) \ WlDestroyReleases = Lost
      /\ Lost \cap Cleaned(items) = {} /\ Lost \subseteq Arrays(calls)
  <2>1. CASE ~(chained /\ contexts > 0)
    BY <2>1 DEF Arrays, Lost
  <2>2. CASE chained /\ contexts > 0
    <3> DEFINE Before == InnerArrays(1..(calls - 1), iterations)
               Last == InnerArrays({calls}, iterations)
    <3>1. Lost = Before /\ Arrays(calls) = OuterArrays \cup Before \cup Last
      BY <1>0, <2>2, ArraysNext DEF Lost, Arrays
    <3>2. /\ Before \cap Last = {} /\ Before \cap OuterArrays = {}
          /\ \A name \in {"item", "tcdef", "params"} : Before \cap Each(name, Slots) = {}
          /\ \A name \in {"workload", "load", "real_items", "chain_info", "connection_protos"} :
               Block(name, 0) \notin Before
      BY <1>0, ArraysApart
    <3> HIDE DEF Before, Last
    <3>3. /\ Before \cap WlDestroyReleases = {} /\ Before \cap Cleaned(items) = {}
          /\ OuterArrays \cup Last \subseteq WlDestroyReleases
      BY <1>2, <1>4, <3>2 DEF RealItems, Last
    <3> QED  BY <3>1, <3>3
  <2> QED  BY <2>1, <2>2
<1> QED  BY <1>2, <1>3, <1>4, <1>5, <1>6, <1>7 DEF Pcmd

\* The shape of the workload fixes what a program allocates.
LEMMA FixedBlocks ==
  ASSUME Step
  PROVE  /\ Pcmd' = Pcmd /\ Made' = Made /\ Protos' = Protos
         /\ UNCHANGED <<contexts, iterations, calls>> => Arrays(calls)' = Arrays(calls) /\ Lost' = Lost
         /\ ~chained => \A n : Arrays(n) = {} /\ Arrays(n)' = {}
         /\ ~chained => Lost = {} /\ Lost' = {}
<1>1. Pcmd' = Pcmd /\ Made' = Made /\ Protos' = Protos /\ chained' = chained
  BY Fixed DEF Pcmd, Made, Protos
<1>2. ASSUME UNCHANGED <<contexts, iterations, calls>>
      PROVE  Arrays(calls)' = Arrays(calls) /\ Lost' = Lost
  BY <1>1, <1>2 DEF Arrays, Lost
<1>3. ASSUME ~chained
      PROVE  /\ \A n : Arrays(n) = {} /\ Arrays(n)' = {}
             /\ Lost = {} /\ Lost' = {}
  BY <1>1, <1>3 DEF Arrays, Lost
<1> QED  BY <1>1, <1>2, <1>3

LEMMA LiveStep ==
  ASSUME IInv, Step
  PROVE  LiveInv'
<1>0. /\ items \in Nat /\ items >= 1 /\ Slots = 0..(items - 1)
      /\ items' = items
      /\ Pcmd' = Pcmd /\ Made' = Made /\ Protos' = Protos
      /\ UNCHANGED <<contexts, iterations, calls>> => Arrays(calls)' = Arrays(calls) /\ Lost' = Lost
      /\ ~chained => Lost = {} /\ Lost' = {}
      /\ calls \in Nat /\ chained' = chained
  BY ProgramType, Fixed, FixedBlocks DEF IInv, TypeOK
<1> USE <1>0 DEF IInv, LiveInv, setting, counts
<1>1. CASE CallMain
  <2>1. Lost = {} /\ Pcmd = {}
    BY <1>1, ProgramType DEF CallMain, Pcmd, Lost, InnerArrays
  <2> QED  BY <1>1, <2>1 DEF CallMain
<1>2. CASE CallAndroid
  <2>1. Pcmd = {Block("pcmd", 0)} /\ live' = live \cup Pcmd
    BY <1>2 DEF CallAndroid, Pcmd
  <2>0. (Lost = {} /\ live = {}) \/ live = Made
    BY <1>2 DEF CallAndroid, CallInv
  <2>2. HasWorkload => live = Made
    BY <2>0 DEF HasWorkload
  <2>3. ~HasWorkload => live = {}
    BY <2>0 DEF HasWorkload, Made, Own
  <2>4. HasWorkload => phases' = Rerun /\ pc' = "parse"
    BY <1>2 DEF CallAndroid, Usable, Rerun
  <2>5. ~HasWorkload => pc' = "init"
    BY <1>2 DEF CallAndroid, Usable
  <2> QED  BY <2>1, <2>2, <2>3, <2>4, <2>5
<1>3. CASE WlInit
  <2>1. phases # Rerun /\ phases' = phases
    BY <1>3, PhaseSets DEF WlInit, CallInv
  <2>2. live' = Pcmd \cup Own \cup RealItems /\ pc' = "parse"
    BY <1>3 DEF WlInit, Own, RealItems
  <2> QED  BY <2>1, <2>2
<1>4. CASE ParseFlags
  BY <1>4 DEF ParseFlags
<1>5. CASE EngageContexts
  <2>1. /\ phases \in Making \cup {Rerun} /\ (phases \in Making => phases # Rerun)
        /\ phases = Rerun => ~chained
    BY <1>5, PhaseSets DEF EngageContexts, CallInv
  <2>2. pc' \in {"engage"} \cup IF phases = Rerun THEN {"loop"} ELSE {"define"}
    BY <1>5, <2>1, FromPhases DEF EngageContexts
  <2>3. k' = 0 /\ UNCHANGED <<phases, live>> /\ Defined(0) = {}
    BY <1>5, DefinedNext DEF EngageContexts, CallInv
  <2>4. phases = Rerun => Protos = {} /\ Arrays(calls - 1)' = {}
    BY <2>1, FixedBlocks DEF Protos
  <2> QED  BY <1>5, <2>1, <2>2, <2>3, <2>4 DEF EngageContexts
<1>6. CASE DefineItem
  <2>1. k \in Nat /\ k' = k + 1 /\ pc' = "define"
        /\ live' = live \cup {Block("params", k), Block("item", k), Block("tcdef", k)}
        /\ live = Pcmd \cup Own \cup RealItems \cup Defined(k)
    BY <1>6 DEF DefineItem, TypeOK
  <2>2. live' = Pcmd \cup Own \cup RealItems \cup Defined(k + 1)
    BY <2>1, DefinedNext
  <2> QED  BY <2>1, <2>2
<1>7. CASE DefineFails
  BY <1>7 DEF DefineFails
<1>8. CASE AllDefined
  <2>1. live' = Pcmd \cup Made
    BY <1>8 DEF AllDefined, Made
  <2>2. /\ phases' = phases
        /\ pc' \in IF chained THEN {"connect"} ELSE {"loop", "return"}
        /\ pc' = "return" => phases # WholeCall
    BY <1>8, FromSteps, FromPhases DEF AllDefined, CallInv, WholeCall
  <2>3. ~chained => Protos = {} /\ Arrays(calls - 1)' = {}
    BY FixedBlocks DEF Protos
  <2> QED  BY <2>1, <2>2, <2>3
<1>9. CASE Connect
  <2>1. /\ live = Pcmd \cup Made /\ live' = live \cup Protos /\ pc' = "loop"
        /\ calls' = 1
    BY <1>9 DEF Connect, CallInv, Protos
  <2>2. Arrays(calls - 1)' = {}
    BY <2>1 DEF Arrays
  <2> QED  BY <2>1, <2>2
<1>10. CASE MainLoop
  <2>1. contexts \in Nat /\ contexts' = contexts /\ chained' = chained
    BY <1>10 DEF MainLoop, TypeOK, setting
  <2>2. CASE pc' = "report" /\ contexts < 1 /\ live' = live
    <3>1. Arrays(calls - 1) = {} /\ Arrays(calls)' = {}
      BY <2>1, <2>2 DEF Arrays
    <3> QED  BY <1>10, <2>2, <3>1 DEF MainLoop
  <2>3. CASE pc' = "exited"
    BY <2>3
  <2>4. CASE pc' = "run" /\ contexts >= 1 /\ WlReset
    <3>1. live = Pcmd \cup Made \cup Protos \cup Arrays(calls - 1) /\ calls' = calls /\ calls > 0
      BY <1>10 DEF MainLoop, CallInv
    <3>2. CASE ~chained
      <4>1. live' = live /\ Arrays(calls - 1) = {} /\ Arrays(calls)' = {}
        BY <2>4, <3>2, FixedBlocks DEF WlReset
      <4> QED  BY <2>4, <3>1, <4>1
    <3>3. CASE chained
      <4> PICK m : m = num_iterations
        OBVIOUS
      <4>1. live' = live \cup OuterArrays \cup InnerArrays({calls}, m)
        BY <2>4, <3>3 DEF WlReset
      <4>2. Arrays(calls)' = OuterArrays \cup InnerArrays(1..calls, m)
        BY <2>1, <2>4, <3>1, <3>3 DEF Arrays, WlReset
      <4>3. calls > 1 => Arrays(calls - 1) = OuterArrays \cup InnerArrays(1..(calls - 1), m)
        BY <1>10, <2>1, <2>4, <3>3 DEF MainLoop, Arrays, IterationInv, CallInv
      <4>4. calls = 1 => Arrays(calls - 1) = {}
        BY DEF Arrays
      <4>5. /\ InnerArrays(1..calls, m) = InnerArrays(1..(calls - 1), m) \cup InnerArrays({calls}, m)
            /\ calls = 1 => InnerArrays(1..(calls - 1), m) = {}
        BY <3>1, ArraysNext
      <4>6. calls = 1 \/ calls > 1
        BY <3>1
      <4>7. live' = Pcmd \cup Made \cup Protos \cup Arrays(calls)'
        BY <3>1, <4>1, <4>2, <4>3, <4>4, <4>5, <4>6
      <4> QED  BY <2>4, <3>1, <4>7
    <3> QED  BY <3>2, <3>3
  <2> QED  BY <1>10, <2>2, <2>3, <2>4 DEF MainLoop
<1>11. CASE RunPool
  BY <1>11 DEF RunPool
<1>12. CASE Report
  <2>1. pc' \in {"clean", "return"} /\ (pc' = "return" => phases # WholeCall)
    BY <1>12, FromSteps, FromPhases, PhaseSets DEF Report, CallInv, WholeCall
  <2>2. phases # WholeCall => ~chained
    BY <1>12 DEF Report, CallInv
  <2>3. phases # WholeCall => Protos = {} /\ Arrays(calls) = {}
    BY <2>2, FixedBlocks DEF Protos
  <2>4. k' = 0 /\ Cleaned(0) = {} /\ UNCHANGED <<phases, live, contexts, iterations, calls>>
    BY <1>12, DefinedNext DEF Report, CallInv
  <2> QED  BY <1>12, <2>1, <2>3, <2>4 DEF Report
<1>13. CASE CleanItem
  <2>1. k \in Nat /\ k < items /\ load = Full
    BY <1>13 DEF CleanItem, TypeOK, LoadInv, Filled
  <2>2. load[k] - 1 = k
    BY <2>1 DEF Full
  <2>3. /\ live' = live \ {Block("real_items", 0), Block("params", k)}
        /\ k' = k + 1 /\ pc' = "clean" /\ UNCHANGED <<contexts, iterations, calls>>
        /\ live = (Pcmd \cup Made \cup Protos \cup Arrays(calls)) \ Cleaned(k)
    BY <1>13, <2>2 DEF CleanItem
  <2>4. live' = (Pcmd \cup Made \cup Protos \cup Arrays(calls)) \ Cleaned(k + 1)
    BY <2>1, <2>3, DefinedNext
  <2> QED  BY <2>3, <2>4
<1>14. CASE AllClean
  BY <1>14 DEF AllClean
<1>15. CASE WlDestroy
  <2>1. live' = Pcmd \cup Lost /\ Lost' = Lost
    BY <1>15, DestroyAll DEF WlDestroy, LoadInv, Filled, CallInv
  <2>2. pc' = "return" /\ phases' = WholeCall
    BY <1>15 DEF WlDestroy, CallInv
  <2> QED  BY <2>1, <2>2
<1>16. CASE Return
  <2>1. CASE phases = WholeCall
    <3>1. Block("pcmd", 0) \notin Lost /\ Lost' = Lost
      BY <1>16, ArraysApart DEF Return, Lost
    <3> QED  BY <1>16, <2>1, <3>1 DEF Return, Pcmd
  <2>2. CASE phases # WholeCall
    <3>1. program.calls = "jni" /\ Pcmd = {Block("pcmd", 0)}
      BY <1>16, <2>2, ProgramType DEF Return, CallInv, Pcmd
    <3>2. Block("pcmd", 0) \notin Made
      BY DEF Made, Own, RealItems, Defined, Each, Block
    <3>3. live' = Made
      BY <1>16, <2>2, <3>1, <3>2 DEF Return
    <3> QED  BY <1>16, <3>1, <3>3 DEF Return
  <2> QED  BY <2>1, <2>2
<1>17. CASE RunAgain
  <2>1. /\ calls' = calls + 1 /\ pc' = "loop" /\ UNCHANGED <<live, contexts, iterations, chained>>
        /\ live = Pcmd \cup Made \cup Protos \cup Arrays(calls)
    BY <1>17 DEF RunAgain
  <2>2. (calls + 1) - 1 = calls
    OBVIOUS
  <2>3. Arrays(calls - 1)' = Arrays(calls)
    BY <2>1, <2>2 DEF Arrays
  <2> QED  BY <2>1, <2>3
<1> QED
  BY <1>1, <1>2, <1>3, <1>4, <1>5, <1>6, <1>7, <1>8, <1>9, <1>10, <1>11, <1>12, <1>13,
     <1>14, <1>15, <1>16, <1>17 DEF Step, Main

-----------------------------------------------------------------------------
(* The invariant, and what it says.                                        *)

LEMMA InitIInv == Init => IInv
<1> SUFFICES ASSUME Init
             PROVE  IInv
  OBVIOUS
<1>1. /\ items \in Nat /\ items >= 1 /\ Word \in Nat /\ Word > 1 /\ MaxCalls \in Nat
      /\ program.calls \in {"main", "again"} \/ (program.calls = "jni" /\ items = 1)
  BY MainAssumption DEF Init, items
<1>2. TypeOK
  <2>1. /\ Nothing \in [Slots -> 0..items] /\ Nothing \in [Slots -> 0..(Word - 1)]
        /\ Nothing \in [Slots -> 0..MaxCalls]
    BY <1>1 DEF Nothing
  <2>2. /\ program \in Programs /\ chained \in BOOLEAN /\ calls = 0 /\ phases = {}
        /\ k = 0 /\ next_idx = 0 /\ iterations = 1 /\ contexts = 1
        /\ load = Nothing /\ finished = Nothing /\ failed = Nothing
        /\ verify = TRUE /\ mishap = FALSE /\ pc = "call"
    BY DEF Init
  <2>3. /\ calls \in 0..MaxCalls /\ k \in 0..items /\ next_idx \in 0..items
        /\ iterations \in 0..(Word - 1) /\ contexts \in 0..(Word - 1)
    BY <1>1, <2>2
  <2> QED  BY <2>1, <2>2, <2>3 DEF TypeOK, Steps
<1>3. CallInv
  BY <1>1 DEF Init, CallInv
<1>4. LoadInv /\ LiveInv
  <2>1. Lost = {} /\ live = {} /\ pc = "call"
    <3>1. 1..(0 - 1) = {}
      OBVIOUS
    <3> QED  BY <3>1 DEF Init, Lost, InnerArrays
  <2> QED  BY <2>1 DEF LoadInv, LiveInv, Filled, HasWorkload
<1>5. IterationInv
  BY DEF Init, IterationInv, Filled
<1>6. FailureInv
  <2>1. \A s \in Slots : failed[s] = 0
    BY DEF Init, Nothing
  <2>2. ~ \E s \in Slots : failed[s] > 0
    BY <2>1
  <2>3. \A s \in Slots : failed[s] <= calls
    BY <2>1 DEF Init
  <2>4. mishap = FALSE /\ pc = "call"
    BY DEF Init
  <2> QED  BY <2>2, <2>3, <2>4 DEF FailureInv, FailuresBounded, FailuresOfRuns
<1> QED  BY <1>2, <1>3, <1>4, <1>5, <1>6 DEF IInv

\* The invariant holds for every program, command line and word size.
THEOREM MainInvariant == Spec => []IInv
<1>1. ASSUME IInv, [Next]_vars
      PROVE  IInv'
  <2>1. CASE Step
    BY <1>1, <2>1, TypeStep, CallStep, LoadStep, IterationStep, FailureStep, LiveStep DEF IInv
  <2>2. CASE UNCHANGED vars
    BY <1>1, <2>2 DEF vars, IInv, TypeOK, CallInv, LoadInv, IterationInv, FailureInv, LiveInv,
       FailuresBounded, FailuresOfRuns, HasWorkload,
       items, Slots, Nothing, Full, num_iterations, Pcmd, Made, Protos, Arrays, Lost, FirstRun
  <2> QED  BY <1>1, <2>1, <2>2 DEF Next, Step, Stopped
<1> QED  BY <1>1, InitIInv, PTL DEF Spec

\* Every variable keeps its type: no index of load[] is ever used beyond its
\* end, although mith_wl_add's own check admits one.
THEOREM TypeCorrect == Spec => []TypeOK
<1>1. IInv => TypeOK
  BY DEF IInv
<1> QED  BY <1>1, MainInvariant, PTL

\* The interval of the items.
LEMMA FullCardinality ==
  ASSUME TypeOK
  PROVE  Cardinality({Full[s] : s \in Slots}) = items
<1>1. items \in Nat /\ Slots = 0..(items - 1)
  BY ProgramType
<1>2. {Full[s] : s \in Slots} = 1..items
  <2>1. \A s \in Slots : Full[s] = s + 1
    BY DEF Full
  <2>2. \A n \in 1..items : n - 1 \in Slots /\ Full[n - 1] = n
    BY <1>1, <2>1
  <2>3. \A s \in Slots : Full[s] \in 1..items
    BY <1>1, <2>1
  <2> QED  BY <2>2, <2>3
<1>3. Cardinality(1..items) = items
  BY <1>1, FS_Interval
<1> QED  BY <1>2, <1>3

\* mith_wl_get_next, mith_report_results and the cleanup never follow a NULL
\* slot of load[], whatever the number of items, and the pool starts its search
\* inside load[].
THEOREM SlotsFilled == Spec => []PoolFindsItems
<1>1. ASSUME IInv
      PROVE  PoolFindsItems
  <2> SUFFICES ASSUME pc \in {"run", "report", "clean"}
               PROVE  /\ \A s \in Slots : load[s] # 0
                      /\ Cardinality({load[s] : s \in Slots}) = items
                      /\ pc = "run" => next_idx < items
    BY DEF PoolFindsItems
  <2>1. load = Full /\ (pc = "run" => next_idx = 0)
    BY <1>1 DEF IInv, LoadInv, Filled
  <2>2. items \in Nat /\ items >= 1 /\ Slots = 0..(items - 1)
    BY <1>1, ProgramType DEF IInv
  <2>3. \A s \in Slots : load[s] # 0
    BY <2>1, <2>2 DEF Full
  <2> QED  BY <1>1, <2>1, <2>2, <2>3, FullCardinality DEF IInv
<1> QED  BY <1>1, MainInvariant, PTL

\* A performance run has work for every context, also when the product of the
\* iterations and the items has wrapped around.
THEOREM AllEngaged == Spec => []ContextsEngaged
<1>1. IInv => ContextsEngaged
  BY DEF IInv, IterationInv, ContextsEngaged
<1> QED  BY <1>1, MainInvariant, PTL

\* What the report prints as the iterations was executed for every item.
THEOREM ReportTrue == Spec => []ReportIsTrue
<1>1. IInv => ReportIsTrue
  BY DEF IInv, IterationInv, ReportIsTrue
<1> QED  BY <1>1, MainInvariant, PTL

\* Parameters are cleaned up while the workload, load[] and the item through
\* which main reaches them are allocated.
THEOREM ParamsThere == Spec => []CleanupFindsParams
<1>1. ASSUME IInv
      PROVE  CleanupFindsParams
  <2>0. items \in Nat /\ items >= 1 /\ Slots = 0..(items - 1)
    BY <1>1, ProgramType DEF IInv
  <2>1. /\ Own \subseteq Made
        /\ \A s \in Slots : Block("params", s) \in Made /\ Block("item", s) \in Made
    BY <2>0 DEF Made, Defined, Each
  <2>2. pc \in {"run", "report"} => Each("params", Slots) \subseteq live
    BY <1>1, <2>1 DEF IInv, LiveInv, Each
  <2>3. ASSUME pc = "clean", k < items
        PROVE  {Block("workload", 0), Block("load", 0), Block("item", load[k] - 1),
                Block("params", load[k] - 1)} \subseteq live
    <3>1. k \in Slots /\ load[k] - 1 = k
      BY <1>1, <2>0, <2>3 DEF IInv, TypeOK, LoadInv, Filled, Full
    <3>2. {Block("workload", 0), Block("load", 0), Block("item", k), Block("params", k)}
            \cap Cleaned(k) = {}
      BY <3>1 DEF Cleaned, Each, Block, RealItems
    <3> QED  BY <1>1, <2>1, <2>3, <3>1, <3>2 DEF IInv, LiveInv, Own
  <2> QED  BY <2>2, <2>3 DEF CleanupFindsParams
<1> QED  BY <1>1, MainInvariant, PTL

\* Between calls nothing is allocated save the chain arrays of the runs before
\* the last, or exactly the one workload an Android function keeps.
THEOREM AllReleased == Spec => []NothingLeaks
<1>1. ASSUME IInv
      PROVE  NothingLeaks
  <2> SUFFICES ASSUME pc = "call"
               PROVE  IF HasWorkload
                      THEN live = {Block(name, 0) : name \in {"workload", "load", "real_items",
                                                              "item", "tcdef", "params"}}
                      ELSE live \subseteq Lost
    BY DEF NothingLeaks
  <2>1. live = Lost \/ (program.calls = "jni" /\ live = Made)
    BY <1>1 DEF IInv, LiveInv
  <2>2. live = Made => HasWorkload
    BY DEF HasWorkload, Made, Own
  <2>3. program.calls = "jni" => items = 1
    BY <1>1, ProgramType DEF IInv
  <2>4. items = 1 => Made = {Block(name, 0) : name \in {"workload", "load", "real_items", "item",
                                                        "tcdef", "params"}}
    <3>1. 0..(1 - 1) = {0}
      OBVIOUS
    <3> QED  BY <3>1 DEF Made, Own, RealItems, Defined, Each
  <2>5. Block("workload", 0) \notin Lost
    BY <1>1, WorkloadNotLost DEF IInv
  <2> QED  BY <2>1, <2>2, <2>3, <2>4, <2>5 DEF HasWorkload
<1> QED  BY <1>1, MainInvariant, PTL

\* The report is never better than its run, and the first one of a workload
\* counts the failures of its run only.
THEOREM VerdictTold == Spec => []VerdictIsOfRun
<1>1. IInv => VerdictIsOfRun
  BY DEF IInv, FailureInv, FailuresOfRuns, VerdictIsOfRun
<1> QED  BY <1>1, MainInvariant, PTL

=============================================================================
