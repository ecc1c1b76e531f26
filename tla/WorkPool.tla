------------------------------ MODULE WorkPool ------------------------------
(***************************************************************************)
(* The thread pool of the MITH harness: mith_main_loop creates one         *)
(* bench_thread per execution context, every thread takes the next work    *)
(* item from the workload under mith_mutex, executes it outside the mutex  *)
(* and accounts for it under the mutex again, and the main thread reports  *)
(* when it has joined them all (mith/src/mith_lib.c), with                 *)
(* mith_wl_get_next and mith_wl_reset of mith/src/mith_workload.c.         *)
(*                                                                         *)
(* Items of a chain start together (mutex 0 of the chain instance) and     *)
(* wait for each other at the end (one mutex per item).  A mutex is        *)
(* released by whoever unlocks it, as a default pthread mutex does, and    *)
(* mith_lib.c relies on it: the last item of a chain unlocks the mutex     *)
(* the first item locked.                                                  *)
(***************************************************************************)
EXTENDS Integers, FiniteSets

CONSTANTS
  NumContexts,    \* num_contexts, one bench_thread each
  MaxIdx,         \* workload->max_idx, every slot of load[] is filled
  NumIterations,  \* num_iterations as the caller gave it
  VerifyOutput,   \* verify_output: a validation run executes once
  Verdicts,       \* what failed can be after a verification: {0, 1}, or
                  \* {0} for workloads whose items never fail
  Fake,           \* the items whose init_func is NULL
  ChainId,        \* item->chain_id: -1, or the place 1.. in its chain
  ChainUid,       \* item->chain_uid: the chain an item belongs to
  ChainLen,       \* chain_info[uid].num_items
  MCL             \* workload->mcl, the longest chain's length

Contexts == 0..(NumContexts - 1)
Items    == 0..(MaxIdx - 1)
Chains   == DOMAIN ChainLen

\* item->required, the same for every item (mith_wl_reset).
Required == IF VerifyOutput THEN 1 ELSE NumIterations

NoItem   == -1
NoThread == -1

Chained(i) == ChainId[i] >= 0

\* mith_main_loop returns early without a context; mith_wl_reset exits when
\* a chain is longer than the number of contexts.
ASSUME PoolAssumption ==
  /\ NumContexts \in Nat \ {0}
  /\ MaxIdx \in Nat \ {0}
  /\ NumIterations \in Nat \ {0}
  /\ VerifyOutput \in BOOLEAN
  /\ Verdicts \subseteq 0..1
  /\ Fake \subseteq Items
  /\ MCL \in Nat /\ MCL <= NumContexts

\* chain_id numbers the items of a chain 1..num_items; mith_wl_reset allocates
\* the chain mutexes only when mcl > 1.
ASSUME ChainAssumption ==
  /\ ChainId \in [Items -> {-1} \cup (1..MCL)]
  /\ ChainLen \in [Chains -> 1..MCL]
  /\ ChainUid \in [Items -> Chains \cup {-1}]
  /\ \A i \in Items : Chained(i) =>
       /\ ChainUid[i] \in Chains
       /\ ChainId[i] <= ChainLen[ChainUid[i]]
       /\ MCL > 1

\* workload->chain_mutexes[instance][uid*(mcl+1) + k]
Cells == (0..(Required - 1)) \X Chains \X (0..MCL)

VARIABLES
  mithMutex,   \* the thread that holds mith_mutex, or NoThread
  nextIdx,     \* workload->next_idx
  assigned,    \* item->assigned
  finished,    \* item->finished
  failed,      \* item->failed
  chainMutex,  \* the holder of each chain mutex, or NoThread
  pc,          \* where each bench_thread is
  item,        \* bench_thread's item
  inst,        \* the chain instance its chain_mutex and connection point to
  verdict,     \* bench_thread's failed: survives from one item to the next
  endIdx,      \* the index of the loop over the chain's mutexes
  seen,        \* item->finished and item->failed as read for the ++ and +=
  mainPc,      \* where mith_main_loop is
  created,     \* contexts whose thread has been created
  joined,      \* contexts whose thread has been joined
  bad          \* history: executions of each item that failed verification

poolVars  == <<mithMutex, nextIdx, assigned, finished, failed, chainMutex>>
localVars == <<item, inst, verdict, endIdx, seen>>
mainVars  == <<mainPc, created, joined>>
vars == <<poolVars, pc, localVars, mainVars, bad>>

PcValues == {"none", "lock", "next", "chainStart", "chainOwn", "assign",
             "chainReady", "chainWait", "bench", "chainDone", "chainEnd",
             "relock", "record", "exited"}

TypeOK ==
  /\ mithMutex \in Contexts \cup {NoThread}
  /\ nextIdx \in Items
  /\ assigned \in [Items -> Nat]
  /\ finished \in [Items -> Nat]
  /\ failed \in [Items -> Nat]
  /\ chainMutex \in [Cells -> Contexts \cup {NoThread}]
  /\ pc \in [Contexts -> PcValues]
  /\ item \in [Contexts -> Items \cup {NoItem}]
  /\ inst \in [Contexts -> Nat]
  /\ verdict \in [Contexts -> 0..1]
  /\ endIdx \in [Contexts -> 0..MCL]
  /\ seen \in [Contexts -> [finished : Nat, failed : Nat]]
  /\ mainPc \in {"create", "join", "report", "done"}
  /\ created \in 0..NumContexts
  /\ joined \in 0..NumContexts
  /\ bad \in [Items -> Nat]

NotSeen == [finished |-> 0, failed |-> 0]

Init ==
  /\ mithMutex  = NoThread
  /\ nextIdx    = 0
  /\ assigned   = [i \in Items |-> 0]
  /\ finished   = [i \in Items |-> 0]
  /\ failed     = [i \in Items |-> 0]
  /\ chainMutex = [c \in Cells |-> NoThread]
  /\ pc         = [t \in Contexts |-> "none"]
  /\ item       = [t \in Contexts |-> NoItem]
  /\ inst       = [t \in Contexts |-> 0]
  /\ verdict    = [t \in Contexts |-> 0]
  /\ endIdx     = [t \in Contexts |-> 0]
  /\ seen       = [t \in Contexts |-> NotSeen]
  /\ mainPc     = "create"
  /\ created    = 0
  /\ joined     = 0
  /\ bad        = [i \in Items |-> 0]

-----------------------------------------------------------------------------
(* mith_wl_get_next: the search goes once round the load array from        *)
(* next_idx and stops at the first item that still has to be assigned.     *)

Slot(k) == (nextIdx + k) % MaxIdx

Assignable == {k \in 0..(MaxIdx - 1) : assigned[Slot(k)] < Required}

First == CHOOSE k \in Assignable : \A j \in Assignable : k <= j

-----------------------------------------------------------------------------
(* bench_thread.                                                           *)

Goto(t, from, to) ==
  /\ pc[t] = from
  /\ pc' = [pc EXCEPT ![t] = to]

\* The chain mutex k of the chain instance thread t works on.
Cell(t, k) == <<inst[t], ChainUid[item[t]], k>>

LockChain(t, k) ==
  /\ chainMutex[Cell(t, k)] = NoThread
  /\ chainMutex' = [chainMutex EXCEPT ![Cell(t, k)] = t]

UnlockChain(t, k) ==
  chainMutex' = [chainMutex EXCEPT ![Cell(t, k)] = NoThread]

\* Mutant: the workload is searched without locking it.
LockToGetUnlocked(t) ==
  /\ Goto(t, "lock", "next")
  /\ mithMutex' = t
  /\ UNCHANGED <<nextIdx, assigned, finished, failed, chainMutex,
                 localVars, mainVars, bad>>

LockToGet(t) ==
  /\ Goto(t, "lock", "next")
  /\ mithMutex = NoThread
  /\ mithMutex' = t
  /\ UNCHANGED <<nextIdx, assigned, finished, failed, chainMutex,
                 localVars, mainVars, bad>>

\* Mutant: workload->next_idx is not written back after the search.
GetNextFromStart(t) ==
  /\ pc[t] = "next"
  /\ Assignable # {}
  /\ LET i == Slot(First)
     IN /\ item' = [item EXCEPT ![t] = i]
        /\ inst' = [inst EXCEPT ![t] = assigned[i]]
        /\ pc' = [pc EXCEPT ![t] = IF ~Chained(i) THEN "assign"
                                   ELSE IF ChainId[i] = 1 THEN "chainStart"
                                   ELSE "chainOwn"]
  /\ UNCHANGED <<mithMutex, nextIdx, assigned, finished, failed, chainMutex,
                 verdict, endIdx, seen, mainVars, bad>>

\* Under mith_mutex: the search, and the address of the chain's mutexes,
\* which item->assigned selects.
GetNext(t) ==
  /\ pc[t] = "next"
  /\ Assignable # {}
  /\ LET i == Slot(First)
     IN /\ item' = [item EXCEPT ![t] = i]
        /\ inst' = [inst EXCEPT ![t] = assigned[i]]
        /\ nextIdx' = Slot(First + 1)
        /\ pc' = [pc EXCEPT ![t] = IF ~Chained(i) THEN "assign"
                                   ELSE IF ChainId[i] = 1 THEN "chainStart"
                                   ELSE "chainOwn"]
  /\ UNCHANGED <<mithMutex, assigned, finished, failed, chainMutex,
                 verdict, endIdx, seen, mainVars, bad>>

\* Nothing left to assign: unlock and leave.
GetNone(t) ==
  /\ Goto(t, "next", "exited")
  /\ Assignable = {}
  /\ item' = [item EXCEPT ![t] = NoItem]
  /\ mithMutex' = NoThread
  /\ UNCHANGED <<nextIdx, assigned, finished, failed, chainMutex,
                 inst, verdict, endIdx, seen, mainVars, bad>>

\* The first item of a chain holds back all of them (mith_mutex is held).
LockStart(t) ==
  /\ Goto(t, "chainStart", "chainOwn")
  /\ LockChain(t, 0)
  /\ UNCHANGED <<mithMutex, nextIdx, assigned, finished, failed,
                 localVars, mainVars, bad>>

\* Every item of a chain holds its own mutex while it works.
LockOwn(t) ==
  /\ Goto(t, "chainOwn", "assign")
  /\ LockChain(t, ChainId[item[t]])
  /\ UNCHANGED <<mithMutex, nextIdx, assigned, finished, failed,
                 localVars, mainVars, bad>>

\* What follows the assignment and the chain's start.
Execute(i) == IF i \in Fake THEN IF Chained(i) THEN "chainDone" ELSE "relock"
              ELSE "bench"

\* item->assigned++ and unlock.
Assign(t) ==
  /\ pc[t] = "assign"
  /\ assigned' = [assigned EXCEPT ![item[t]] = @ + 1]
  /\ mithMutex' = NoThread
  /\ pc' = [pc EXCEPT ![t] = IF Chained(item[t]) THEN "chainReady"
                             ELSE Execute(item[t])]
  /\ UNCHANGED <<nextIdx, finished, failed, chainMutex, localVars,
                 mainVars, bad>>

\* Mutant: the longest chain's length instead of this chain's.
IsLastOfLongest(i) == ChainId[i] = MCL

IsLast(i) == ChainId[i] = ChainLen[ChainUid[i]]

\* The last item of a chain lets all of them start.
ReleaseStart(t) ==
  /\ Goto(t, "chainReady", "chainWait")
  /\ IF IsLast(item[t]) THEN UnlockChain(t, 0) ELSE UNCHANGED chainMutex
  /\ UNCHANGED <<mithMutex, nextIdx, assigned, finished, failed,
                 localVars, mainVars, bad>>

\* Mutant: no waiting for the rest of the chain.
WaitStartSkipped(t) ==
  /\ Goto(t, "chainWait", Execute(item[t]))
  /\ UNCHANGED <<poolVars, localVars, mainVars, bad>>

\* Lock and unlock mutex 0: passes once the last item has been assigned.
WaitStart(t) ==
  /\ Goto(t, "chainWait", Execute(item[t]))
  /\ chainMutex[Cell(t, 0)] = NoThread
  /\ UNCHANGED <<poolVars, localVars, mainVars, bad>>

\* init, bench, verify and fini of one item; the verification decides
\* failed (CRC comparison or veri_func: either outcome).
Bench(t) ==
  /\ Goto(t, "bench", IF Chained(item[t]) THEN "chainDone" ELSE "relock")
  /\ \E f \in Verdicts :
       /\ verdict' = [verdict EXCEPT ![t] = f]
       /\ bad' = [bad EXCEPT ![item[t]] = @ + f]
  /\ UNCHANGED <<poolVars, item, inst, endIdx, seen, mainVars>>

UnlockOwn(t) ==
  /\ Goto(t, "chainDone", "chainEnd")
  /\ UnlockChain(t, ChainId[item[t]])
  /\ endIdx' = [endIdx EXCEPT ![t] = 0]
  /\ UNCHANGED <<mithMutex, nextIdx, assigned, finished, failed,
                 item, inst, verdict, seen, mainVars, bad>>

\* One turn of the loop over mutexes 0..mcl-1: lock and unlock.
WaitEnd(t) ==
  /\ pc[t] = "chainEnd"
  /\ endIdx[t] < MCL
  /\ chainMutex[Cell(t, endIdx[t])] = NoThread
  /\ endIdx' = [endIdx EXCEPT ![t] = @ + 1]
  /\ pc' = [pc EXCEPT ![t] = IF endIdx[t] + 1 = MCL THEN "relock"
                             ELSE "chainEnd"]
  /\ UNCHANGED <<poolVars, item, inst, verdict, seen, mainVars, bad>>

\* Mutant: the counters are updated without locking the workload.
LockToRecordUnlocked(t) ==
  /\ Goto(t, "relock", "record")
  /\ mithMutex' = t
  /\ seen' = [seen EXCEPT ![t] = [finished |-> finished[item[t]],
                                  failed   |-> failed[item[t]]]]
  /\ UNCHANGED <<nextIdx, assigned, finished, failed, chainMutex,
                 item, inst, verdict, endIdx, mainVars, bad>>

\* Lock mith_mutex again; the counters are read to be incremented.
LockToRecord(t) ==
  /\ Goto(t, "relock", "record")
  /\ mithMutex = NoThread
  /\ mithMutex' = t
  /\ seen' = [seen EXCEPT ![t] = [finished |-> finished[item[t]],
                                  failed   |-> failed[item[t]]]]
  /\ UNCHANGED <<nextIdx, assigned, finished, failed, chainMutex,
                 item, inst, verdict, endIdx, mainVars, bad>>

\* Mutant: item->failed = failed.
RecordOverwrites(t) ==
  /\ Goto(t, "record", "lock")
  /\ finished' = [finished EXCEPT ![item[t]] = seen[t].finished + 1]
  /\ failed' = [failed EXCEPT ![item[t]] = verdict[t]]
  /\ item' = [item EXCEPT ![t] = NoItem]
  /\ inst' = [inst EXCEPT ![t] = 0]
  /\ endIdx' = [endIdx EXCEPT ![t] = 0]
  /\ seen' = [seen EXCEPT ![t] = NotSeen]
  /\ mithMutex' = NoThread
  /\ UNCHANGED <<nextIdx, assigned, chainMutex, verdict, mainVars, bad>>

\* item->finished++, item->failed += failed, unlock, and the next round:
\* only verdict outlives the item, the other locals are set before their use.
Record(t) ==
  /\ Goto(t, "record", "lock")
  /\ finished' = [finished EXCEPT ![item[t]] = seen[t].finished + 1]
  /\ failed' = [failed EXCEPT ![item[t]] = seen[t].failed + verdict[t]]
  /\ item' = [item EXCEPT ![t] = NoItem]
  /\ inst' = [inst EXCEPT ![t] = 0]
  /\ endIdx' = [endIdx EXCEPT ![t] = 0]
  /\ seen' = [seen EXCEPT ![t] = NotSeen]
  /\ mithMutex' = NoThread
  /\ UNCHANGED <<nextIdx, assigned, chainMutex, verdict, mainVars, bad>>

-----------------------------------------------------------------------------
(* mith_main_loop and, after it, mith_report_results.                      *)

\* Mutant: one thread too many.
CreateThreadPastEnd ==
  /\ mainPc = "create"
  /\ pc' = [pc EXCEPT ![created] = "lock"]
  /\ created' = created + 1
  /\ mainPc' = IF created = NumContexts THEN "join" ELSE "create"
  /\ UNCHANGED <<poolVars, localVars, joined, bad>>

CreateThread ==
  /\ mainPc = "create"
  /\ pc' = [pc EXCEPT ![created] = "lock"]
  /\ created' = created + 1
  /\ mainPc' = IF created + 1 = NumContexts THEN "join" ELSE "create"
  /\ UNCHANGED <<poolVars, localVars, joined, bad>>

\* Mutant: the last thread is not joined.
JoinThreadNotLast ==
  /\ mainPc = "join"
  /\ pc[joined] = "exited"
  /\ joined' = joined + 1
  /\ mainPc' = IF joined + 2 >= NumContexts THEN "report" ELSE "join"
  /\ UNCHANGED <<poolVars, pc, localVars, created, bad>>

JoinThread ==
  /\ mainPc = "join"
  /\ pc[joined] = "exited"
  /\ joined' = joined + 1
  /\ mainPc' = IF joined + 1 = NumContexts THEN "report" ELSE "join"
  /\ UNCHANGED <<poolVars, pc, localVars, created, bad>>

ReportResults ==
  /\ mainPc = "report"
  /\ mainPc' = "done"
  /\ UNCHANGED <<poolVars, pc, localVars, created, joined, bad>>

\* The program has ended.
Ended == mainPc = "done" /\ UNCHANGED vars

-----------------------------------------------------------------------------

Thread(t) ==
  \/ LockToGet(t)
  \/ GetNext(t)
  \/ GetNone(t)
  \/ LockStart(t)
  \/ LockOwn(t)
  \/ Assign(t)
  \/ ReleaseStart(t)
  \/ WaitStart(t)
  \/ Bench(t)
  \/ UnlockOwn(t)
  \/ WaitEnd(t)
  \/ LockToRecord(t)
  \/ Record(t)

Main == CreateThread \/ JoinThread \/ ReportResults

Next ==
  \/ \E t \in Contexts : Thread(t)
  \/ Main
  \/ Ended

Spec == Init /\ [][Next]_vars

\* The scheduler runs every thread that can go on.  Nothing is assumed of
\* the order in which waiting threads get a mutex.
FairSpec == Spec /\ WF_vars(Main) /\ \A t \in Contexts : WF_vars(Thread(t))

-----------------------------------------------------------------------------
(* Properties.                                                             *)

\* A thread between Assign and Record executes item[t] and owes the record.
Working == {"chainReady", "chainWait", "bench", "chainDone", "chainEnd",
            "relock", "record"}

InFlight(i) == {t \in Contexts : pc[t] \in Working /\ item[t] = i}

\* Every assignment is accounted for once: what was assigned is either
\* finished or in the hands of exactly one thread, and no item is assigned
\* more often than required (the two critical sections of bench_thread).
Conservation ==
  \A i \in Items :
    /\ assigned[i] = finished[i] + Cardinality(InFlight(i))
    /\ assigned[i] <= Required

\* The round-robin search keeps the items in step: no item is ever more than
\* one iteration ahead of an item behind it in load[], nor behind it at all.
\* This is what makes item->assigned name the same chain instance for all
\* the items of a chain (mith_wl_get_chain_mutex).
LockStep ==
  \A i, j \in Items :
    i < j => assigned[j] <= assigned[i] /\ assigned[i] <= assigned[j] + 1

\* No two threads ever execute the same iteration of the same item, so each
\* uses the connections and mutexes of its own chain instance.
NoIterationTwice ==
  \A t, u \in Contexts :
    t # u /\ pc[t] \in Working /\ pc[u] \in Working /\ item[t] = item[u]
      => inst[t] # inst[u]

\* The threads that have executed item i, found it failed and not recorded it.
Judged == {"chainDone", "chainEnd", "relock", "record"}

Unrecorded(i) == {t \in Contexts : pc[t] \in Judged /\ item[t] = i /\ verdict[t] = 1}

\* "number of times failed execution" (mith_workload.h): item->failed counts
\* the failed executions of that item, all of them and no others; the verdict
\* of an execution that is not recorded yet is still in its thread's hands.
FailuresAreOwn ==
  \A i \in Items : bad[i] = failed[i] + Cardinality(Unrecorded(i))

\* When the results are reported, the failures reported for an item are those
\* of its own executions.  An item that only exists to complete a chain has
\* no init_func and never sets failed.
FailuresReported == mainPc = "done" => failed = bad

SameChain(i, j) == Chained(i) /\ Chained(j) /\ ChainUid[i] = ChainUid[j]

\* Thread u is at work on the chain instance of thread t, as item j.
Partner(t, u, j) ==
  /\ pc[u] \in Working \ {"relock", "record"}
  /\ item[u] = j
  /\ inst[u] = inst[t]

\* "do not start execution until last item is assigned" and "make sure all
\* items in chain are done" (mith_lib.c:140, 182), for the items the end loop
\* waits for, those with chain_id < mcl: while one of them executes, every
\* other item of its chain instance is held by a thread that has not left
\* the chain.
ChainRunsTogether ==
  \A t \in Contexts :
    pc[t] = "bench" /\ Chained(item[t]) /\ ChainId[item[t]] < MCL =>
      \A j \in Items : SameChain(item[t], j) => \E u \in Contexts : Partner(t, u, j)

\* The same for every item of the chain, as the comment at mith_lib.c:182
\* says: "to make sure all items in chain are done, lock the chain mutex for
\* each".  The loop stops at mcl - 1 and the mutexes are numbered from 0.
ChainEndsTogether ==
  \A t \in Contexts :
    pc[t] = "bench" /\ Chained(item[t]) =>
      \A j \in Items : SameChain(item[t], j) => \E u \in Contexts : Partner(t, u, j)

\* The pool implements what mith_main promises.
Promise == INSTANCE RunPromise WITH
             Iterations <- Required,
             started    <- assigned,
             completed  <- finished,
             failures   <- failed,
             reported   <- (mainPc = "done")

\* mith_main "will stop once each item in the workload has iterated
\* num_iterations, and report results" (mith_workload.h): nothing is reported
\* before every iteration of every item is accounted for.
KeepsPromise == Promise!PromiseSpec

\* The run always ends, with chains too.
RunEnds == <>(mainPc = "done")

=============================================================================
