------------------------------ MODULE ThMalloc ------------------------------
(***************************************************************************)
(* The allocation functions of th_lib.c with their statistics              *)
(* (REPORT_THMALLOC_STATS): th_malloc_sizes lists the size of every block, *)
(* th_malloc_total is what is allocated and th_malloc_max its maximum.     *)
(* The C library's allocator is thread safe by itself; the statistics are  *)
(* behind th_malloc_mutex, so between the two another thread may get in.   *)
(*                                                                         *)
(* The main thread allocates the workload, lets the contexts run and goes  *)
(* on alone; every thread calls the functions on blocks of its own, as     *)
(* module KernelLife says it does, in any order.                           *)
(***************************************************************************)
EXTENDS Naturals, Sequences, FiniteSets, SequencesExt

CONSTANTS
  Workers,   \* the contexts
  Main,      \* the main thread
  Addrs,     \* what malloc can return
  Null,      \* the null pointer
  MaxSize,   \* sizes of blocks
  MaxCalls   \* calls of each thread, frees of blocks not counted

Threads == Workers \cup {Main}
BlockSizes == 1..MaxSize
Free    == 0   \* mutex: nobody holds it

ASSUME HeapAssumption ==
  /\ Main \notin Workers /\ Null \notin Addrs /\ IsFiniteSet(Workers) /\ IsFiniteSet(Addrs)
  /\ MaxSize \in Nat \ {0} /\ MaxCalls \in Nat
  /\ Free \notin Threads

VARIABLES
  heap,      \* the C library: the size of the allocated blocks, 0 if none
  own,       \* the blocks each thread has to release
  allocCall, \* the call each thread is in
  calls,     \* the calls it may still make
  th_malloc_sizes, th_malloc_total, th_malloc_max, th_malloc_mutex,
  contexts,  \* they are not there yet, running, or gone
  reused     \* malloc has handed out an address which the list still has

stats == <<th_malloc_sizes, th_malloc_total, th_malloc_max>>
heapVars  == <<heap, own, allocCall, calls, stats, th_malloc_mutex, contexts, reused>>

NoBlock == 0
NoAlloc  == [op |-> "none", step |-> "none", ptr |-> Null, ret |-> Null, size |-> 0]

Entry(data, info) == [data |-> data, info |-> info]

HeapTypeOK ==
  /\ heap \in [Addrs -> 0..MaxSize]
  /\ own \in [Threads -> SUBSET Addrs]
  /\ allocCall \in [Threads -> [op : {"none", "alloc", "realloc", "free"},
                           step : {"none", "check", "init", "initLock", "lock", "account", "libc"},
                           ptr : Addrs \cup {Null}, ret : Addrs \cup {Null}, size : 0..MaxSize]]
  /\ calls \in [Threads -> 0..MaxCalls]
  /\ th_malloc_sizes \in Seq([data : Addrs \cup {Null}, info : 0..MaxSize])
  /\ th_malloc_total \in Nat
  /\ th_malloc_max \in Nat
  /\ th_malloc_mutex \in Threads \cup {Free}
  /\ contexts \in {"alone", "running", "joined"}
  /\ reused \in BOOLEAN

HeapInit ==
  /\ heap = [a \in Addrs |-> NoBlock]
  /\ own = [t \in Threads |-> {}]
  /\ allocCall = [t \in Threads |-> NoAlloc]
  /\ calls = [t \in Threads |-> MaxCalls]
  /\ th_malloc_sizes = <<>> /\ th_malloc_total = 0 /\ th_malloc_max = 0
  /\ th_malloc_mutex = Free
  /\ contexts = "alone"
  /\ reused = FALSE

-----------------------------------------------------------------------------

\* ee_list_dsearch: the first entry for an address, 0 if there is none.
Dsearch(data) == SelectInSeq(th_malloc_sizes, LAMBDA e : e.data = data)

Listed(data) == Dsearch(data) # 0

Unused == {a \in Addrs : heap[a] = NoBlock}

\* The thread is not in a call, and it is its turn in the program.
Ready(t) ==
  /\ allocCall[t] = NoAlloc
  /\ IF t = Main THEN contexts # "running" ELSE contexts = "running"

\* Until the contexts are gone main has the workload, which it allocates first.
KeepsWorkload(t) == t = Main /\ contexts = "alone" /\ Cardinality(own[t]) < 2

GoTo(t, step) == allocCall' = [allocCall EXCEPT ![t].step = step]

\* malloc, malloc_aligned or calloc, of which the size of one member is accounted for.
StartAlloc(t) ==
  /\ Ready(t) /\ calls[t] > 0
  /\ \E a \in Unused, size \in BlockSizes :
       /\ heap' = [heap EXCEPT ![a] = size]
       /\ own' = [own EXCEPT ![t] = @ \cup {a}]
       /\ allocCall' = [allocCall EXCEPT ![t] = [op |-> "alloc", step |-> "check",
                                       ptr |-> Null, ret |-> a, size |-> size]]
       /\ reused' = (reused \/ Listed(a))
  /\ calls' = [calls EXCEPT ![t] = @ - 1]
  /\ UNCHANGED <<stats, th_malloc_mutex, contexts>>

\* realloc leaves the block where it is or moves it.  Its callers, all in ezxml.c, have
\* a block to resize: of the null pointer the program would rename the dummy header.
StartRealloc(t) ==
  /\ Ready(t) /\ calls[t] > 0
  /\ \E p \in own[t], size \in BlockSizes : \E a \in Unused \cup {p} :
       /\ heap' = [heap EXCEPT ![p] = NoBlock, ![a] = size]
       /\ own' = [own EXCEPT ![t] = (@ \ {p}) \cup {a}]
       /\ allocCall' = [allocCall EXCEPT ![t] = [op |-> "realloc", step |-> "check",
                                       ptr |-> p, ret |-> a, size |-> size]]
       /\ reused' = (reused \/ (a # p /\ Listed(a)))
  /\ calls' = [calls EXCEPT ![t] = @ - 1]
  /\ UNCHANGED <<stats, th_malloc_mutex, contexts>>

\* Mutant: the block goes back to the C library before its entry leaves the list.
StartFreeGivingBack(t) ==
  /\ Ready(t) /\ ~KeepsWorkload(t)
  /\ \E p \in own[t] :
       /\ heap' = [heap EXCEPT ![p] = NoBlock]
       /\ own' = [own EXCEPT ![t] = @ \ {p}]
       /\ allocCall' = [allocCall EXCEPT ![t] = [NoAlloc EXCEPT !.op = "free", !.step = "check", !.ptr = p]]
  /\ UNCHANGED <<calls, stats, th_malloc_mutex, contexts, reused>>

\* "It is valid to pass the null pointer to this function."
StartFree(t) ==
  /\ Ready(t) /\ ~KeepsWorkload(t)
  /\ \/ \E p \in own[t] :
          /\ own' = [own EXCEPT ![t] = @ \ {p}]
          /\ allocCall' = [allocCall EXCEPT ![t] = [NoAlloc EXCEPT !.op = "free", !.step = "check", !.ptr = p]]
          /\ UNCHANGED calls
     \/ /\ calls[t] > 0
        /\ allocCall' = [allocCall EXCEPT ![t] = [NoAlloc EXCEPT !.op = "free", !.step = "check"]]
        /\ calls' = [calls EXCEPT ![t] = @ - 1]
        /\ UNCHANGED own
  /\ UNCHANGED <<heap, stats, th_malloc_mutex, contexts, reused>>

-----------------------------------------------------------------------------

\* if (th_malloc_sizes==NULL) init_thmalloc_stats();
CheckInit(t) ==
  /\ allocCall[t].step = "check"
  /\ GoTo(t, IF th_malloc_sizes = <<>> THEN "init" ELSE "lock")
  /\ UNCHANGED <<heap, own, calls, stats, th_malloc_mutex, contexts, reused>>

\* al_mutex_init: whoever held the mutex holds it no more.
InitMutex(t) ==
  /\ allocCall[t].step = "init"
  /\ th_malloc_mutex' = Free
  /\ GoTo(t, "initLock")
  /\ UNCHANGED <<heap, own, calls, stats, contexts, reused>>

\* The dummy header is the entry of the null pointer.
InitStats(t) ==
  /\ allocCall[t].step = "initLock" /\ th_malloc_mutex = Free
  /\ th_malloc_total' = 0
  /\ th_malloc_sizes' = <<Entry(Null, 0)>> \o th_malloc_sizes
  /\ GoTo(t, "lock")
  /\ UNCHANGED <<heap, own, calls, th_malloc_max, th_malloc_mutex, contexts, reused>>

Lock(t) ==
  /\ allocCall[t].step = "lock" /\ th_malloc_mutex = Free
  /\ th_malloc_mutex' = t
  /\ GoTo(t, "account")
  /\ UNCHANGED <<heap, own, calls, stats, contexts, reused>>

Bigger(m, n) == IF m < n THEN n ELSE m

\* The same lines follow the C library's call in th_malloc_x, th_aligned_malloc_x and
\* th_calloc_x.
AccountAlloc(t) ==
  /\ allocCall[t].op = "alloc"
  /\ th_malloc_total' = th_malloc_total + allocCall[t].size
  /\ th_malloc_max' = Bigger(th_malloc_max, th_malloc_total')
  /\ th_malloc_sizes' = <<Entry(allocCall[t].ret, allocCall[t].size)>> \o th_malloc_sizes
  /\ allocCall' = [allocCall EXCEPT ![t] = NoAlloc]

\* Mutant: the maximum does not follow.
AccountReallocNoMax(t) ==
  /\ allocCall[t].op = "realloc"
  /\ LET i == Dsearch(allocCall[t].ptr)
     IN /\ th_malloc_total' = (th_malloc_total - th_malloc_sizes[i].info) + allocCall[t].size
        /\ th_malloc_sizes' = [th_malloc_sizes EXCEPT ![i] = Entry(allocCall[t].ret, allocCall[t].size)]
        /\ UNCHANGED th_malloc_max
  /\ allocCall' = [allocCall EXCEPT ![t] = NoAlloc]

AccountRealloc(t) ==
  /\ allocCall[t].op = "realloc"
  /\ IF Listed(allocCall[t].ptr)
     THEN LET i == Dsearch(allocCall[t].ptr)
          IN /\ th_malloc_total' = (th_malloc_total - th_malloc_sizes[i].info) + allocCall[t].size
             /\ th_malloc_max' = Bigger(th_malloc_max, th_malloc_total')
             /\ th_malloc_sizes' = [th_malloc_sizes EXCEPT ![i] = Entry(allocCall[t].ret, allocCall[t].size)]
     ELSE UNCHANGED stats
  /\ allocCall' = [allocCall EXCEPT ![t] = NoAlloc]

\* Mutant: ee_list_remove of the head instead of the entry.
AccountFreeHead(t) ==
  /\ allocCall[t].op = "free"
  /\ IF Listed(allocCall[t].ptr)
     THEN /\ th_malloc_total' = th_malloc_total - th_malloc_sizes[Dsearch(allocCall[t].ptr)].info
          /\ th_malloc_sizes' = Tail(th_malloc_sizes)
          /\ UNCHANGED th_malloc_max
     ELSE UNCHANGED stats
  /\ GoTo(t, "libc")

AccountFree(t) ==
  /\ allocCall[t].op = "free"
  /\ IF Listed(allocCall[t].ptr)
     THEN LET i == Dsearch(allocCall[t].ptr)
          IN /\ th_malloc_total' = th_malloc_total - th_malloc_sizes[i].info
             /\ th_malloc_sizes' = RemoveAt(th_malloc_sizes, i)
             /\ UNCHANGED th_malloc_max
     ELSE UNCHANGED stats
  /\ GoTo(t, "libc")

\* The statistics, and al_mutex_unlock.
Account(t) ==
  /\ allocCall[t].step = "account"
  /\ AccountAlloc(t) \/ AccountRealloc(t) \/ AccountFree(t)
  /\ th_malloc_mutex' = Free
  /\ UNCHANGED <<heap, own, calls, contexts, reused>>

\* free, after the lock: nobody can get the address before it left the list.
LibcFree(t) ==
  /\ allocCall[t].step = "libc"
  /\ heap' = IF allocCall[t].ptr = Null THEN heap ELSE [heap EXCEPT ![allocCall[t].ptr] = NoBlock]
  /\ allocCall' = [allocCall EXCEPT ![t] = NoAlloc]
  /\ UNCHANGED <<own, calls, stats, th_malloc_mutex, contexts, reused>>

\* Mutant: the contexts start before anything is allocated.
StartContextsFirst ==
  /\ contexts = "alone" /\ allocCall[Main] = NoAlloc
  /\ contexts' = "running"
  /\ UNCHANGED <<heap, own, allocCall, calls, stats, th_malloc_mutex, reused>>

\* main keeps the workload while the contexts run.
StartContexts ==
  /\ contexts = "alone" /\ allocCall[Main] = NoAlloc /\ own[Main] # {}
  /\ contexts' = "running"
  /\ UNCHANGED <<heap, own, allocCall, calls, stats, th_malloc_mutex, reused>>

\* A context has released what it has before it exits (KernelLife!NothingLeaks).
JoinContexts ==
  /\ contexts = "running"
  /\ \A w \in Workers : allocCall[w] = NoAlloc /\ own[w] = {}
  /\ contexts' = "joined"
  /\ UNCHANGED <<heap, own, allocCall, calls, stats, th_malloc_mutex, reused>>

HeapEnded ==
  /\ contexts = "joined" /\ own[Main] = {} /\ allocCall[Main] = NoAlloc
  /\ UNCHANGED heapVars

Step(t) ==
  \/ StartAlloc(t) \/ StartRealloc(t) \/ StartFree(t)
  \/ CheckInit(t) \/ InitMutex(t) \/ InitStats(t) \/ Lock(t) \/ Account(t) \/ LibcFree(t)

HeapNext == (\E t \in Threads : Step(t)) \/ StartContexts \/ JoinContexts \/ HeapEnded

HeapSpec == HeapInit /\ [][HeapNext]_heapVars

-----------------------------------------------------------------------------
(* Properties.                                                             *)

\* The sums of the first 0, 1, ... sizes of a list.
Sums(sizes) ==
  LET Sum[n \in 0..Len(sizes)] == IF n = 0 THEN 0 ELSE Sum[n - 1] + sizes[n].info
  IN  Sum

SumOfSizes == Sums(th_malloc_sizes)[Len(th_malloc_sizes)]

\* No call is between the C library and the statistics.
BetweenCalls == \A t \in Threads : allocCall[t] = NoAlloc

\* The total is the sum of the list, so that no release can take it below 0,
\* and it has never been above the maximum reported at the end.
TotalIsSum == th_malloc_total = SumOfSizes /\ th_malloc_total <= th_malloc_max

\* The list has no address that the C library may hand out, but for one that a
\* realloc under way has left; and between calls it has every allocated block once
\* and no other, also after a realloc whose old address another thread got meanwhile.
ListIsHeap ==
  /\ \A a \in Unused : Listed(a) => \E t \in Threads : allocCall[t].op = "realloc" /\ allocCall[t].ptr = a
  /\ BetweenCalls =>
       /\ \A a \in Addrs : heap[a] # NoBlock <=> Listed(a)
       /\ \A i, j \in DOMAIN th_malloc_sizes :
            i # j => th_malloc_sizes[i].data # th_malloc_sizes[j].data

\* Between calls the total is what the callers asked for (of calloc, the size
\* of one member), unless an address was used again before realloc had told
\* the list that its block moved.
TotalIsAsked ==
  BetweenCalls /\ ~reused => th_malloc_total = MapThenSumSet(LAMBDA a : heap[a], Addrs)

\* The statistics are initialised when no other thread can be using them:
\* who accounts holds the mutex.
AccountsLocked ==
  \A t \in Threads :
    /\ allocCall[t].step = "account" => th_malloc_mutex = t
    /\ allocCall[t].step \in {"init", "initLock"} => \A u \in Threads \ {t} : allocCall[u] = NoAlloc

=============================================================================
