--------------------------- MODULE WorkPool_proofs ---------------------------
(***************************************************************************)
(* Proofs about the thread pool of WorkPool, for any number of contexts,   *)
(* items and iterations, with and without chains.                          *)
(***************************************************************************)
EXTENDS WorkPool, FiniteSetTheorems, TLAPS

-----------------------------------------------------------------------------
(* The inductive invariant.                                                *)

\* Where a thread holds mith_mutex; between GetNext and Assign it has chosen
\* an item that is not yet counted as assigned.
Choosing == {"chainStart", "chainOwn", "assign"}
Critical == Choosing \cup {"next", "record"}

MutexInv == \A t \in Contexts : pc[t] \in Critical <=> mithMutex = t

\* The item in a thread's hands, and the iteration it took it for.
HoldInv ==
  \A t \in Contexts :
    /\ pc[t] \in Choosing \cup Working => item[t] \in Items
    /\ pc[t] \in Choosing => /\ inst[t] = assigned[item[t]]
                             /\ assigned[item[t]] < Required
    /\ pc[t] \in Working => inst[t] < assigned[item[t]]

\* The counters do not change between being read and being written.
SeenInv ==
  \A t \in Contexts : pc[t] = "record" =>
    /\ seen[t].finished = finished[item[t]]
    /\ seen[t].failed = failed[item[t]]

\* Item n is the next one to be assigned, in iteration q of the workload: the
\* items before it have been assigned once more than the others.
NextIs(n, q) == \A i \in Items : assigned[i] = IF i < n THEN q + 1 ELSE q

RoundInv ==
  /\ (\A t \in Contexts : pc[t] \notin Choosing) =>
       \E q \in 0..Required : NextIs(nextIdx, q)
  /\ \A t \in Contexts : pc[t] \in Choosing =>
       /\ nextIdx = IF item[t] = MaxIdx - 1 THEN 0 ELSE item[t] + 1
       /\ \E q \in 0..Required : NextIs(item[t], q)

\* A thread leaves when there is nothing left to assign.
ExitInv ==
  \A t \in Contexts : pc[t] = "exited" => \A i \in Items : assigned[i] = Required

MainInv ==
  /\ mainPc = "create" => created < NumContexts
  /\ \A t \in Contexts : t >= created => pc[t] = "none"
  /\ mainPc \in {"create", "join"} =>
       joined < NumContexts /\ \A t \in Contexts : t < joined => pc[t] = "exited"
  /\ mainPc \in {"report", "done"} => \A t \in Contexts : pc[t] = "exited"

IInv == /\ TypeOK
        /\ MutexInv
        /\ HoldInv
        /\ SeenInv
        /\ RoundInv
        /\ ExitInv
        /\ MainInv
        /\ Conservation
        /\ NoIterationTwice

-----------------------------------------------------------------------------
(* Facts about the constants and the round-robin search.                   *)

\* Two numbers are in one order or the other, or the same.
LEMMA NaturalsCompare == \A x, y \in Nat : x < y \/ x = y \/ x > y
OBVIOUS

\* The types of the constants and of what is defined from them.
LEMMA Constants ==
  /\ NumContexts \in Nat /\ NumContexts > 0
  /\ MaxIdx \in Nat /\ MaxIdx > 0
  /\ Required \in Nat /\ Required > 0
  /\ MCL \in Nat
  /\ \A t \in Contexts : t \in Nat
  /\ \A i \in Items : i \in Nat
  /\ NoThread \notin Contexts /\ NoItem \notin Items
  /\ Verdicts \subseteq 0..1
BY PoolAssumption DEF Required, Contexts, Items, NoThread, NoItem

\* next_idx below max_idx is its own remainder.
LEMMA ModSmall ==
  ASSUME NEW m \in Nat, m > 0, NEW x \in 0..(m - 1)
  PROVE  x % m = x
OBVIOUS

\* Behind the last item comes the first.
LEMMA ModSelf ==
  ASSUME NEW m \in Nat, m > 0
  PROVE  m % m = 0
OBVIOUS

\* A remainder indexes load[].
LEMMA ModRange ==
  ASSUME NEW m \in Nat, m > 0, NEW x \in Nat
  PROVE  x % m \in 0..(m - 1)
OBVIOUS

\* The search looks at one item: the one at next_idx, if anything is left.
LEMMA Search ==
  ASSUME TypeOK, RoundInv, Conservation,
         \A t \in Contexts : pc[t] \notin Choosing
  PROVE  /\ Assignable # {} =>
              /\ Slot(First) = nextIdx
              /\ Slot(First + 1) = IF nextIdx = MaxIdx - 1 THEN 0 ELSE nextIdx + 1
              /\ assigned[nextIdx] < Required
         /\ Assignable = {} => \A i \in Items : assigned[i] = Required
<1>1. PICK q \in 0..Required : NextIs(nextIdx, q)
  BY DEF RoundInv
<1>2. /\ nextIdx \in 0..(MaxIdx - 1)
      /\ nextIdx \in Items
      /\ assigned \in [Items -> Nat]
      /\ assigned[nextIdx] = q
  BY <1>1, Constants DEF TypeOK, Items, NextIs
<1>3. /\ Slot(0) = nextIdx
      /\ Slot(1) = IF nextIdx = MaxIdx - 1 THEN 0 ELSE nextIdx + 1
  <2>1. Slot(0) = nextIdx
    BY <1>2, Constants, ModSmall DEF Slot
  <2>2. ASSUME nextIdx = MaxIdx - 1
        PROVE  Slot(1) = 0
    BY <2>2, Constants, ModSelf DEF Slot
  <2>3. ASSUME nextIdx # MaxIdx - 1
        PROVE  Slot(1) = nextIdx + 1
    <3>1. nextIdx + 1 \in 0..(MaxIdx - 1)
      BY <2>3, <1>2, Constants
    <3> QED  BY <3>1, Constants, ModSmall DEF Slot
  <2> QED  BY <2>1, <2>2, <2>3
<1>4. ASSUME Assignable # {}
      PROVE  0 \in Assignable
  <2>1. PICK k \in 0..(MaxIdx - 1) : assigned[Slot(k)] < Required
    BY <1>4 DEF Assignable
  <2>2. Slot(k) \in Items
    BY <1>2, <2>1, Constants, ModRange DEF Slot, Items
  <2>3. PICK i \in Items : assigned[i] < Required
    BY <2>1, <2>2
  <2>4. q < Required
    <3>1. assigned[i] = IF i < nextIdx THEN q + 1 ELSE q
      BY <1>1, <2>3 DEF NextIs
    <3> QED  BY <2>3, <3>1, Constants
  <2> QED  BY <1>2, <1>3, <2>4, Constants DEF Assignable
<1>5. ASSUME Assignable # {}
      PROVE  First = 0
  <2>1. \A j \in Assignable : 0 <= j
    BY DEF Assignable
  <2>2. \E k \in Assignable : \A j \in Assignable : k <= j
    BY <1>4, <1>5, <2>1
  <2>3. First \in Assignable /\ First <= 0
    BY <1>4, <1>5, <2>2 DEF First
  <2> QED  BY <2>3 DEF Assignable
<1>6. ASSUME Assignable = {}
      PROVE  \A i \in Items : assigned[i] = Required
  <2>1. q = Required
    BY <1>1, <1>2, <1>3, <1>6, Constants DEF Assignable
  <2> QED  BY <1>1, <2>1, Constants DEF NextIs, Conservation
<1> QED
  <2>1. ASSUME Assignable # {}
        PROVE  /\ Slot(First) = nextIdx
               /\ Slot(First + 1) = IF nextIdx = MaxIdx - 1 THEN 0 ELSE nextIdx + 1
               /\ assigned[nextIdx] < Required
    BY <1>2, <1>3, <1>4, <1>5, <2>1 DEF Assignable
  <2> QED  BY <1>6, <2>1

-----------------------------------------------------------------------------
(* What the two actions that use the search or a branch do.                *)

\* mith_wl_get_next, under mith_mutex: it gives the item at next_idx in its
\* next iteration and moves next_idx on by one.
LEMMA GetNextEffect ==
  ASSUME IInv, NEW t \in Contexts, GetNext(t)
  PROVE  /\ pc[t] = "next" /\ nextIdx \in Items /\ assigned[nextIdx] < Required
         /\ \A u \in Contexts : pc[u] \notin Choosing
         /\ \E p \in Choosing : pc' = [pc EXCEPT ![t] = p]
         /\ item' = [item EXCEPT ![t] = nextIdx]
         /\ inst' = [inst EXCEPT ![t] = assigned[nextIdx]]
         /\ nextIdx' = IF nextIdx = MaxIdx - 1 THEN 0 ELSE nextIdx + 1
         /\ UNCHANGED <<mithMutex, assigned, finished, failed, chainMutex,
                        verdict, endIdx, seen, mainPc, created, joined, bad>>
<1>1. /\ pc[t] = "next"
      /\ \A u \in Contexts : pc[u] \notin Choosing
  BY DEF IInv, MutexInv, Critical, Choosing, GetNext
<1>2. Assignable # {}
  BY DEF GetNext
<1>3. /\ Slot(First) = nextIdx
      /\ Slot(First + 1) = IF nextIdx = MaxIdx - 1 THEN 0 ELSE nextIdx + 1
      /\ assigned[nextIdx] < Required
  BY <1>1, <1>2, Search DEF IInv
<1>4. \E p \in Choosing : pc' = [pc EXCEPT ![t] = p]
  BY DEF GetNext, Choosing
<1> QED
  BY <1>1, <1>3, <1>4 DEF GetNext, mainVars, IInv, TypeOK

\* The assignment counts the item the thread has chosen and leads to the
\* chain's mutexes or to the bench function.
LEMMA AssignEffect ==
  ASSUME IInv, NEW t \in Contexts, Assign(t)
  PROVE  /\ pc[t] = "assign" /\ mithMutex = t
         /\ item[t] \in Items /\ inst[t] = assigned[item[t]]
         /\ assigned[item[t]] < Required
         /\ \E p \in {"chainReady", "chainDone", "relock", "bench"} :
              pc' = [pc EXCEPT ![t] = p]
         /\ assigned' = [assigned EXCEPT ![item[t]] = @ + 1]
         /\ mithMutex' = NoThread
         /\ UNCHANGED <<nextIdx, finished, failed, chainMutex, item, inst, verdict,
                        endIdx, seen, mainPc, created, joined, bad>>
<1>1. pc[t] = "assign"
  BY DEF Assign
<1>2. /\ mithMutex = t
      /\ item[t] \in Items /\ inst[t] = assigned[item[t]]
      /\ assigned[item[t]] < Required
  BY <1>1 DEF IInv, MutexInv, HoldInv, Critical, Choosing
<1>3. \E p \in {"chainReady", "chainDone", "relock", "bench"} :
        pc' = [pc EXCEPT ![t] = p]
  BY DEF Assign, Execute
<1> QED
  BY <1>1, <1>2, <1>3 DEF Assign, mainVars, localVars

-----------------------------------------------------------------------------
(* Every step preserves every part of the invariant.                       *)

\* Every step keeps the types.
LEMMA TypeStep ==
  ASSUME IInv, [Next]_vars
  PROVE  TypeOK'
<1> USE Constants DEF IInv, TypeOK, PcValues
<1>1. ASSUME NEW t \in Contexts, LockToGet(t)
      PROVE  TypeOK'
  BY <1>1 DEF LockToGet, Goto, localVars, mainVars
<1>2. ASSUME NEW t \in Contexts, GetNext(t)
      PROVE  TypeOK'
  <2>1. nextIdx' \in Items
    <3>1. /\ nextIdx \in Items
          /\ nextIdx' = IF nextIdx = MaxIdx - 1 THEN 0 ELSE nextIdx + 1
      BY <1>2, GetNextEffect
    <3> QED  BY <3>1 DEF Items
  <2>2. item' \in [Contexts -> Items \cup {NoItem}] /\ inst' \in [Contexts -> Nat]
    <3>1. /\ nextIdx \in Items /\ assigned[nextIdx] \in Nat
          /\ item' = [item EXCEPT ![t] = nextIdx]
          /\ inst' = [inst EXCEPT ![t] = assigned[nextIdx]]
      BY <1>2, GetNextEffect
    <3>2. item' \in [Contexts -> Items \cup {NoItem}]
      BY <3>1
    <3>3. inst' \in [Contexts -> Nat]
      BY <3>1
    <3> QED  BY <3>2, <3>3
  <2>3. pc' \in [Contexts -> PcValues]
    BY <1>2, GetNextEffect DEF Choosing
  <2> QED  BY <1>2, <2>1, <2>2, <2>3, GetNextEffect
<1>3. ASSUME NEW t \in Contexts, GetNone(t)
      PROVE  TypeOK'
  BY <1>3 DEF GetNone, Goto, mainVars
<1>4. ASSUME NEW t \in Contexts, LockStart(t)
      PROVE  TypeOK'
  BY <1>4 DEF LockStart, Goto, LockChain, localVars, mainVars
<1>5. ASSUME NEW t \in Contexts, LockOwn(t)
      PROVE  TypeOK'
  BY <1>5 DEF LockOwn, Goto, LockChain, localVars, mainVars
<1>6. ASSUME NEW t \in Contexts, Assign(t)
      PROVE  TypeOK'
  <2>1. assigned' \in [Items -> Nat]
    BY <1>6, AssignEffect
  <2>2. pc' \in [Contexts -> PcValues]
    BY <1>6, AssignEffect
  <2> QED  BY <1>6, <2>1, <2>2, AssignEffect
<1>7. ASSUME NEW t \in Contexts, ReleaseStart(t)
      PROVE  TypeOK'
  BY <1>7 DEF ReleaseStart, Goto, UnlockChain, localVars, mainVars
<1>8. ASSUME NEW t \in Contexts, WaitStart(t)
      PROVE  TypeOK'
  BY <1>8 DEF WaitStart, Goto, Execute, poolVars, localVars, mainVars
<1>9. ASSUME NEW t \in Contexts, Bench(t)
      PROVE  TypeOK'
  <2>1. PICK f \in 0..1 : /\ verdict' = [verdict EXCEPT ![t] = f]
                          /\ bad' = [bad EXCEPT ![item[t]] = @ + f]
    BY <1>9 DEF Bench
  <2>2. item[t] \in Items
    BY <1>9 DEF Bench, Goto, HoldInv, Working
  <2>3. verdict' \in [Contexts -> 0..1]
    BY <2>1
  <2>4. bad' \in [Items -> Nat]
    <3>1. f \in Nat
      BY <2>1
    <3>2. bad \in [Items -> Nat]
      OBVIOUS
    <3>3. bad[item[t]] \in Nat
      BY <2>2, <3>2
    <3>4. bad[item[t]] + f \in Nat
      BY <3>1, <3>3
    <3> QED  BY <2>1, <3>2, <3>4
  <2>5. pc' \in [Contexts -> PcValues]
    BY <1>9 DEF Bench, Goto
  <2> QED  BY <1>9, <2>3, <2>4, <2>5 DEF Bench, poolVars, mainVars
<1>10. ASSUME NEW t \in Contexts, UnlockOwn(t)
      PROVE  TypeOK'
  <2>1. chainMutex' \in [Cells -> Contexts \cup {NoThread}]
    BY <1>10 DEF UnlockOwn, UnlockChain
  <2>2. endIdx' \in [Contexts -> 0..MCL]
    BY <1>10 DEF UnlockOwn
  <2>3. pc' \in [Contexts -> PcValues]
    BY <1>10 DEF UnlockOwn, Goto
  <2> QED  BY <1>10, <2>1, <2>2, <2>3 DEF UnlockOwn, mainVars
<1>11. ASSUME NEW t \in Contexts, WaitEnd(t)
      PROVE  TypeOK'
  BY <1>11 DEF WaitEnd, poolVars, mainVars
<1>12. ASSUME NEW t \in Contexts, LockToRecord(t)
      PROVE  TypeOK'
  <2>1. item[t] \in Items
    BY <1>12 DEF LockToRecord, Goto, HoldInv, Working
  <2>2. seen' \in [Contexts -> [finished : Nat, failed : Nat]]
    BY <1>12, <2>1 DEF LockToRecord
  <2>3. pc' \in [Contexts -> PcValues]
    BY <1>12 DEF LockToRecord, Goto
  <2> QED  BY <1>12, <2>2, <2>3 DEF LockToRecord, mainVars
<1>13. ASSUME NEW t \in Contexts, Record(t)
      PROVE  TypeOK'
  <2>1. item[t] \in Items
    BY <1>13 DEF Record, Goto, HoldInv, Working
  <2>2. finished' \in [Items -> Nat] /\ failed' \in [Items -> Nat]
    BY <1>13, <2>1 DEF Record
  <2>3. pc' \in [Contexts -> PcValues] /\ item' \in [Contexts -> Items \cup {NoItem}]
    BY <1>13 DEF Record, Goto
  <2>4. /\ inst' \in [Contexts -> Nat] /\ endIdx' \in [Contexts -> 0..MCL]
        /\ seen' \in [Contexts -> [finished : Nat, failed : Nat]]
    BY <1>13 DEF Record, NotSeen
  <2> QED  BY <1>13, <2>2, <2>3, <2>4 DEF Record, mainVars
<1>14. CASE CreateThread
  <2>1. created < NumContexts
    BY <1>14 DEF CreateThread, MainInv
  <2>2. pc' \in [Contexts -> PcValues]
    BY <1>14 DEF CreateThread
  <2> QED  BY <1>14, <2>1, <2>2 DEF CreateThread, poolVars, localVars
<1>15. CASE JoinThread
  <2>1. joined < NumContexts
    BY <1>15 DEF JoinThread, MainInv
  <2> QED  BY <1>15, <2>1 DEF JoinThread, poolVars, localVars
<1>16. CASE ReportResults
  BY <1>16 DEF ReportResults, poolVars, localVars
<1>17. CASE UNCHANGED vars
  BY <1>17 DEF vars, poolVars, localVars, mainVars
<1> QED
  BY <1>1, <1>2, <1>3, <1>4, <1>5, <1>6, <1>7, <1>8, <1>9, <1>10, <1>11, <1>12, <1>13, <1>14, <1>15, <1>16, <1>17 DEF Next, Thread, Main, Ended

\* Every step keeps mith_mutex with the one thread in a critical section.
LEMMA MutexStep ==
  ASSUME IInv, [Next]_vars
  PROVE  MutexInv'
<1> USE Constants DEF IInv, TypeOK, MutexInv, Critical, Choosing
<1>1. ASSUME NEW t \in Contexts, LockToGet(t)
      PROVE  MutexInv'
  BY <1>1 DEF LockToGet, Goto, localVars, mainVars
<1>2. ASSUME NEW t \in Contexts, GetNext(t)
      PROVE  MutexInv'
  BY <1>2 DEF GetNext, mainVars
<1>3. ASSUME NEW t \in Contexts, GetNone(t)
      PROVE  MutexInv'
  BY <1>3 DEF GetNone, Goto, mainVars
<1>4. ASSUME NEW t \in Contexts, LockStart(t)
      PROVE  MutexInv'
  BY <1>4 DEF LockStart, Goto, LockChain, localVars, mainVars
<1>5. ASSUME NEW t \in Contexts, LockOwn(t)
      PROVE  MutexInv'
  BY <1>5 DEF LockOwn, Goto, LockChain, localVars, mainVars
<1>6. ASSUME NEW t \in Contexts, Assign(t)
      PROVE  MutexInv'
  BY <1>6 DEF Assign, Execute, localVars, mainVars
<1>7. ASSUME NEW t \in Contexts, ReleaseStart(t)
      PROVE  MutexInv'
  BY <1>7 DEF ReleaseStart, Goto, UnlockChain, localVars, mainVars
<1>8. ASSUME NEW t \in Contexts, WaitStart(t)
      PROVE  MutexInv'
  BY <1>8 DEF WaitStart, Goto, Execute, poolVars, localVars, mainVars
<1>9. ASSUME NEW t \in Contexts, Bench(t)
      PROVE  MutexInv'
  BY <1>9 DEF Bench, Goto, poolVars, mainVars
<1>10. ASSUME NEW t \in Contexts, UnlockOwn(t)
      PROVE  MutexInv'
  BY <1>10 DEF UnlockOwn, Goto, UnlockChain, mainVars
<1>11. ASSUME NEW t \in Contexts, WaitEnd(t)
      PROVE  MutexInv'
  BY <1>11 DEF WaitEnd, poolVars, mainVars
<1>12. ASSUME NEW t \in Contexts, LockToRecord(t)
      PROVE  MutexInv'
  BY <1>12 DEF LockToRecord, Goto, mainVars
<1>13. ASSUME NEW t \in Contexts, Record(t)
      PROVE  MutexInv'
  BY <1>13 DEF Record, Goto, mainVars
<1>14. CASE CreateThread
  <2>1. created \in Contexts /\ pc[created] = "none"
    BY <1>14 DEF CreateThread, MainInv, Contexts
  <2> QED  BY <1>14, <2>1 DEF CreateThread, poolVars, localVars
<1>15. CASE JoinThread
  BY <1>15 DEF JoinThread, poolVars, localVars
<1>16. CASE ReportResults
  BY <1>16 DEF ReportResults, poolVars, localVars
<1>17. CASE UNCHANGED vars
  BY <1>17 DEF vars, poolVars, localVars, mainVars
<1> QED
  BY <1>1, <1>2, <1>3, <1>4, <1>5, <1>6, <1>7, <1>8, <1>9, <1>10, <1>11, <1>12, <1>13, <1>14, <1>15, <1>16, <1>17 DEF Next, Thread, Main, Ended

\* Every step keeps what a working thread knows of its item.
LEMMA HoldStep ==
  ASSUME IInv, [Next]_vars
  PROVE  HoldInv'
<1> USE Constants DEF IInv, TypeOK, HoldInv, MutexInv, Critical, Choosing, Working
<1>1. ASSUME NEW t \in Contexts, LockToGet(t)
      PROVE  HoldInv'
  BY <1>1 DEF LockToGet, Goto, localVars, mainVars
<1>2. ASSUME NEW t \in Contexts, GetNext(t)
      PROVE  HoldInv'
  BY <1>2, GetNextEffect
<1>3. ASSUME NEW t \in Contexts, GetNone(t)
      PROVE  HoldInv'
  BY <1>3 DEF GetNone, Goto, mainVars
<1>4. ASSUME NEW t \in Contexts, LockStart(t)
      PROVE  HoldInv'
  BY <1>4 DEF LockStart, Goto, LockChain, localVars, mainVars
<1>5. ASSUME NEW t \in Contexts, LockOwn(t)
      PROVE  HoldInv'
  BY <1>5 DEF LockOwn, Goto, LockChain, localVars, mainVars
<1>6. ASSUME NEW t \in Contexts, Assign(t)
      PROVE  HoldInv'
  <2> SUFFICES ASSUME NEW u \in Contexts
               PROVE  /\ pc'[u] \in Choosing \cup Working => item'[u] \in Items
                      /\ pc'[u] \in Choosing => /\ inst'[u] = assigned'[item'[u]]
                                               /\ assigned'[item'[u]] < Required
                      /\ pc'[u] \in Working => inst'[u] < assigned'[item'[u]]
    OBVIOUS
  <2>1. CASE u = t
    BY <1>6, <2>1, AssignEffect
  <2>2. CASE u # t
    <3>1. pc'[u] = pc[u] /\ pc[u] \notin Choosing /\ item' = item /\ inst' = inst
      BY <1>6, <2>2, AssignEffect
    <3>2. \A i \in Items : assigned'[i] >= assigned[i]
      BY <1>6, AssignEffect
    <3>3. ASSUME pc[u] \in Working
          PROVE  inst[u] < assigned'[item[u]]
      <4>1. item[u] \in Items /\ inst[u] < assigned[item[u]]
        BY <3>3
      <4>2. assigned[item[u]] \in Nat /\ inst[u] \in Nat /\ assigned'[item[u]] \in Nat
        <5>1. assigned' \in [Items -> Nat]
          BY <1>6, AssignEffect
        <5> QED  BY <4>1, <5>1
      <4>3. assigned'[item[u]] >= assigned[item[u]]
        BY <4>1, <3>2
      <4> QED  BY <4>1, <4>2, <4>3
    <3> QED  BY <3>1, <3>3
  <2> QED  BY <2>1, <2>2
<1>7. ASSUME NEW t \in Contexts, ReleaseStart(t)
      PROVE  HoldInv'
  BY <1>7 DEF ReleaseStart, Goto, UnlockChain, localVars, mainVars
<1>8. ASSUME NEW t \in Contexts, WaitStart(t)
      PROVE  HoldInv'
  BY <1>8 DEF WaitStart, Goto, Execute, poolVars, localVars, mainVars
<1>9. ASSUME NEW t \in Contexts, Bench(t)
      PROVE  HoldInv'
  BY <1>9 DEF Bench, Goto, poolVars, mainVars
<1>10. ASSUME NEW t \in Contexts, UnlockOwn(t)
      PROVE  HoldInv'
  BY <1>10 DEF UnlockOwn, Goto, UnlockChain, mainVars
<1>11. ASSUME NEW t \in Contexts, WaitEnd(t)
      PROVE  HoldInv'
  BY <1>11 DEF WaitEnd, poolVars, mainVars
<1>12. ASSUME NEW t \in Contexts, LockToRecord(t)
      PROVE  HoldInv'
  BY <1>12 DEF LockToRecord, Goto, mainVars
<1>13. ASSUME NEW t \in Contexts, Record(t)
      PROVE  HoldInv'
  BY <1>13 DEF Record, Goto, mainVars
<1>14. CASE CreateThread
  BY <1>14 DEF CreateThread, poolVars, localVars
<1>15. CASE JoinThread
  BY <1>15 DEF JoinThread, poolVars, localVars
<1>16. CASE ReportResults
  BY <1>16 DEF ReportResults, poolVars, localVars
<1>17. CASE UNCHANGED vars
  BY <1>17 DEF vars, poolVars, localVars, mainVars
<1> QED
  BY <1>1, <1>2, <1>3, <1>4, <1>5, <1>6, <1>7, <1>8, <1>9, <1>10, <1>11, <1>12, <1>13, <1>14, <1>15, <1>16, <1>17 DEF Next, Thread, Main, Ended

\* The counters a thread has read stay current until it writes them.
LEMMA SeenStep ==
  ASSUME IInv, [Next]_vars
  PROVE  SeenInv'
<1> USE Constants DEF IInv, TypeOK, HoldInv, SeenInv, MutexInv, Critical, Choosing, Working
<1>1. ASSUME NEW t \in Contexts, LockToGet(t)
      PROVE  SeenInv'
  BY <1>1 DEF LockToGet, Goto, localVars, mainVars
<1>2. ASSUME NEW t \in Contexts, GetNext(t)
      PROVE  SeenInv'
  BY <1>2, GetNextEffect
<1>3. ASSUME NEW t \in Contexts, GetNone(t)
      PROVE  SeenInv'
  BY <1>3 DEF GetNone, Goto, mainVars
<1>4. ASSUME NEW t \in Contexts, LockStart(t)
      PROVE  SeenInv'
  BY <1>4 DEF LockStart, Goto, LockChain, localVars, mainVars
<1>5. ASSUME NEW t \in Contexts, LockOwn(t)
      PROVE  SeenInv'
  BY <1>5 DEF LockOwn, Goto, LockChain, localVars, mainVars
<1>6. ASSUME NEW t \in Contexts, Assign(t)
      PROVE  SeenInv'
  BY <1>6, AssignEffect
<1>7. ASSUME NEW t \in Contexts, ReleaseStart(t)
      PROVE  SeenInv'
  BY <1>7 DEF ReleaseStart, Goto, UnlockChain, localVars, mainVars
<1>8. ASSUME NEW t \in Contexts, WaitStart(t)
      PROVE  SeenInv'
  BY <1>8 DEF WaitStart, Goto, Execute, poolVars, localVars, mainVars
<1>9. ASSUME NEW t \in Contexts, Bench(t)
      PROVE  SeenInv'
  BY <1>9 DEF Bench, Goto, poolVars, mainVars
<1>10. ASSUME NEW t \in Contexts, UnlockOwn(t)
      PROVE  SeenInv'
  BY <1>10 DEF UnlockOwn, Goto, UnlockChain, mainVars
<1>11. ASSUME NEW t \in Contexts, WaitEnd(t)
      PROVE  SeenInv'
  BY <1>11 DEF WaitEnd, poolVars, mainVars
<1>12. ASSUME NEW t \in Contexts, LockToRecord(t)
      PROVE  SeenInv'
  BY <1>12 DEF LockToRecord, Goto, mainVars
<1>13. ASSUME NEW t \in Contexts, Record(t)
      PROVE  SeenInv'
  BY <1>13 DEF Record, Goto, mainVars
<1>14. CASE CreateThread
  BY <1>14 DEF CreateThread, poolVars, localVars
<1>15. CASE JoinThread
  BY <1>15 DEF JoinThread, poolVars, localVars
<1>16. CASE ReportResults
  BY <1>16 DEF ReportResults, poolVars, localVars
<1>17. CASE UNCHANGED vars
  BY <1>17 DEF vars, poolVars, localVars, mainVars
<1> QED
  BY <1>1, <1>2, <1>3, <1>4, <1>5, <1>6, <1>7, <1>8, <1>9, <1>10, <1>11, <1>12, <1>13, <1>14, <1>15, <1>16, <1>17 DEF Next, Thread, Main, Ended

\* A thread that leaves the loop leaves nothing behind to assign.
LEMMA ExitStep ==
  ASSUME IInv, [Next]_vars
  PROVE  ExitInv'
<1> USE Constants DEF IInv, TypeOK, ExitInv, HoldInv, Choosing
<1>1. ASSUME NEW t \in Contexts, LockToGet(t)
      PROVE  ExitInv'
  BY <1>1 DEF LockToGet, Goto, localVars, mainVars
<1>2. ASSUME NEW t \in Contexts, GetNext(t)
      PROVE  ExitInv'
  BY <1>2, GetNextEffect
<1>3. ASSUME NEW t \in Contexts, GetNone(t)
      PROVE  ExitInv'
  <2>1. \A u \in Contexts : pc[u] \notin Choosing
    BY <1>3 DEF GetNone, Goto, MutexInv, Critical
  <2>2. \A i \in Items : assigned[i] = Required
    BY <1>3, <2>1, Search DEF GetNone
  <2> QED  BY <1>3, <2>2 DEF GetNone, Goto, mainVars
<1>4. ASSUME NEW t \in Contexts, LockStart(t)
      PROVE  ExitInv'
  BY <1>4 DEF LockStart, Goto, LockChain, localVars, mainVars
<1>5. ASSUME NEW t \in Contexts, LockOwn(t)
      PROVE  ExitInv'
  BY <1>5 DEF LockOwn, Goto, LockChain, localVars, mainVars
<1>6. ASSUME NEW t \in Contexts, Assign(t)
      PROVE  ExitInv'
  BY <1>6, AssignEffect
<1>7. ASSUME NEW t \in Contexts, ReleaseStart(t)
      PROVE  ExitInv'
  BY <1>7 DEF ReleaseStart, Goto, UnlockChain, localVars, mainVars
<1>8. ASSUME NEW t \in Contexts, WaitStart(t)
      PROVE  ExitInv'
  BY <1>8 DEF WaitStart, Goto, Execute, poolVars, localVars, mainVars
<1>9. ASSUME NEW t \in Contexts, Bench(t)
      PROVE  ExitInv'
  BY <1>9 DEF Bench, Goto, poolVars, mainVars
<1>10. ASSUME NEW t \in Contexts, UnlockOwn(t)
      PROVE  ExitInv'
  BY <1>10 DEF UnlockOwn, Goto, UnlockChain, mainVars
<1>11. ASSUME NEW t \in Contexts, WaitEnd(t)
      PROVE  ExitInv'
  BY <1>11 DEF WaitEnd, poolVars, mainVars
<1>12. ASSUME NEW t \in Contexts, LockToRecord(t)
      PROVE  ExitInv'
  BY <1>12 DEF LockToRecord, Goto, mainVars
<1>13. ASSUME NEW t \in Contexts, Record(t)
      PROVE  ExitInv'
  BY <1>13 DEF Record, Goto, mainVars
<1>14. CASE CreateThread
  BY <1>14 DEF CreateThread, poolVars, localVars
<1>15. CASE JoinThread
  BY <1>15 DEF JoinThread, poolVars, localVars
<1>16. CASE ReportResults
  BY <1>16 DEF ReportResults, poolVars, localVars
<1>17. CASE UNCHANGED vars
  BY <1>17 DEF vars, poolVars, localVars, mainVars
<1> QED
  BY <1>1, <1>2, <1>3, <1>4, <1>5, <1>6, <1>7, <1>8, <1>9, <1>10, <1>11, <1>12, <1>13, <1>14, <1>15, <1>16, <1>17 DEF Next, Thread, Main, Ended

\* The main thread is beyond a join only when the thread has ended.
LEMMA MainStep ==
  ASSUME IInv, [Next]_vars
  PROVE  MainInv'
<1> USE Constants DEF IInv, TypeOK, MainInv
<1>1. ASSUME NEW t \in Contexts, LockToGet(t)
      PROVE  MainInv'
  BY <1>1 DEF LockToGet, Goto, localVars, mainVars
<1>2. ASSUME NEW t \in Contexts, GetNext(t)
      PROVE  MainInv'
  BY <1>2, GetNextEffect
<1>3. ASSUME NEW t \in Contexts, GetNone(t)
      PROVE  MainInv'
  BY <1>3 DEF GetNone, Goto, mainVars
<1>4. ASSUME NEW t \in Contexts, LockStart(t)
      PROVE  MainInv'
  BY <1>4 DEF LockStart, Goto, LockChain, localVars, mainVars
<1>5. ASSUME NEW t \in Contexts, LockOwn(t)
      PROVE  MainInv'
  BY <1>5 DEF LockOwn, Goto, LockChain, localVars, mainVars
<1>6. ASSUME NEW t \in Contexts, Assign(t)
      PROVE  MainInv'
  BY <1>6, AssignEffect
<1>7. ASSUME NEW t \in Contexts, ReleaseStart(t)
      PROVE  MainInv'
  BY <1>7 DEF ReleaseStart, Goto, UnlockChain, localVars, mainVars
<1>8. ASSUME NEW t \in Contexts, WaitStart(t)
      PROVE  MainInv'
  BY <1>8 DEF WaitStart, Goto, Execute, poolVars, localVars, mainVars
<1>9. ASSUME NEW t \in Contexts, Bench(t)
      PROVE  MainInv'
  BY <1>9 DEF Bench, Goto, poolVars, mainVars
<1>10. ASSUME NEW t \in Contexts, UnlockOwn(t)
      PROVE  MainInv'
  BY <1>10 DEF UnlockOwn, Goto, UnlockChain, mainVars
<1>11. ASSUME NEW t \in Contexts, WaitEnd(t)
      PROVE  MainInv'
  BY <1>11 DEF WaitEnd, poolVars, mainVars
<1>12. ASSUME NEW t \in Contexts, LockToRecord(t)
      PROVE  MainInv'
  BY <1>12 DEF LockToRecord, Goto, mainVars
<1>13. ASSUME NEW t \in Contexts, Record(t)
      PROVE  MainInv'
  BY <1>13 DEF Record, Goto, mainVars
<1>14. CASE CreateThread
  <2>1. /\ mainPc = "create" /\ created \in Contexts /\ created < NumContexts
        /\ created' = created + 1 /\ joined' = joined
        /\ pc' = [pc EXCEPT ![created] = "lock"]
        /\ mainPc' = IF created + 1 = NumContexts THEN "join" ELSE "create"
    BY <1>14 DEF CreateThread, Contexts
  <2>2. \A t \in Contexts : t >= created' => pc'[t] = "none"
    BY <2>1
  <2>3. mainPc' = "create" => created' < NumContexts
    BY <2>1
  <2>4. joined' < NumContexts /\ \A t \in Contexts : t < joined' => pc'[t] = "exited"
    <3>1. joined < NumContexts /\ \A t \in Contexts : t < joined => pc[t] = "exited"
      BY <2>1
    <3>2. pc[created] = "none"
      BY <2>1
    <3> QED  BY <2>1, <3>1, <3>2
  <2> QED  BY <2>1, <2>2, <2>3, <2>4
<1>15. CASE JoinThread
  <2>1. /\ mainPc = "join" /\ pc[joined] = "exited" /\ joined' = joined + 1
        /\ mainPc' = IF joined + 1 = NumContexts THEN "report" ELSE "join"
        /\ pc' = pc /\ created' = created
    BY <1>15 DEF JoinThread
  <2>2. \A t \in Contexts : t < joined + 1 => pc[t] = "exited"
    <3>1. joined \in Nat /\ \A t \in Contexts : t < joined => pc[t] = "exited"
      BY <2>1
    <3> HIDE DEF IInv
    <3>2. ASSUME NEW t \in Contexts, t < joined + 1
          PROVE  t < joined \/ t = joined
      BY <3>1, <3>2, Constants
    <3> QED  BY <2>1, <3>1, <3>2
  <2>3. joined + 1 = NumContexts => \A t \in Contexts : pc[t] = "exited"
    BY <2>2 DEF Contexts
  <2>4. joined + 1 <= NumContexts
    BY <2>1
  <2> QED  BY <2>1, <2>2, <2>3, <2>4
<1>16. CASE ReportResults
  BY <1>16 DEF ReportResults, poolVars, localVars
<1>17. CASE UNCHANGED vars
  BY <1>17 DEF vars, poolVars, localVars, mainVars
<1> QED
  BY <1>1, <1>2, <1>3, <1>4, <1>5, <1>6, <1>7, <1>8, <1>9, <1>10, <1>11, <1>12, <1>13, <1>14, <1>15, <1>16, <1>17 DEF Next, Thread, Main, Ended

\* A step that assigns nothing keeps the shape of assigned[].
LEMMA RoundFrame ==
  ASSUME RoundInv, UNCHANGED <<assigned, nextIdx>>,
         \A u \in Contexts : /\ pc'[u] \in Choosing <=> pc[u] \in Choosing
                             /\ pc[u] \in Choosing => item'[u] = item[u]
  PROVE  RoundInv'
<1>1. \A n, q : NextIs(n, q) => NextIs(n, q)'
  BY DEF NextIs
<1>2. ASSUME \A t \in Contexts : pc'[t] \notin Choosing
      PROVE  \E q \in 0..Required : NextIs(nextIdx, q)'
  <2>1. PICK q \in 0..Required : NextIs(nextIdx, q)
    BY <1>2 DEF RoundInv
  <2> QED  BY <2>1 DEF NextIs
<1>3. ASSUME NEW t \in Contexts, pc'[t] \in Choosing
      PROVE  /\ nextIdx' = IF item'[t] = MaxIdx - 1 THEN 0 ELSE item'[t] + 1
             /\ \E q \in 0..Required : NextIs(item[t], q)'
  <2>1. /\ nextIdx = IF item[t] = MaxIdx - 1 THEN 0 ELSE item[t] + 1
        /\ item'[t] = item[t]
    BY <1>3 DEF RoundInv
  <2>2. PICK q \in 0..Required : NextIs(item[t], q)
    BY <1>3 DEF RoundInv
  <2> QED  BY <2>1, <2>2 DEF NextIs
<1> QED  BY <1>2, <1>3 DEF RoundInv

\* Every step keeps assigned[] at one value up to next_idx and one less
\* behind it.
LEMMA RoundStep ==
  ASSUME IInv, [Next]_vars
  PROVE  RoundInv'
<1> USE Constants DEF IInv, TypeOK, MutexInv, Critical, Choosing
<1>1. ASSUME NEW t \in Contexts, LockToGet(t)
      PROVE  RoundInv'
  BY <1>1, RoundFrame DEF LockToGet, Goto, localVars, mainVars
<1>2. ASSUME NEW t \in Contexts, GetNext(t)
      PROVE  RoundInv'
  <2>1. PICK q \in 0..Required : NextIs(nextIdx, q)
    BY <1>2, GetNextEffect DEF RoundInv
  <2>2. /\ pc'[t] \in Choosing /\ item'[t] = nextIdx
        /\ \A u \in Contexts \ {t} : pc'[u] \notin Choosing
        /\ nextIdx' = IF nextIdx = MaxIdx - 1 THEN 0 ELSE nextIdx + 1
        /\ assigned' = assigned
    BY <1>2, GetNextEffect
  <2>3. NextIs(item[t], q)'
    BY <2>1, <2>2 DEF NextIs
  <2> QED  BY <2>2, <2>3 DEF RoundInv
<1>3. ASSUME NEW t \in Contexts, GetNone(t)
      PROVE  RoundInv'
  BY <1>3, RoundFrame DEF GetNone, Goto, mainVars
<1>4. ASSUME NEW t \in Contexts, LockStart(t)
      PROVE  RoundInv'
  BY <1>4, RoundFrame DEF LockStart, Goto, LockChain, localVars, mainVars
<1>5. ASSUME NEW t \in Contexts, LockOwn(t)
      PROVE  RoundInv'
  BY <1>5, RoundFrame DEF LockOwn, Goto, LockChain, localVars, mainVars
<1>6. ASSUME NEW t \in Contexts, Assign(t)
      PROVE  RoundInv'
  <2>1. PICK q \in 0..Required : NextIs(item[t], q)
    BY <1>6, AssignEffect DEF RoundInv
  <2>2. /\ nextIdx = IF item[t] = MaxIdx - 1 THEN 0 ELSE item[t] + 1
        /\ item[t] \in Items /\ assigned[item[t]] < Required
    BY <1>6, AssignEffect DEF RoundInv
  <2>3. assigned[item[t]] = q /\ q + 1 \in 0..Required
    BY <2>1, <2>2 DEF NextIs, Items
  <2>4. nextIdx' = nextIdx /\ assigned' = [assigned EXCEPT ![item[t]] = q + 1]
    BY <1>6, <2>3, AssignEffect
  <2>5. \A i \in Items : assigned'[i] = IF i <= item[t] THEN q + 1 ELSE q
    <3> SUFFICES ASSUME NEW i \in Items
                 PROVE  assigned'[i] = IF i <= item[t] THEN q + 1 ELSE q
      OBVIOUS
    <3>1. i \in Nat /\ item[t] \in Nat /\ q \in Nat
      BY <2>1, <2>2
    <3>2. assigned[i] = IF i < item[t] THEN q + 1 ELSE q
      BY <2>1 DEF NextIs
    <3>3. assigned'[i] = IF i = item[t] THEN q + 1 ELSE assigned[i]
      BY <2>2, <2>4
    <3>4. CASE i < item[t]
      BY <3>1, <3>2, <3>3, <3>4
    <3>5. CASE i = item[t]
      BY <3>3, <3>5
    <3>6. CASE i > item[t]
      BY <3>1, <3>2, <3>3, <3>6
    <3>7. i < item[t] \/ i = item[t] \/ i > item[t]
      BY <3>1, NaturalsCompare, Zenon
    <3> QED  BY <3>4, <3>5, <3>6, <3>7, Zenon
  <2>6. \E r \in 0..Required : NextIs(nextIdx, r)'
    <3>1. CASE item[t] = MaxIdx - 1
      <4>1. NextIs(nextIdx, q + 1)'
        BY <2>2, <2>4, <2>5, <3>1 DEF NextIs, Items
      <4> QED  BY <2>3, <4>1
    <3>2. CASE item[t] # MaxIdx - 1
      <4>1. NextIs(nextIdx, q)'
        <5>1. nextIdx' = item[t] + 1
          BY <2>2, <2>4, <3>2
        <5>2. \A i \in Items : i < item[t] + 1 <=> i <= item[t]
          BY <2>2
        <5>3. \A i \in Items : assigned'[i] = IF i < item[t] + 1 THEN q + 1 ELSE q
          BY <2>5, <5>2
        <5> QED  BY <5>1, <5>3 DEF NextIs
      <4> QED  BY <4>1
    <3> QED  BY <3>1, <3>2
  <2>7. \A u \in Contexts : pc'[u] \notin Choosing
    BY <1>6, AssignEffect DEF MutexInv, Critical
  <2> QED  BY <2>6, <2>7 DEF RoundInv
<1>7. ASSUME NEW t \in Contexts, ReleaseStart(t)
      PROVE  RoundInv'
  BY <1>7, RoundFrame DEF ReleaseStart, Goto, UnlockChain, localVars, mainVars
<1>8. ASSUME NEW t \in Contexts, WaitStart(t)
      PROVE  RoundInv'
  BY <1>8, RoundFrame DEF WaitStart, Goto, Execute, poolVars, localVars, mainVars
<1>9. ASSUME NEW t \in Contexts, Bench(t)
      PROVE  RoundInv'
  BY <1>9, RoundFrame DEF Bench, Goto, poolVars, mainVars
<1>10. ASSUME NEW t \in Contexts, UnlockOwn(t)
      PROVE  RoundInv'
  BY <1>10, RoundFrame DEF UnlockOwn, Goto, UnlockChain, mainVars
<1>11. ASSUME NEW t \in Contexts, WaitEnd(t)
      PROVE  RoundInv'
  BY <1>11, RoundFrame DEF WaitEnd, poolVars, mainVars
<1>12. ASSUME NEW t \in Contexts, LockToRecord(t)
      PROVE  RoundInv'
  BY <1>12, RoundFrame DEF LockToRecord, Goto, mainVars
<1>13. ASSUME NEW t \in Contexts, Record(t)
      PROVE  RoundInv'
  BY <1>13, RoundFrame DEF Record, Goto, mainVars
<1>14. CASE CreateThread
  <2>1. created \in Contexts /\ pc[created] = "none"
    BY <1>14 DEF CreateThread, MainInv, Contexts
  <2> QED  BY <1>14, <2>1, RoundFrame DEF CreateThread, poolVars, localVars
<1>15. CASE JoinThread
  BY <1>15, RoundFrame DEF JoinThread, poolVars, localVars
<1>16. CASE ReportResults
  BY <1>16, RoundFrame DEF ReportResults, poolVars, localVars
<1>17. CASE UNCHANGED vars
  BY <1>17, RoundFrame DEF vars, poolVars, localVars, mainVars
<1> QED
  BY <1>1, <1>2, <1>3, <1>4, <1>5, <1>6, <1>7, <1>8, <1>9, <1>10, <1>11, <1>12, <1>13, <1>14, <1>15, <1>16, <1>17 DEF Next, Thread, Main, Ended

\* No thread takes up an execution.
LEMMA TwiceFrame ==
  ASSUME NoIterationTwice,
         \A u \in Contexts : pc'[u] \in Working =>
           pc[u] \in Working /\ item'[u] = item[u] /\ inst'[u] = inst[u]
  PROVE  NoIterationTwice'
BY DEF NoIterationTwice

\* An assignment is of an iteration nobody has; no other step takes one up.
LEMMA TwiceStep ==
  ASSUME IInv, [Next]_vars
  PROVE  NoIterationTwice'
<1> DEFINE Frame == \A u \in Contexts : pc'[u] \in Working =>
                      pc[u] \in Working /\ item'[u] = item[u] /\ inst'[u] = inst[u]
<1>0. /\ pc \in [Contexts -> PcValues] /\ inst \in [Contexts -> Nat]
      /\ item \in [Contexts -> Items \cup {NoItem}]
      /\ NoIterationTwice
  BY DEF IInv, TypeOK
<1>1. ASSUME NEW t \in Contexts, LockToGet(t) \/ LockStart(t) \/ LockOwn(t)
      PROVE  Frame
  BY <1>0, <1>1 DEF LockToGet, LockStart, LockOwn, Goto, Working, localVars
<1>2. ASSUME NEW t \in Contexts, GetNext(t)
      PROVE  Frame
  BY <1>0, <1>2, GetNextEffect DEF Working, Choosing
<1>3. ASSUME NEW t \in Contexts, GetNone(t)
      PROVE  Frame
  BY <1>0, <1>3 DEF GetNone, Goto, Working
<1>4. ASSUME NEW t \in Contexts, Assign(t)
      PROVE  NoIterationTwice'
  \* Whoever works on the item took it for an earlier iteration.
  <2>1. /\ item' = item /\ inst' = inst
        /\ \A u \in Contexts \ {t} : pc'[u] = pc[u]
    BY <1>0, <1>4, AssignEffect
  <2>2. \A u \in Contexts : pc[u] \in Working /\ item[u] = item[t] => inst[u] # inst[t]
    <3>1. ASSUME NEW u \in Contexts, pc[u] \in Working, item[u] = item[t]
          PROVE  inst[u] < assigned[item[t]]
      BY <3>1 DEF IInv, HoldInv
    <3>2. inst[t] = assigned[item[t]]
      BY <1>4, AssignEffect
    <3> QED  BY <1>0, <3>1, <3>2
  <2> QED  BY <1>0, <2>1, <2>2 DEF NoIterationTwice
<1>5. ASSUME NEW t \in Contexts, ReleaseStart(t) \/ WaitStart(t)
      PROVE  Frame
  BY <1>0, <1>5 DEF ReleaseStart, WaitStart, Goto, Working, localVars
<1>6. ASSUME NEW t \in Contexts, Bench(t) \/ UnlockOwn(t) \/ WaitEnd(t) \/ LockToRecord(t)
      PROVE  Frame
  BY <1>0, <1>6 DEF Bench, UnlockOwn, WaitEnd, LockToRecord, Goto, Working
<1>7. ASSUME NEW t \in Contexts, Record(t)
      PROVE  Frame
  BY <1>0, <1>7 DEF Record, Goto, Working
<1>8. CASE CreateThread
  <2>1. pc'[created] = "lock" \/ created \notin Contexts
    BY <1>0, <1>8 DEF CreateThread
  <2> QED  BY <1>0, <1>8, <2>1, TwiceFrame DEF CreateThread, Working, localVars
<1>9. CASE JoinThread \/ ReportResults \/ UNCHANGED vars
  BY <1>0, <1>9, TwiceFrame DEF JoinThread, ReportResults, vars, localVars
<1>10. Frame => NoIterationTwice'
  BY <1>0, TwiceFrame
<1> QED
  BY <1>1, <1>2, <1>3, <1>4, <1>5, <1>6, <1>7, <1>8, <1>9, <1>10
     DEF Next, Thread, Main, Ended

\* The threads that hold an item can be counted.
LEMMA InFlightFinite ==
  ASSUME NEW i
  PROVE  IsFiniteSet(InFlight(i)) /\ Cardinality(InFlight(i)) \in Nat
<1>1. IsFiniteSet(Contexts)
  BY Constants, FS_Interval DEF Contexts
<1> QED
  BY <1>1, FS_Subset, FS_CardinalityType DEF InFlight

\* No thread takes up or records an execution.
LEMMA ConservationFrame ==
  ASSUME Conservation, UNCHANGED <<assigned, finished>>,
         \A u \in Contexts : /\ pc'[u] \in Working <=> pc[u] \in Working
                             /\ pc[u] \in Working => item'[u] = item[u]
  PROVE  Conservation'
<1>1. ASSUME NEW i \in Items
      PROVE  InFlight(i)' = InFlight(i)
  BY DEF InFlight
<1> QED
  BY <1>1 DEF Conservation

\* An assignment takes an execution into a thread's hands, a record takes it
\* out; no other step moves one.
LEMMA ConservationStep ==
  ASSUME IInv, [Next]_vars
  PROVE  Conservation'
<1> USE Constants DEF IInv, TypeOK, Working
<1>1. ASSUME NEW t \in Contexts, LockToGet(t)
      PROVE  Conservation'
  BY <1>1, ConservationFrame DEF LockToGet, Goto, localVars, mainVars
<1>2. ASSUME NEW t \in Contexts, GetNext(t)
      PROVE  Conservation'
  <2>1. \A u \in Contexts : /\ pc'[u] \in Working <=> pc[u] \in Working
                            /\ pc[u] \in Working => item'[u] = item[u]
    BY <1>2, GetNextEffect DEF Choosing
  <2> QED  BY <1>2, <2>1, GetNextEffect, ConservationFrame
<1>3. ASSUME NEW t \in Contexts, GetNone(t)
      PROVE  Conservation'
  BY <1>3, ConservationFrame DEF GetNone, Goto, mainVars
<1>4. ASSUME NEW t \in Contexts, LockStart(t)
      PROVE  Conservation'
  BY <1>4, ConservationFrame DEF LockStart, Goto, LockChain, localVars, mainVars
<1>5. ASSUME NEW t \in Contexts, LockOwn(t)
      PROVE  Conservation'
  BY <1>5, ConservationFrame DEF LockOwn, Goto, LockChain, localVars, mainVars
<1>6. ASSUME NEW t \in Contexts, Assign(t)
      PROVE  Conservation'
  <2>0. PICK i \in Items : i = item[t]
    BY <1>6, AssignEffect
  <2>1. /\ assigned[i] < Required /\ t \notin InFlight(i)
        /\ assigned' = [assigned EXCEPT ![i] = assigned[i] + 1]
        /\ finished' = finished
    BY <1>6, <2>0, AssignEffect DEF InFlight
  <2>2. InFlight(i)' = InFlight(i) \cup {t}
    BY <1>6, <2>0, AssignEffect DEF InFlight
  <2>3. \A j \in Items \ {i} : InFlight(j)' = InFlight(j)
    BY <1>6, <2>0, AssignEffect DEF InFlight
  <2>4. Cardinality(InFlight(i))' = Cardinality(InFlight(i)) + 1
    BY <2>1, <2>2, InFlightFinite, FS_AddElement
  <2>5. ASSUME NEW j \in Items
        PROVE  /\ assigned'[j] = finished'[j] + Cardinality(InFlight(j))'
               /\ assigned'[j] <= Required
    <3>1. CASE j = i
      <4>1. assigned[i] = finished[i] + Cardinality(InFlight(i))
        BY <2>1 DEF Conservation
      <4>2. /\ assigned'[i] = assigned[i] + 1 /\ finished'[i] = finished[i]
            /\ assigned[i] \in Nat /\ finished[i] \in Nat
        BY <2>1
      <4> QED  BY <2>1, <2>4, <3>1, <4>1, <4>2, InFlightFinite
    <3>2. CASE j # i
      BY <2>1, <2>3, <3>2 DEF Conservation
    <3> QED  BY <3>1, <3>2
  <2> QED  BY <2>5 DEF Conservation
<1>7. ASSUME NEW t \in Contexts, ReleaseStart(t)
      PROVE  Conservation'
  BY <1>7, ConservationFrame DEF ReleaseStart, Goto, UnlockChain, localVars, mainVars
<1>8. ASSUME NEW t \in Contexts, WaitStart(t)
      PROVE  Conservation'
  BY <1>8, ConservationFrame DEF WaitStart, Goto, Execute, poolVars, localVars, mainVars
<1>9. ASSUME NEW t \in Contexts, Bench(t)
      PROVE  Conservation'
  BY <1>9, ConservationFrame DEF Bench, Goto, poolVars, mainVars
<1>10. ASSUME NEW t \in Contexts, UnlockOwn(t)
      PROVE  Conservation'
  BY <1>10, ConservationFrame DEF UnlockOwn, Goto, UnlockChain, mainVars
<1>11. ASSUME NEW t \in Contexts, WaitEnd(t)
      PROVE  Conservation'
  BY <1>11, ConservationFrame DEF WaitEnd, poolVars, mainVars
<1>12. ASSUME NEW t \in Contexts, LockToRecord(t)
      PROVE  Conservation'
  BY <1>12, ConservationFrame DEF LockToRecord, Goto, mainVars
<1>13. ASSUME NEW t \in Contexts, Record(t)
      PROVE  Conservation'
  <2>0. PICK i \in Items : i = item[t]
    BY <1>13 DEF Record, Goto, HoldInv
  <2>1. /\ t \in InFlight(i)
        /\ finished' = [finished EXCEPT ![i] = finished[i] + 1]
        /\ assigned' = assigned
    BY <1>13, <2>0 DEF Record, Goto, InFlight, HoldInv, SeenInv
  <2>2. InFlight(i)' = InFlight(i) \ {t}
    BY <1>13, <2>0 DEF Record, Goto, InFlight
  <2>3. \A j \in Items \ {i} : InFlight(j)' = InFlight(j)
    BY <1>13, <2>0 DEF Record, Goto, InFlight
  <2>4. Cardinality(InFlight(i))' = Cardinality(InFlight(i)) - 1
    BY <2>1, <2>2, InFlightFinite, FS_RemoveElement
  <2>5. ASSUME NEW j \in Items
        PROVE  /\ assigned'[j] = finished'[j] + Cardinality(InFlight(j))'
               /\ assigned'[j] <= Required
    <3>1. CASE j = i
      <4>1. assigned[i] = finished[i] + Cardinality(InFlight(i)) /\ assigned[i] <= Required
        BY <2>1 DEF Conservation
      <4>2. /\ assigned'[i] = assigned[i] /\ finished'[i] = finished[i] + 1
            /\ assigned[i] \in Nat /\ finished[i] \in Nat
        BY <2>1
      <4> QED  BY <2>4, <3>1, <4>1, <4>2, InFlightFinite
    <3>2. CASE j # i
      BY <2>1, <2>3, <3>2 DEF Conservation
    <3> QED  BY <3>1, <3>2
  <2> QED  BY <2>5 DEF Conservation
<1>14. CASE CreateThread
  <2>1. created \in Contexts /\ pc[created] = "none"
    BY <1>14 DEF CreateThread, MainInv, Contexts
  <2> QED  BY <1>14, <2>1, ConservationFrame DEF CreateThread, poolVars, localVars
<1>15. CASE JoinThread
  BY <1>15, ConservationFrame DEF JoinThread, poolVars, localVars
<1>16. CASE ReportResults
  BY <1>16, ConservationFrame DEF ReportResults, poolVars, localVars
<1>17. CASE UNCHANGED vars
  BY <1>17, ConservationFrame DEF vars, poolVars, localVars, mainVars
<1> QED
  BY <1>1, <1>2, <1>3, <1>4, <1>5, <1>6, <1>7, <1>8, <1>9, <1>10, <1>11, <1>12, <1>13, <1>14, <1>15, <1>16, <1>17 DEF Next, Thread, Main, Ended

-----------------------------------------------------------------------------
(* The invariant holds, and what follows from it.                          *)

\* Before any thread is created nothing is assigned.
LEMMA InitIInv == Init => IInv
<1> SUFFICES ASSUME Init PROVE IInv
  OBVIOUS
<1> USE Constants DEF Init
<1>1. TypeOK
  BY DEF TypeOK, PcValues, NotSeen, Items
<1>2. MutexInv /\ HoldInv /\ SeenInv /\ ExitInv /\ NoIterationTwice
  BY DEF MutexInv, HoldInv, SeenInv, ExitInv, NoIterationTwice, Critical, Choosing, Working
<1>3. RoundInv
  <2>1. NextIs(nextIdx, 0)
    BY DEF NextIs
  <2> QED  BY <2>1 DEF RoundInv, Choosing
<1>4. MainInv
  BY DEF MainInv
<1>5. Conservation
  <2>1. \A i \in Items : InFlight(i) = {}
    BY DEF InFlight, Working
  <2>2. Cardinality({}) = 0
    BY FS_EmptySet
  <2>3. ASSUME NEW i \in Items
        PROVE  assigned[i] = 0 /\ finished[i] = 0 /\ Cardinality(InFlight(i)) = 0
    BY <2>1, <2>2
  <2>4. 0 <= Required /\ 0 = 0 + 0
    OBVIOUS
  <2> HIDE DEF Init
  <2> QED  BY <2>3, <2>4 DEF Conservation
<1> QED
  BY <1>1, <1>2, <1>3, <1>4, <1>5 DEF IInv

\* Every reachable state of bench_thread, mith_main_loop and the workload
\* satisfies the inductive invariant.
THEOREM PoolInvariant == Spec => []IInv
<1>1. IInv /\ [Next]_vars => IInv'
  BY TypeStep, MutexStep, HoldStep, SeenStep, RoundStep, ExitStep, MainStep,
     TwiceStep, ConservationStep DEF IInv
<1> QED
  BY <1>1, InitIInv, PTL DEF Spec

-----------------------------------------------------------------------------
(* What the invariant gives: the properties that the runs check, and that   *)
(* the pool implements what RunPromise says of mith_main.                   *)

\* Every variable of bench_thread, mith_main_loop and the workload keeps its
\* type; in particular next_idx always indexes load[], and every chain mutex
\* a thread touches is one of those mith_wl_reset allocated.
THEOREM TypeCorrect == Spec => []TypeOK
<1>1. IInv => TypeOK
  BY DEF IInv
<1> QED
  BY <1>1, PoolInvariant, PTL

\* The two critical sections of bench_thread neither lose nor repeat an
\* execution, whatever the interleaving.
THEOREM NothingLost == Spec => []Conservation
<1>1. IInv => Conservation
  BY DEF IInv
<1> QED
  BY <1>1, PoolInvariant, PTL

\* Two threads never work on the same iteration of the same item, so the
\* chain instance item->assigned selects is theirs alone.
THEOREM InstanceIsOwn == Spec => []NoIterationTwice
<1>1. IInv => NoIterationTwice
  BY DEF IInv
<1> QED
  BY <1>1, PoolInvariant, PTL

\* What RoundInv says of next_idx puts the counters in step.
LEMMA InStep ==
  ASSUME IInv
  PROVE  LockStep
<1>1. ASSUME NEW n \in Nat, NEW q \in Nat, NextIs(n, q)
      PROVE  LockStep
  BY <1>1, Constants DEF LockStep, NextIs
<1>2. \E n \in Nat, q \in Nat : NextIs(n, q)
  <2>1. nextIdx \in Nat /\ Required \in Nat
    BY Constants DEF IInv, TypeOK
  <2>2. CASE \A t \in Contexts : pc[t] \notin Choosing
    BY <2>1, <2>2 DEF IInv, RoundInv
  <2>3. CASE \E t \in Contexts : pc[t] \in Choosing
    <3>1. PICK t \in Contexts : pc[t] \in Choosing
      BY <2>3
    <3>2. item[t] \in Nat
      BY <3>1, Constants DEF IInv, HoldInv
    <3> QED
      BY <2>1, <3>1, <3>2 DEF IInv, RoundInv
  <2> QED
    BY <2>2, <2>3
<1> QED
  BY <1>1, <1>2

\* The round-robin search of mith_wl_get_next hands the items out evenly.
THEOREM ItemsInStep == Spec => []LockStep
BY InStep, PoolInvariant, PTL

-----------------------------------------------------------------------------
(* The pool implements RunPromise: Assign starts an execution, Record      *)
(* completes one, ReportResults reports, and nothing else is visible.      *)

\* An execution is recorded by a thread that has it in its hands.
LEMMA RecordEffect ==
  ASSUME IInv, NEW t \in Contexts, Record(t)
  PROVE  \E i \in Items :
           /\ finished[i] < assigned[i]
           /\ finished' = [finished EXCEPT ![i] = @ + 1]
           /\ failed'   = [failed   EXCEPT ![i] = @ + verdict[t]]
           /\ verdict[t] \in 0..1
           /\ UNCHANGED <<assigned, mainPc>>
<1>1. pc[t] = "record" /\ item[t] \in Items
  BY DEF Record, Goto, IInv, HoldInv, Working
<1>2. PICK i \in Items : i = item[t]
  BY <1>1
<1>3. t \in InFlight(i)
  BY <1>1, <1>2 DEF InFlight, Working
<1>4. Cardinality(InFlight(i)) > 0
  BY <1>3, InFlightFinite, FS_EmptySet
<1>5. finished[i] < assigned[i]
  <2>1. /\ assigned[i] = finished[i] + Cardinality(InFlight(i))
        /\ finished[i] \in Nat
    BY DEF IInv, Conservation, TypeOK
  <2> QED
    BY <1>4, <2>1, InFlightFinite
<1>6. seen[t].finished = finished[i] /\ seen[t].failed = failed[i]
  BY <1>1, <1>2 DEF IInv, SeenInv
<1>7. verdict[t] \in 0..1
  BY DEF IInv, TypeOK
<1> QED
  BY <1>2, <1>5, <1>6, <1>7 DEF Record, mainVars

\* When the main thread has joined the others, everything is accounted for.
LEMMA AllFinished ==
  ASSUME IInv, mainPc = "report"
  PROVE  \A i \in Items : finished[i] = Required
<1>1. \A t \in Contexts : pc[t] = "exited"
  BY DEF IInv, MainInv
<1>2. \A i \in Items : assigned[i] = Required
  BY <1>1, Constants DEF IInv, ExitInv, Contexts
<1>3. ASSUME NEW i \in Items
      PROVE  finished[i] = Required
  <2>1. InFlight(i) = {}
    BY <1>1 DEF InFlight, Working
  <2>2. /\ assigned[i] = finished[i] + Cardinality(InFlight(i))
        /\ finished[i] \in Nat
    BY DEF IInv, Conservation, TypeOK
  <2>3. Cardinality(InFlight(i)) = 0
    BY <2>1, FS_EmptySet
  <2> QED
    BY <1>2, <2>2, <2>3
<1> QED
  BY <1>3

\* Every step of the pool is a step of RunPromise or invisible there.
LEMMA PromiseStep ==
  ASSUME IInv, [Next]_vars
  PROVE  [Promise!PromiseNext]_(Promise!promiseVars)
<1> DEFINE Stutter == UNCHANGED <<assigned, finished, failed, mainPc>>
<1>1. ASSUME NEW t \in Contexts, Assign(t)
      PROVE  \E i \in Items : Promise!Start(i)
  <2>1. item[t] \in Items /\ assigned[item[t]] < Required
    BY <1>1, AssignEffect
  <2>2. /\ assigned' = [assigned EXCEPT ![item[t]] = @ + 1]
        /\ UNCHANGED <<finished, failed, mainPc>>
    BY <1>1, AssignEffect
  <2> QED
    BY <2>1, <2>2 DEF Promise!Start
<1>2. ASSUME NEW t \in Contexts, Record(t)
      PROVE  \E i \in Items, f \in 0..1 : Promise!Complete(i, f)
  <2>1. mainPc \notin {"report", "done"}
    BY <1>2 DEF Record, Goto, IInv, MainInv
  <2>2. PICK i \in Items :
           /\ finished[i] < assigned[i]
           /\ finished' = [finished EXCEPT ![i] = @ + 1]
           /\ failed'   = [failed   EXCEPT ![i] = @ + verdict[t]]
           /\ verdict[t] \in 0..1
           /\ UNCHANGED <<assigned, mainPc>>
    BY <1>2, RecordEffect
  <2> QED
    BY <2>1, <2>2 DEF Promise!Complete
<1>3. CASE ReportResults
  BY <1>3, AllFinished DEF ReportResults, poolVars, Promise!Report, Promise!PromiseNext
<1>4. ASSUME NEW t \in Contexts,
             \/ LockToGet(t) \/ GetNext(t) \/ GetNone(t) \/ LockStart(t) \/ LockOwn(t)
             \/ ReleaseStart(t) \/ WaitStart(t) \/ Bench(t) \/ UnlockOwn(t)
             \/ WaitEnd(t) \/ LockToRecord(t)
      PROVE  Stutter
  BY <1>4 DEF LockToGet, GetNext, GetNone, LockStart, LockOwn, ReleaseStart, WaitStart,
     Bench, UnlockOwn, WaitEnd, LockToRecord, poolVars, mainVars
<1>5. ASSUME UNCHANGED vars
      PROVE  Stutter
  BY <1>5 DEF vars, poolVars, mainVars
<1>6. CASE CreateThread \/ JoinThread
  <2>1. /\ UNCHANGED <<assigned, finished, failed>>
        /\ mainPc # "done" /\ mainPc' # "done"
    BY <1>6 DEF CreateThread, JoinThread, poolVars
  <2> QED
    BY <2>1 DEF Promise!promiseVars
<1>7. Stutter => UNCHANGED Promise!promiseVars
  BY DEF Promise!promiseVars
<1> QED
  BY <1>1, <1>2, <1>3, <1>4, <1>5, <1>6, <1>7
     DEF Next, Thread, Main, Ended, Promise!PromiseNext

\* bench_thread, mith_wl_get_next and mith_main_loop together do what
\* mith_workload.h promises of mith_main: each item is executed num_iterations
\* times and accounted for exactly once each time before results are reported.
THEOREM Implements == Spec => KeepsPromise
<1>1. Init => Promise!PromiseInit
  BY DEF Init, Promise!PromiseInit
<1> QED
  BY <1>1, PoolInvariant, PromiseStep, PTL DEF Spec, KeepsPromise, Promise!PromiseSpec

-----------------------------------------------------------------------------
(* Every item's failures are counted, when every item has an init_func.    *)

\* The threads with an unrecorded failure of an item can be counted.
LEMMA UnrecordedFinite ==
  ASSUME NEW i
  PROVE  IsFiniteSet(Unrecorded(i)) /\ Cardinality(Unrecorded(i)) \in Nat
<1>1. IsFiniteSet(Contexts)
  BY Constants, FS_Interval DEF Contexts
<1> QED
  BY <1>1, FS_Subset, FS_CardinalityType DEF Unrecorded

\* No thread reaches a verdict or records one.
LEMMA FailuresFrame ==
  ASSUME FailuresAreOwn, UNCHANGED <<failed, bad>>,
         \A u \in Contexts : /\ pc'[u] \in Judged <=> pc[u] \in Judged
                             /\ pc[u] \in Judged => item'[u] = item[u] /\ verdict'[u] = verdict[u]
  PROVE  FailuresAreOwn'
<1>1. ASSUME NEW i \in Items
      PROVE  Unrecorded(i)' = Unrecorded(i)
  BY DEF Unrecorded
<1> QED
  BY <1>1 DEF FailuresAreOwn

\* A verdict: it stays in the hands of the thread that reached it.
LEMMA FailuresBench ==
  ASSUME IInv, FailuresAreOwn, NEW t \in Contexts, Bench(t)
  PROVE  FailuresAreOwn'
<1>0. pc[t] = "bench" /\ item[t] \in Items
  BY DEF Bench, Goto, IInv, HoldInv, Working
<1>1. PICK i \in Items : i = item[t]
  BY <1>0
<1>2. PICK f \in 0..1 : /\ verdict' = [verdict EXCEPT ![t] = f]
                        /\ bad' = [bad EXCEPT ![i] = bad[i] + f]
  BY <1>1, Constants DEF Bench
<1>3. /\ failed' = failed /\ item' = item
      /\ \E p \in Judged : pc' = [pc EXCEPT ![t] = p]
  BY DEF Bench, Goto, poolVars, Judged
<1>4. /\ pc \in [Contexts -> PcValues] /\ verdict \in [Contexts -> 0..1]
      /\ bad \in [Items -> Nat] /\ failed \in [Items -> Nat]
  BY DEF IInv, TypeOK
<1>5. t \notin Unrecorded(i)
  BY <1>0 DEF Unrecorded, Judged
<1>6. \A j \in Items \ {i} : Unrecorded(j)' = Unrecorded(j)
  BY <1>0, <1>1, <1>2, <1>3, <1>4 DEF Unrecorded, Judged
<1>7. Unrecorded(i)' = IF f = 1 THEN Unrecorded(i) \cup {t} ELSE Unrecorded(i)
  BY <1>0, <1>1, <1>2, <1>3, <1>4 DEF Unrecorded, Judged
<1>8. Cardinality(Unrecorded(i)') = Cardinality(Unrecorded(i)) + f
  <2>1. Cardinality(Unrecorded(i) \cup {t}) = Cardinality(Unrecorded(i)) + 1
    BY <1>5, UnrecordedFinite, FS_AddElement
  <2>2. f = 0 \/ f = 1
    BY <1>2
  <2> QED
    BY <1>7, <2>1, <2>2, UnrecordedFinite
<1>9. bad'[i] = failed'[i] + Cardinality(Unrecorded(i)')
  <2>1. bad[i] = failed[i] + Cardinality(Unrecorded(i))
    BY DEF FailuresAreOwn
  <2>2. bad'[i] = bad[i] + f /\ failed'[i] = failed[i]
    BY <1>2, <1>3, <1>4
  <2>3. bad[i] \in Nat /\ failed[i] \in Nat /\ f \in Nat
    BY <1>2, <1>4
  <2> QED
    BY <1>8, <2>1, <2>2, <2>3, UnrecordedFinite
<1>10. ASSUME NEW j \in Items, j # i
       PROVE  bad'[j] = failed'[j] + Cardinality(Unrecorded(j)')
  BY <1>2, <1>3, <1>4, <1>6, <1>10 DEF FailuresAreOwn
<1> QED
  BY <1>9, <1>10 DEF FailuresAreOwn

\* The record: the verdict goes from the thread to the item.
LEMMA FailuresRecord ==
  ASSUME IInv, FailuresAreOwn, NEW t \in Contexts, Record(t)
  PROVE  FailuresAreOwn'
<1>0. pc[t] = "record" /\ item[t] \in Items
  BY DEF Record, Goto, IInv, HoldInv, Working
<1>1. PICK i \in Items : i = item[t]
  BY <1>0
<1>2. PICK f \in 0..1 : f = verdict[t]
  BY DEF IInv, TypeOK
<1>3. /\ failed' = [failed EXCEPT ![i] = failed[i] + f]
      /\ pc' = [pc EXCEPT ![t] = "lock"]
      /\ item' = [item EXCEPT ![t] = NoItem]
      /\ UNCHANGED <<bad, verdict>>
  BY <1>0, <1>1, <1>2 DEF Record, Goto, IInv, SeenInv
<1>4. /\ pc \in [Contexts -> PcValues] /\ verdict \in [Contexts -> 0..1]
      /\ bad \in [Items -> Nat] /\ failed \in [Items -> Nat]
      /\ item \in [Contexts -> Items \cup {NoItem}]
  BY DEF IInv, TypeOK
<1>5. f = 1 => t \in Unrecorded(i)
  BY <1>0, <1>1, <1>2 DEF Unrecorded, Judged
<1>6. \A j \in Items \ {i} : Unrecorded(j)' = Unrecorded(j)
  BY <1>0, <1>1, <1>3, <1>4 DEF Unrecorded, Judged
<1>7. Unrecorded(i)' = IF f = 1 THEN Unrecorded(i) \ {t} ELSE Unrecorded(i)
  BY <1>0, <1>1, <1>2, <1>3, <1>4 DEF Unrecorded, Judged
<1>8. Cardinality(Unrecorded(i)') = Cardinality(Unrecorded(i)) - f
  <2>1. f = 1 => Cardinality(Unrecorded(i) \ {t}) = Cardinality(Unrecorded(i)) - 1
    BY <1>5, UnrecordedFinite, FS_RemoveElement
  <2>2. f = 0 \/ f = 1
    BY <1>2
  <2> QED
    BY <1>7, <2>1, <2>2, UnrecordedFinite
<1>9. bad'[i] = failed'[i] + Cardinality(Unrecorded(i)')
  <2>1. bad[i] = failed[i] + Cardinality(Unrecorded(i))
    BY DEF FailuresAreOwn
  <2>2. failed'[i] = failed[i] + f /\ bad'[i] = bad[i]
    BY <1>3, <1>4
  <2>3. bad[i] \in Nat /\ failed[i] \in Nat /\ f \in Nat
    BY <1>2, <1>4
  <2> QED
    BY <1>8, <2>1, <2>2, <2>3, UnrecordedFinite
<1>10. ASSUME NEW j \in Items, j # i
       PROVE  bad'[j] = failed'[j] + Cardinality(Unrecorded(j)')
  BY <1>3, <1>4, <1>6, <1>10 DEF FailuresAreOwn
<1> QED
  BY <1>9, <1>10 DEF FailuresAreOwn

\* With no item for chains only, every step keeps the count of failures.
LEMMA FailuresStep ==
  ASSUME Fake = {}, IInv, FailuresAreOwn, [Next]_vars
  PROVE  FailuresAreOwn'
<1> DEFINE Frame ==
      /\ UNCHANGED <<failed, bad>>
      /\ \A u \in Contexts :
           /\ pc'[u] \in Judged <=> pc[u] \in Judged
           /\ pc[u] \in Judged => item'[u] = item[u] /\ verdict'[u] = verdict[u]
<1>0. pc \in [Contexts -> PcValues] /\ item \in [Contexts -> Items \cup {NoItem}]
  BY DEF IInv, TypeOK
<1>1. ASSUME NEW t \in Contexts, LockToGet(t) \/ LockStart(t) \/ LockOwn(t)
      PROVE  Frame
  BY <1>0, <1>1 DEF LockToGet, LockStart, LockOwn, Goto, Judged, localVars
<1>2. ASSUME NEW t \in Contexts, GetNext(t)
      PROVE  Frame
  BY <1>0, <1>2, GetNextEffect DEF Judged, Choosing
<1>3. ASSUME NEW t \in Contexts, GetNone(t)
      PROVE  Frame
  BY <1>0, <1>3 DEF GetNone, Goto, Judged
<1>4. ASSUME NEW t \in Contexts, Assign(t)
      PROVE  Frame
  <2>1. \E p \in {"chainReady", "bench"} : pc' = [pc EXCEPT ![t] = p]
    BY <1>4 DEF Assign, Execute
  <2> QED
    BY <1>0, <1>4, <2>1 DEF Assign, Judged, localVars
<1>5. ASSUME NEW t \in Contexts, ReleaseStart(t) \/ WaitStart(t)
      PROVE  Frame
  BY <1>0, <1>5 DEF ReleaseStart, WaitStart, Execute, Goto, Judged, localVars, poolVars
<1>6. ASSUME NEW t \in Contexts, UnlockOwn(t) \/ WaitEnd(t) \/ LockToRecord(t)
      PROVE  Frame
  BY <1>0, <1>6 DEF UnlockOwn, WaitEnd, LockToRecord, Goto, Judged, poolVars
<1>7. CASE CreateThread
  <2>1. created \in Contexts /\ pc[created] = "none"
    BY <1>7, Constants DEF CreateThread, IInv, TypeOK, MainInv, Contexts
  <2> QED
    BY <1>0, <1>7, <2>1, FailuresFrame DEF CreateThread, Judged, localVars, poolVars
<1>8. CASE JoinThread \/ ReportResults \/ UNCHANGED vars
  BY <1>8, FailuresFrame DEF JoinThread, ReportResults, vars, localVars, poolVars
<1>9. Frame => FailuresAreOwn'
  BY FailuresFrame
<1> QED
  BY <1>1, <1>2, <1>3, <1>4, <1>5, <1>6, <1>7, <1>8, <1>9, FailuresBench, FailuresRecord
     DEF Next, Thread, Main, Ended

\* item->failed counts that item's failed executions, though the counter is
\* updated after the execution, in another critical section, from a local of
\* bench_thread that is never reset; that no item is there for chains only
\* (init_func NULL) is what makes it true.
THEOREM FailureCount ==
  ASSUME Fake = {}
  PROVE  Spec => []FailuresAreOwn
<1>1. Init => FailuresAreOwn
  <2> SUFFICES ASSUME Init PROVE FailuresAreOwn
    OBVIOUS
  <2>1. \A i \in Items : Unrecorded(i) = {} /\ bad[i] = 0 /\ failed[i] = 0
    BY DEF Init, Unrecorded, Judged
  <2>2. Cardinality({}) = 0 /\ 0 = 0 + 0
    BY FS_EmptySet
  <2> QED
    BY <2>1, <2>2 DEF FailuresAreOwn
<1>2. IInv /\ FailuresAreOwn /\ [Next]_vars => FailuresAreOwn'
  BY FailuresStep
<1> QED
  BY <1>1, <1>2, PoolInvariant, PTL DEF Spec

-----------------------------------------------------------------------------
(* The items of a chain run together.                                      *)

\* The items of a chain are in load[] in the order of their numbers, all of
\* them: chain_id is the "Index in the chain (DFS number)" (mith_workload.h:60).
ChainsInOrder ==
  /\ \A i, j \in Items : SameChain(i, j) /\ i < j => ChainId[i] < ChainId[j]
  /\ \A i \in Items : Chained(i) =>
       /\ \E j \in Items : SameChain(i, j) /\ ChainId[j] = 1
       /\ \E j \in Items : SameChain(i, j) /\ IsLast(j)

\* Instance n of the chain of item i has all its items.
AllAssigned(i, n) == \A l \in Items : SameChain(i, l) /\ IsLast(l) => assigned[l] > n

\* Where a thread is in a chain: about to take its mutexes, holding its own
\* mutex, and waiting for the others to end.
AtGate  == {"chainReady", "chainWait"}
Holding == AtGate \cup {"bench", "chainDone"}
Staged  == Holding \cup {"chainOwn", "assign", "chainEnd"}
OnlyChained == {"chainStart", "chainOwn", "chainReady", "chainWait", "chainDone", "chainEnd"}

StageInv ==
  \A t \in Contexts :
    /\ pc[t] \in OnlyChained => Chained(item[t])
    /\ pc[t] = "chainStart" => ChainId[item[t]] = 1

\* Every item holds its own mutex while it works.
OwnLockInv ==
  \A t \in Contexts : pc[t] \in Holding \cup {"assign"} /\ Chained(item[t]) =>
    chainMutex[Cell(t, ChainId[item[t]])] = t

\* From the time the first item of a chain is chosen to that when the last is
\* assigned, mutex 0 of the instance is held.
GateInv ==
  /\ \A t \in Contexts :
       pc[t] \in {"chainOwn", "assign"} /\ Chained(item[t]) /\ ChainId[item[t]] = 1 =>
         chainMutex[Cell(t, 0)] # NoThread
  /\ \A f \in Items, n \in Nat :
       Chained(f) /\ ChainId[f] = 1 /\ assigned[f] > n /\ ~AllAssigned(f, n) =>
         chainMutex[<<n, ChainUid[f], 0>>] # NoThread

\* So nobody passes it before.
StartedInv ==
  \A t \in Contexts : pc[t] \in {"bench", "chainDone", "chainEnd"} /\ Chained(item[t]) =>
    AllAssigned(item[t], inst[t])

\* Until then the items that are assigned wait for the others.
WaitingInv ==
  \A j \in Items, n \in Nat :
    Chained(j) /\ assigned[j] > n /\ ~AllAssigned(j, n) =>
      \E u \in Contexts : pc[u] \in AtGate /\ item[u] = j /\ inst[u] = n

\* Thread u has item j of instance n, and has not passed mutex k at the end.
AtWork(u, j, n, k) ==
  /\ item[u] = j /\ inst[u] = n
  /\ \/ pc[u] \in Holding
     \/ pc[u] = "chainEnd" /\ endIdx[u] <= k

\* From then on every item of the instance has a thread that an item which
\* holds its own mutex keeps from leaving.
TogetherInv ==
  \A t \in Contexts :
    /\ pc[t] \in Holding
    /\ Chained(item[t]) /\ ChainId[item[t]] < MCL /\ AllAssigned(item[t], inst[t])
    => \A j \in Items : SameChain(item[t], j) =>
         \E u \in Contexts : AtWork(u, j, inst[t], ChainId[item[t]])

ChainInv == StageInv /\ OwnLockInv /\ GateInv /\ StartedInv /\ WaitingInv /\ TogetherInv

-----------------------------------------------------------------------------

\* What a chained item's numbers are.
LEMMA ChainNumbers ==
  ASSUME NEW i \in Items, Chained(i)
  PROVE  /\ ChainId[i] \in 1..MCL /\ ChainUid[i] \in Chains /\ ChainLen[ChainUid[i]] \in 1..MCL
         /\ ChainId[i] <= ChainLen[ChainUid[i]] /\ ChainId[i] \in Nat /\ MCL \in Nat /\ i \in Nat
BY ChainAssumption, Constants DEF Chained

\* The items of a chain before its last one are assigned at least as often, and
\* so is the first before all others; what its numbers are tells the item.
LEMMA ChainOrder ==
  ASSUME ChainsInOrder, LockStep, TypeOK, NEW i \in Items, NEW j \in Items, SameChain(i, j)
  PROVE  /\ IsLast(j) => i <= j /\ assigned[j] <= assigned[i]
         /\ ChainId[i] = 1 => assigned[j] <= assigned[i]
         /\ ChainId[i] = ChainId[j] => i = j
         /\ IsLast(i) /\ IsLast(j) => i = j
<1>1. /\ i \in Nat /\ j \in Nat /\ ChainId[i] \in Nat /\ ChainId[j] \in Nat
      /\ assigned[i] \in Nat /\ assigned[j] \in Nat /\ ChainId[j] >= 1
      /\ ChainId[i] <= ChainLen[ChainUid[i]] /\ ChainId[j] <= ChainLen[ChainUid[i]]
      /\ ChainLen[ChainUid[i]] \in Nat
      /\ IsLast(j) <=> ChainId[j] = ChainLen[ChainUid[i]]
      /\ IsLast(i) <=> ChainId[i] = ChainLen[ChainUid[i]]
  BY ChainNumbers DEF SameChain, TypeOK, IsLast
<1>2. /\ i < j => ChainId[i] < ChainId[j]
      /\ j < i => ChainId[j] < ChainId[i]
  BY DEF ChainsInOrder, SameChain
<1>3. i = j => assigned[i] = assigned[j]
  OBVIOUS
<1>4. i < j => assigned[j] <= assigned[i]
  BY DEF LockStep
<1> QED  BY <1>1, <1>2, <1>3, <1>4

\* All items of a chain have the same last item.
LEMMA SameAll ==
  ASSUME NEW i \in Items, NEW j \in Items, SameChain(i, j), NEW n
  PROVE  AllAssigned(i, n) <=> AllAssigned(j, n)
BY DEF AllAssigned, SameChain

\* A thread's chain mutexes are among those of the workload.
LEMMA CellThere ==
  ASSUME IInv, NEW t \in Contexts, pc[t] \in Choosing \cup Working, Chained(item[t])
  PROVE  /\ item[t] \in Items /\ inst[t] \in 0..(Required - 1) /\ inst[t] \in Nat
         /\ \A k \in 0..MCL : Cell(t, k) \in Cells
         /\ Cell(t, 0) \in Cells /\ Cell(t, ChainId[item[t]]) \in Cells
         /\ Cell(t, 0) # Cell(t, ChainId[item[t]])
<1>1. item[t] \in Items
  BY DEF IInv, HoldInv
<1>2. inst[t] \in 0..(Required - 1)
  <2>1. inst[t] \in Nat /\ assigned[item[t]] \in Nat /\ assigned[item[t]] <= Required
    BY <1>1 DEF IInv, TypeOK, Conservation
  <2>2. inst[t] < Required
    BY <2>1, Constants DEF IInv, HoldInv
  <2> QED  BY <2>1, <2>2, Constants
<1>3. \A k \in 0..MCL : Cell(t, k) \in Cells
  BY <1>1, <1>2, ChainNumbers DEF Cell, Cells
<1>4. ChainId[item[t]] \in 0..MCL /\ 0 \in 0..MCL /\ ChainId[item[t]] # 0
  BY <1>1, ChainNumbers
<1> QED  BY <1>1, <1>2, <1>3, <1>4 DEF Cell

\* Two threads that hold their own mutexes hold different ones.
LEMMA OwnCells ==
  ASSUME IInv, ChainsInOrder, NEW t \in Contexts, NEW u \in Contexts, t # u,
         pc[t] \in Holding \cup {"assign"}, pc[u] \in Holding \cup {"assign"},
         Chained(item[t]), Chained(item[u])
  PROVE  Cell(t, ChainId[item[t]]) # Cell(u, ChainId[item[u]])
<1> SUFFICES ASSUME Cell(t, ChainId[item[t]]) = Cell(u, ChainId[item[u]])
             PROVE  FALSE
  OBVIOUS
<1>1. /\ inst[t] = inst[u] /\ ChainUid[item[t]] = ChainUid[item[u]]
      /\ ChainId[item[t]] = ChainId[item[u]]
  BY DEF Cell
<1>2. item[t] \in Items /\ item[u] \in Items
  BY DEF IInv, HoldInv, Holding, AtGate, Choosing, Working
<1>3. item[t] = item[u]
  <2>1. SameChain(item[t], item[u])
    BY <1>1 DEF SameChain
  <2> QED  BY <1>1, <1>2, <2>1, InStep, ChainOrder DEF IInv
<1>4. ~(pc[t] \in Working /\ pc[u] \in Working)
  BY <1>1, <1>3 DEF IInv, NoIterationTwice
<1>5. ~(pc[t] = "assign" /\ pc[u] = "assign")
  BY DEF IInv, MutexInv, Critical, Choosing
<1>6. Holding \subseteq Working
  BY DEF Holding, AtGate, Working
<1>7. \A v \in Contexts : /\ pc[v] = "assign" => inst[v] = assigned[item[v]]
                          /\ pc[v] \in Working => inst[v] < assigned[item[v]]
  BY DEF IInv, HoldInv, Choosing
<1>8. inst[t] < assigned[item[t]] => inst[t] # assigned[item[t]]
  BY <1>2 DEF IInv, TypeOK
<1> QED  BY <1>1, <1>3, <1>4, <1>5, <1>6, <1>7, <1>8

\* A step of a thread that is not at a chain's mutexes, before or after.
LEMMA ChainFrame ==
  ASSUME IInv, ChainInv, NEW t \in Contexts, UNCHANGED <<assigned, chainMutex>>,
         \A u \in Contexts : u # t => /\ pc'[u] = pc[u] /\ item'[u] = item[u]
                                      /\ inst'[u] = inst[u] /\ endIdx'[u] = endIdx[u],
         pc[t] \notin Staged \/ ~Chained(item[t]),
         pc'[t] \notin Staged \/ ~Chained(item'[t]) \/ (pc'[t] = "chainOwn" /\ ChainId[item'[t]] # 1),
         StageInv'
  PROVE  ChainInv'
<1>1. \A i, n : AllAssigned(i, n)' <=> AllAssigned(i, n)
  BY DEF AllAssigned
<1>2. \A u \in Contexts, k \in 0..MCL : u # t => Cell(u, k)' = Cell(u, k)
  BY DEF Cell
<1>3. \A u \in Contexts : u # t => Cell(u, ChainId[item[u]])' = Cell(u, ChainId[item[u]])
  BY DEF Cell
<1>4. OwnLockInv'
  BY <1>3 DEF ChainInv, OwnLockInv, Staged, Holding, AtGate
<1>5. GateInv'
  <2>1. 0 \in 0..MCL
    BY Constants
  <2>2. ASSUME NEW u \in Contexts, pc'[u] \in {"chainOwn", "assign"}, Chained(item'[u]), ChainId[item'[u]] = 1
        PROVE  chainMutex'[Cell(u, 0)'] # NoThread
    <3>1. u # t
      BY <2>2 DEF Staged
    <3> QED  BY <1>2, <2>1, <2>2, <3>1 DEF ChainInv, GateInv
  <2>3. ASSUME NEW f \in Items, NEW n \in Nat, Chained(f), ChainId[f] = 1, assigned'[f] > n, ~AllAssigned(f, n)'
        PROVE  chainMutex'[<<n, ChainUid[f], 0>>] # NoThread
    BY <1>1, <2>3 DEF ChainInv, GateInv
  <2> QED  BY <2>2, <2>3 DEF GateInv
<1>6. StartedInv'
  <2> SUFFICES ASSUME NEW u \in Contexts, pc'[u] \in {"bench", "chainDone", "chainEnd"}, Chained(item'[u])
               PROVE  AllAssigned(item[u], inst[u])'
    BY DEF StartedInv
  <2>1. u # t
    BY DEF Staged, Holding
  <2>2. item[u] \in Items /\ AllAssigned(item[u], inst[u])
    BY <2>1 DEF ChainInv, StartedInv, IInv, HoldInv, Working
  <2> QED  BY <2>1, <2>2 DEF AllAssigned
<1>7. WaitingInv'
  <2> SUFFICES ASSUME NEW j \in Items, NEW n \in Nat, Chained(j), assigned[j] > n, ~AllAssigned(j, n)
               PROVE  \E u \in Contexts : pc'[u] \in AtGate /\ item'[u] = j /\ inst'[u] = n
    BY <1>1 DEF WaitingInv
  <2>1. PICK u \in Contexts : pc[u] \in AtGate /\ item[u] = j /\ inst[u] = n
    BY DEF ChainInv, WaitingInv
  <2>2. u # t
    BY <2>1 DEF Staged, Holding
  <2> QED  BY <2>1, <2>2
<1>8. TogetherInv'
  <2> SUFFICES ASSUME NEW w \in Contexts, pc'[w] \in Holding, Chained(item'[w]),
                      ChainId[item'[w]] < MCL, AllAssigned(item[w], inst[w])',
                      NEW j \in Items, SameChain(item'[w], j)
               PROVE  \E u \in Contexts : AtWork(u, j, inst[w], ChainId[item[w]])'
    BY DEF TogetherInv, SameChain
  <2>1. w # t
    BY DEF Staged, Holding, AtGate
  <2>2. AllAssigned(item[w], inst[w])
    BY <2>1 DEF AllAssigned
  <2>3. PICK u \in Contexts : AtWork(u, j, inst[w], ChainId[item[w]])
    BY <2>1, <2>2 DEF ChainInv, TogetherInv
  <2>4. u # t
    BY <2>3 DEF AtWork, Staged, SameChain
  <2>5. AtWork(u, j, inst[w], ChainId[item[w]])'
    BY <2>1, <2>3, <2>4 DEF AtWork
  <2> QED  BY <2>5
<1> QED  BY <1>4, <1>5, <1>6, <1>7, <1>8 DEF ChainInv

\* The steps that are not at a chain's mutexes, and the choice of an item.
LEMMA ChainIdle ==
  ASSUME IInv, ChainInv, NEW t \in Contexts,
         LockToGet(t) \/ GetNext(t) \/ GetNone(t) \/ LockToRecord(t) \/ Record(t)
  PROVE  ChainInv'
<1>0. pc \in [Contexts -> PcValues] /\ item \in [Contexts -> Items \cup {NoItem}]
      /\ inst \in [Contexts -> Nat] /\ endIdx \in [Contexts -> 0..MCL]
  BY DEF IInv, TypeOK
<1>1. /\ UNCHANGED <<assigned, chainMutex>>
      /\ pc[t] \in {"lock", "next", "relock", "record"}
      /\ \A u \in Contexts : u # t => /\ pc'[u] = pc[u] /\ item'[u] = item[u]
                                      /\ inst'[u] = inst[u] /\ endIdx'[u] = endIdx[u]
      /\ \/ pc'[t] \in {"lock", "next", "exited", "record"}
         \/ pc'[t] = "assign" /\ ~Chained(item'[t])
         \/ pc'[t] = "chainOwn" /\ Chained(item'[t]) /\ ChainId[item'[t]] # 1
         \/ pc'[t] = "chainStart" /\ Chained(item'[t]) /\ ChainId[item'[t]] = 1
  <2>1. CASE LockToGet(t)
    BY <1>0, <2>1 DEF LockToGet, Goto, localVars
  <2>2. CASE GetNext(t)
    BY <1>0, <2>2 DEF GetNext
  <2>3. CASE GetNone(t)
    BY <1>0, <2>3 DEF GetNone, Goto
  <2>4. CASE LockToRecord(t)
    BY <1>0, <2>4 DEF LockToRecord, Goto
  <2>5. CASE Record(t)
    BY <1>0, <2>5 DEF Record, Goto
  <2> QED  BY <2>1, <2>2, <2>3, <2>4, <2>5
<1>2. StageInv'
  BY <1>1 DEF ChainInv, StageInv, OnlyChained
<1>3. pc[t] \notin Staged /\ (pc'[t] \notin Staged \/ ~Chained(item'[t]) \/ (pc'[t] = "chainOwn" /\ ChainId[item'[t]] # 1))
  BY <1>1 DEF Staged, Holding, AtGate
<1> QED  BY <1>1, <1>2, <1>3, ChainFrame

\* The first item of a chain takes mutex 0.
LEMMA ChainLockStart ==
  ASSUME IInv, ChainInv, NEW t \in Contexts, LockStart(t)
  PROVE  ChainInv'
<1>0. pc \in [Contexts -> PcValues] /\ chainMutex \in [Cells -> Contexts \cup {NoThread}]
  BY DEF IInv, TypeOK
<1>1. /\ pc[t] = "chainStart" /\ pc' = [pc EXCEPT ![t] = "chainOwn"]
      /\ chainMutex[Cell(t, 0)] = NoThread /\ chainMutex' = [chainMutex EXCEPT ![Cell(t, 0)] = t]
      /\ UNCHANGED <<assigned, item, inst, endIdx>>
  BY DEF LockStart, Goto, LockChain, localVars
<1>2. Chained(item[t]) /\ ChainId[item[t]] = 1
  BY <1>1 DEF ChainInv, StageInv, OnlyChained
<1>3. Cell(t, 0) \in Cells
  BY <1>1, <1>2, CellThere DEF Choosing
<1>4. /\ chainMutex'[Cell(t, 0)] # NoThread
      /\ \A c : c # Cell(t, 0) => chainMutex'[c] = chainMutex[c]
  BY <1>0, <1>1, <1>3, Constants
<1>5. /\ pc'[t] = "chainOwn" /\ \A u \in Contexts : u # t => pc'[u] = pc[u]
  BY <1>0, <1>1
<1>6. /\ \A i, n : AllAssigned(i, n)' <=> AllAssigned(i, n)
      /\ \A u \in Contexts : \A k : Cell(u, k)' = Cell(u, k)
  BY <1>1 DEF AllAssigned, Cell
<1>7. StageInv'
  BY <1>1, <1>2, <1>5 DEF ChainInv, StageInv, OnlyChained
<1>8. OwnLockInv'
  <2> SUFFICES ASSUME NEW u \in Contexts, pc'[u] \in Holding \cup {"assign"}, Chained(item[u])
               PROVE  chainMutex'[Cell(u, ChainId[item[u]])] = u
    BY <1>1, <1>6 DEF OwnLockInv
  <2>1. chainMutex[Cell(u, ChainId[item[u]])] = u
    BY <1>5 DEF ChainInv, OwnLockInv, Holding, AtGate
  <2>2. u # NoThread
    BY Constants
  <2> QED  BY <1>1, <1>4, <2>1, <2>2
<1>9. GateInv'
  <2>1. ASSUME NEW u \in Contexts, pc'[u] \in {"chainOwn", "assign"}, Chained(item[u]), ChainId[item[u]] = 1
        PROVE  chainMutex'[Cell(u, 0)] # NoThread
    <3>1. CASE u = t
      BY <1>4, <3>1
    <3>2. CASE u # t
      <4>1. chainMutex[Cell(u, 0)] # NoThread
        BY <1>5, <2>1, <3>2 DEF ChainInv, GateInv
      <4> QED  BY <1>4, <4>1
    <3> QED  BY <3>1, <3>2
  <2>2. ASSUME NEW f \in Items, NEW n \in Nat, Chained(f), ChainId[f] = 1, assigned[f] > n, ~AllAssigned(f, n)
        PROVE  chainMutex'[<<n, ChainUid[f], 0>>] # NoThread
    <3>1. chainMutex[<<n, ChainUid[f], 0>>] # NoThread
      BY <2>2 DEF ChainInv, GateInv
    <3> QED  BY <1>4, <3>1
  <2> QED  BY <1>1, <1>6, <2>1, <2>2 DEF GateInv
<1>10. StartedInv' /\ WaitingInv'
  BY <1>1, <1>5, <1>6 DEF ChainInv, StartedInv, WaitingInv, AtGate
<1>11. TogetherInv'
  <2>1. \A u \in Contexts : \A j, n, k : AtWork(u, j, n, k) => AtWork(u, j, n, k)'
    BY <1>1, <1>5 DEF AtWork, Holding, AtGate
  <2> QED  BY <1>1, <1>5, <1>6, <2>1 DEF ChainInv, TogetherInv, Holding, AtGate
<1> QED  BY <1>7, <1>8, <1>9, <1>10, <1>11 DEF ChainInv

\* An item of a chain takes its own mutex.
LEMMA ChainLockOwn ==
  ASSUME IInv, ChainInv, NEW t \in Contexts, LockOwn(t)
  PROVE  ChainInv'
<1>0. pc \in [Contexts -> PcValues] /\ chainMutex \in [Cells -> Contexts \cup {NoThread}]
  BY DEF IInv, TypeOK
<1> DEFINE own == Cell(t, ChainId[item[t]])
<1>1. /\ pc[t] = "chainOwn" /\ pc' = [pc EXCEPT ![t] = "assign"]
      /\ chainMutex[own] = NoThread /\ chainMutex' = [chainMutex EXCEPT ![own] = t]
      /\ UNCHANGED <<assigned, item, inst, endIdx>>
  BY DEF LockOwn, Goto, LockChain, localVars
<1>2. Chained(item[t])
  BY <1>1 DEF ChainInv, StageInv, OnlyChained
<1>3. own \in Cells
  BY <1>1, <1>2, CellThere DEF Choosing
<1>4. /\ chainMutex'[own] = t /\ t # NoThread
      /\ \A c : c # own => chainMutex'[c] = chainMutex[c]
  BY <1>0, <1>1, <1>3, Constants
<1>5. /\ pc'[t] = "assign" /\ \A u \in Contexts : u # t => pc'[u] = pc[u]
  BY <1>0, <1>1
<1>6. /\ \A i, n : AllAssigned(i, n)' <=> AllAssigned(i, n)
      /\ \A u \in Contexts : \A k : Cell(u, k)' = Cell(u, k)
  BY <1>1 DEF AllAssigned, Cell
<1>7. StageInv'
  BY <1>1, <1>2, <1>5 DEF ChainInv, StageInv, OnlyChained
<1>8. OwnLockInv'
  <2> SUFFICES ASSUME NEW u \in Contexts, pc'[u] \in Holding \cup {"assign"}, Chained(item[u])
               PROVE  chainMutex'[Cell(u, ChainId[item[u]])] = u
    BY <1>1, <1>6 DEF OwnLockInv
  <2>1. CASE u = t
    BY <1>4, <2>1
  <2>2. CASE u # t
    <3>1. chainMutex[Cell(u, ChainId[item[u]])] = u
      BY <1>5, <2>2 DEF ChainInv, OwnLockInv
    <3>2. u # NoThread
      BY Constants
    <3> QED  BY <1>1, <1>4, <3>1, <3>2
  <2> QED  BY <2>1, <2>2
<1>9. GateInv'
  <2>1. ASSUME NEW u \in Contexts, pc'[u] \in {"chainOwn", "assign"}, Chained(item[u]), ChainId[item[u]] = 1
        PROVE  chainMutex'[Cell(u, 0)] # NoThread
    <3>1. chainMutex[Cell(u, 0)] # NoThread
      BY <1>1, <1>5, <2>1 DEF ChainInv, GateInv
    <3> QED  BY <1>4, <3>1
  <2>2. ASSUME NEW f \in Items, NEW n \in Nat, Chained(f), ChainId[f] = 1, assigned[f] > n, ~AllAssigned(f, n)
        PROVE  chainMutex'[<<n, ChainUid[f], 0>>] # NoThread
    <3>1. chainMutex[<<n, ChainUid[f], 0>>] # NoThread
      BY <2>2 DEF ChainInv, GateInv
    <3> QED  BY <1>4, <3>1
  <2> QED  BY <1>1, <1>6, <2>1, <2>2 DEF GateInv
<1>10. StartedInv' /\ WaitingInv'
  BY <1>1, <1>5, <1>6 DEF ChainInv, StartedInv, WaitingInv, AtGate
<1>11. TogetherInv'
  <2>1. \A u \in Contexts : \A j, n, k : AtWork(u, j, n, k) => AtWork(u, j, n, k)'
    BY <1>1, <1>5 DEF AtWork, Holding, AtGate
  <2> QED  BY <1>1, <1>5, <1>6, <2>1 DEF ChainInv, TogetherInv, Holding, AtGate
<1> QED  BY <1>7, <1>8, <1>9, <1>10, <1>11 DEF ChainInv

\* The assignment: the last item of a chain finds all others waiting.
LEMMA ChainAssign ==
  ASSUME IInv, ChainsInOrder, ChainInv, NEW t \in Contexts, Assign(t)
  PROVE  ChainInv'
<1>0. pc \in [Contexts -> PcValues] /\ assigned \in [Items -> Nat] /\ TypeOK /\ LockStep
  BY InStep DEF IInv, TypeOK
<1>1. /\ pc[t] = "assign" /\ item[t] \in Items /\ inst[t] = assigned[item[t]]
      /\ assigned' = [assigned EXCEPT ![item[t]] = @ + 1]
      /\ UNCHANGED <<chainMutex, item, inst, endIdx>>
  BY AssignEffect
<1>2. PICK i \in Items, m \in Nat : i = item[t] /\ m = inst[t] /\ m = assigned[i]
  BY <1>0, <1>1
<1>3. /\ assigned'[i] = m + 1 /\ \A j \in Items : j # i => assigned'[j] = assigned[j]
      /\ \A j \in Items : assigned[j] \in Nat
  BY <1>0, <1>1, <1>2
<1>4. /\ Chained(i) => pc'[t] = "chainReady"
      /\ ~Chained(i) => pc'[t] \in {"bench", "relock"}
      /\ \A u \in Contexts : u # t => pc'[u] = pc[u]
  BY <1>0, <1>2 DEF Assign, Execute
<1>5. \A u \in Contexts : \A k : Cell(u, k)' = Cell(u, k)
  BY <1>1 DEF Cell
<1>6. ASSUME NEW j \in Items, NEW n \in Nat, AllAssigned(j, n)
      PROVE  AllAssigned(j, n)'
  <2>1. ASSUME NEW l \in Items, assigned[l] > n
        PROVE  assigned'[l] > n
    <3>1. CASE l = i
      BY <1>2, <1>3, <2>1, <3>1
    <3>2. CASE l # i
      BY <1>3, <2>1, <3>2
    <3> QED  BY <3>1, <3>2
  <2> QED  BY <1>6, <2>1 DEF AllAssigned, SameChain, Chained, IsLast
<1>7. StageInv'
  BY <1>1, <1>2, <1>4 DEF ChainInv, StageInv, OnlyChained
<1>8. OwnLockInv'
  BY <1>1, <1>2, <1>4, <1>5 DEF ChainInv, OwnLockInv, Holding, AtGate
<1>9. GateInv'
  <2>1. ASSUME NEW u \in Contexts, pc'[u] \in {"chainOwn", "assign"}, Chained(item[u]), ChainId[item[u]] = 1
        PROVE  chainMutex[Cell(u, 0)] # NoThread
    <3>1. u # t
      BY <1>4, <2>1
    <3> QED  BY <1>4, <2>1, <3>1 DEF ChainInv, GateInv
  <2>2. ASSUME NEW f \in Items, NEW n \in Nat, Chained(f), ChainId[f] = 1, assigned'[f] > n, ~AllAssigned(f, n)'
        PROVE  chainMutex[<<n, ChainUid[f], 0>>] # NoThread
    <3>1. ~AllAssigned(f, n)
      BY <1>6, <2>2
    <3>2. CASE assigned[f] > n
      BY <2>2, <3>1, <3>2 DEF ChainInv, GateInv
    <3>3. CASE ~(assigned[f] > n)
      <4>1. f = i /\ n = m
        BY <1>2, <1>3, <2>2, <3>3
      <4>2. chainMutex[Cell(t, 0)] # NoThread
        BY <1>1, <1>2, <2>2, <4>1 DEF ChainInv, GateInv
      <4> QED  BY <1>2, <4>1, <4>2 DEF Cell
    <3> QED  BY <3>2, <3>3
  <2> QED  BY <1>1, <1>5, <2>1, <2>2 DEF GateInv
<1>10. StartedInv'
  <2> SUFFICES ASSUME NEW u \in Contexts, pc'[u] \in {"bench", "chainDone", "chainEnd"}, Chained(item[u])
               PROVE  AllAssigned(item[u], inst[u])'
    BY <1>1 DEF StartedInv
  <2>1. u # t
    BY <1>2, <1>4
  <2>2. AllAssigned(item[u], inst[u]) /\ item[u] \in Items /\ inst[u] \in Nat
    BY <1>0, <1>4, <2>1 DEF ChainInv, StartedInv, IInv, HoldInv, Working, TypeOK
  <2>3. ASSUME NEW j, NEW n, j = item[u], n = inst[u]
        PROVE  AllAssigned(j, n)'
    BY <1>6, <2>2, <2>3
  <2> QED  BY <1>1, <2>3 DEF AllAssigned
<1>11. WaitingInv'
  <2> SUFFICES ASSUME NEW j \in Items, NEW n \in Nat, Chained(j), assigned'[j] > n, ~AllAssigned(j, n)'
               PROVE  \E u \in Contexts : pc'[u] \in AtGate /\ item[u] = j /\ inst[u] = n
    BY <1>1 DEF WaitingInv
  <2>1. ~AllAssigned(j, n)
    BY <1>6
  <2>2. CASE assigned[j] > n
    <3>1. PICK u \in Contexts : pc[u] \in AtGate /\ item[u] = j /\ inst[u] = n
      BY <2>1, <2>2 DEF ChainInv, WaitingInv
    <3>2. u # t
      BY <1>1, <3>1 DEF AtGate
    <3> QED  BY <1>4, <3>1, <3>2
  <2>3. CASE ~(assigned[j] > n)
    <3>1. j = i /\ n = m
      BY <1>2, <1>3, <2>3
    <3> QED  BY <1>2, <1>4, <3>1 DEF AtGate
  <2> QED  BY <2>2, <2>3
<1>12. TogetherInv'
  <2> SUFFICES ASSUME NEW w \in Contexts, pc'[w] \in Holding, Chained(item[w]), ChainId[item[w]] < MCL,
                      AllAssigned(item[w], inst[w])',
                      NEW j \in Items, SameChain(item[w], j)
               PROVE  \E u \in Contexts : AtWork(u, j, inst[w], ChainId[item[w]])'
    BY <1>1 DEF TogetherInv, SameChain
  <2>0. item[w] \in Items /\ inst[w] \in Nat
    BY <1>0, <1>1, <1>4 DEF IInv, HoldInv, Holding, AtGate, Working, TypeOK
  <2>a. PICK x \in Items, n \in Nat, k \in {ChainId[item[w]]} : x = item[w] /\ n = inst[w] /\ k = ChainId[x]
    BY <2>0
  <2>b. Chained(x) /\ SameChain(x, j) /\ AllAssigned(x, n)'
    BY <1>1, <2>a DEF AllAssigned
  <2>c. ASSUME NEW u \in Contexts, AtWork(u, j, n, k)'
        PROVE  \E v \in Contexts : AtWork(v, j, inst[w], ChainId[item[w]])'
    BY <1>1, <2>a, <2>c DEF AtWork
  <2>d. ASSUME NEW u \in Contexts, u # t, AtWork(u, j, n, k)
        PROVE  AtWork(u, j, n, k)'
    BY <1>1, <1>4, <2>d DEF AtWork
  <2>1. CASE w # t /\ AllAssigned(x, n)
    <3>1. PICK u \in Contexts : AtWork(u, j, n, k)
      BY <1>4, <2>1, <2>a, <2>b DEF ChainInv, TogetherInv
    <3>2. u # t
      BY <1>1, <3>1 DEF AtWork, Holding, AtGate
    <3> QED  BY <2>c, <2>d, <3>1, <3>2
  <2>2. CASE ~(w # t /\ AllAssigned(x, n))
    <3>1. n = m /\ SameChain(x, i) /\ IsLast(i)
      <4>1. CASE w = t
        <5>1. x = i /\ n = m
          BY <1>2, <2>a, <4>1
        <5>2. PICK l \in Items : SameChain(x, l) /\ IsLast(l)
          BY <2>a, <2>b DEF ChainsInOrder
        <5>3. assigned'[l] > n /\ assigned[l] <= assigned[i]
          BY <1>0, <2>a, <2>b, <5>1, <5>2, ChainOrder DEF AllAssigned
        <5>4. l = i
          BY <1>2, <1>3, <5>1, <5>3
        <5> QED  BY <5>1, <5>2, <5>4
      <4>2. CASE ~AllAssigned(x, n)
        <5>1. PICK l \in Items : SameChain(x, l) /\ IsLast(l) /\ ~(assigned[l] > n)
          BY <4>2 DEF AllAssigned
        <5>2. assigned'[l] > n
          BY <2>b, <5>1 DEF AllAssigned
        <5>3. l = i /\ n = m
          BY <1>2, <1>3, <5>1, <5>2
        <5> QED  BY <5>1, <5>3
      <4> QED  BY <2>2, <4>1, <4>2
    <3>2. CASE j = i
      <4>1. Chained(i) /\ AtWork(t, j, n, k)'
        BY <1>1, <1>2, <1>4, <3>1, <3>2 DEF AtWork, Holding, AtGate, SameChain
      <4> QED  BY <2>c, <4>1
    <3>3. CASE j # i
      <4>1. SameChain(j, i)
        BY <2>b, <3>1 DEF SameChain
      <4>2. j < i
        <5>1. j <= i /\ j \in Nat /\ i \in Nat
          BY <1>0, <3>1, <4>1, ChainOrder, Constants
        <5> QED  BY <3>3, <5>1
      <4>3. assigned[j] > m
        <5>1. PICK q \in 0..Required : NextIs(i, q)
          BY <1>1, <1>2 DEF IInv, RoundInv, Choosing
        <5>2. assigned[j] = q + 1 /\ assigned[i] = q
          BY <4>2, <5>1, Constants DEF NextIs
        <5> QED  BY <1>2, <5>1, <5>2, Constants
      <4>4. ~AllAssigned(j, m)
        BY <1>2, <1>3, <3>1, <4>1 DEF AllAssigned
      <4>5. PICK u \in Contexts : pc[u] \in AtGate /\ item[u] = j /\ inst[u] = m
        BY <4>1, <4>3, <4>4 DEF ChainInv, WaitingInv, SameChain
      <4>6. u # t /\ AtWork(u, j, n, k)
        BY <1>1, <3>1, <4>5 DEF AtWork, Holding, AtGate
      <4> QED  BY <2>c, <2>d, <4>6
    <3> QED  BY <3>2, <3>3
  <2> QED  BY <2>1, <2>2
<1> QED  BY <1>7, <1>8, <1>9, <1>10, <1>11, <1>12 DEF ChainInv

\* The last item of a chain lets the others start: whoever chooses its first
\* item again does so in a later instance.
LEMMA ChainReleaseStart ==
  ASSUME IInv, ChainsInOrder, ChainInv, NEW t \in Contexts, ReleaseStart(t)
  PROVE  ChainInv'
<1>0. /\ pc \in [Contexts -> PcValues] /\ chainMutex \in [Cells -> Contexts \cup {NoThread}]
      /\ TypeOK /\ LockStep /\ assigned \in [Items -> Nat]
  BY InStep DEF IInv, TypeOK
<1>1. /\ pc[t] = "chainReady" /\ pc' = [pc EXCEPT ![t] = "chainWait"]
      /\ UNCHANGED <<assigned, item, inst, endIdx>>
      /\ chainMutex' = IF IsLast(item[t]) THEN [chainMutex EXCEPT ![Cell(t, 0)] = NoThread] ELSE chainMutex
  BY DEF ReleaseStart, Goto, UnlockChain, localVars
<1>2. Chained(item[t])
  BY <1>1 DEF ChainInv, StageInv, OnlyChained
<1>3. Cell(t, 0) \in Cells /\ item[t] \in Items /\ inst[t] \in Nat /\ inst[t] < assigned[item[t]]
  BY <1>1, <1>2, CellThere DEF Working, IInv, HoldInv
<1>4. \A c : c # Cell(t, 0) \/ ~IsLast(item[t]) => chainMutex'[c] = chainMutex[c]
  BY <1>0, <1>1, <1>3
<1>5. /\ pc'[t] = "chainWait" /\ \A u \in Contexts : u # t => pc'[u] = pc[u]
  BY <1>0, <1>1
<1>6. /\ \A i, n : AllAssigned(i, n)' <=> AllAssigned(i, n)
      /\ \A u \in Contexts : \A k : Cell(u, k)' = Cell(u, k)
  BY <1>1 DEF AllAssigned, Cell
<1>7. StageInv'
  BY <1>1, <1>2, <1>5 DEF ChainInv, StageInv, OnlyChained
<1>8. OwnLockInv'
  <2> SUFFICES ASSUME NEW u \in Contexts, pc'[u] \in Holding \cup {"assign"}, Chained(item[u])
               PROVE  chainMutex'[Cell(u, ChainId[item[u]])] = u
    BY <1>1, <1>6 DEF OwnLockInv
  <2>1. pc[u] \in Holding \cup {"assign"}
    BY <1>1, <1>5 DEF Holding, AtGate
  <2>2. chainMutex[Cell(u, ChainId[item[u]])] = u
    BY <2>1 DEF ChainInv, OwnLockInv
  <2>3. item[u] \in Items
    BY <2>1 DEF IInv, HoldInv, Holding, AtGate, Choosing, Working
  <2>4. Cell(u, ChainId[item[u]]) # Cell(t, 0)
    BY <2>3, ChainNumbers DEF Cell
  <2> QED  BY <1>4, <2>2, <2>4
<1>9. GateInv'
  <2>1. ASSUME NEW f \in Items, NEW n \in Nat, Chained(f), ChainId[f] = 1, IsLast(item[t]),
               <<n, ChainUid[f], 0>> = Cell(t, 0)
        PROVE  AllAssigned(f, n) /\ assigned[f] # n
    <3>1. n = inst[t] /\ SameChain(f, item[t])
      BY <1>2, <2>1 DEF Cell, SameChain
    <3>2. assigned[item[t]] <= assigned[f] /\ assigned[item[t]] > n
          /\ assigned[f] \in Nat /\ assigned[item[t]] \in Nat
      BY <1>0, <1>3, <2>1, <3>1, ChainOrder
    <3>3. ASSUME NEW l \in Items, SameChain(f, l), IsLast(l)
          PROVE  l = item[t]
      <4>1. SameChain(l, item[t])
        BY <3>1, <3>3 DEF SameChain
      <4> QED  BY <1>0, <1>3, <2>1, <3>3, <4>1, ChainOrder
    <3> QED  BY <3>2, <3>3 DEF AllAssigned
  <2>2. ASSUME NEW u \in Contexts, pc'[u] \in {"chainOwn", "assign"}, Chained(item[u]), ChainId[item[u]] = 1
        PROVE  chainMutex'[Cell(u, 0)] # NoThread
    <3>1. pc[u] \in {"chainOwn", "assign"} /\ chainMutex[Cell(u, 0)] # NoThread
      BY <1>5, <2>2 DEF ChainInv, GateInv
    <3>2. item[u] \in Items /\ inst[u] = assigned[item[u]]
      BY <3>1 DEF IInv, HoldInv, Choosing
    <3>3. Cell(u, 0) # Cell(t, 0) \/ ~IsLast(item[t])
      BY <1>0, <2>1, <2>2, <3>2 DEF Cell
    <3> QED  BY <1>4, <3>1, <3>3
  <2>3. ASSUME NEW f \in Items, NEW n \in Nat, Chained(f), ChainId[f] = 1, assigned[f] > n, ~AllAssigned(f, n)
        PROVE  chainMutex'[<<n, ChainUid[f], 0>>] # NoThread
    <3>1. chainMutex[<<n, ChainUid[f], 0>>] # NoThread
      BY <2>3 DEF ChainInv, GateInv
    <3> QED  BY <1>4, <2>1, <2>3, <3>1
  <2> QED  BY <1>1, <1>6, <2>2, <2>3 DEF GateInv
<1>10. StartedInv' /\ WaitingInv'
  BY <1>1, <1>5, <1>6 DEF ChainInv, StartedInv, WaitingInv, AtGate
<1>11. TogetherInv'
  <2>1. \A u \in Contexts : \A j, n, k : AtWork(u, j, n, k) => AtWork(u, j, n, k)'
    BY <1>1, <1>5 DEF AtWork, Holding, AtGate
  <2>2. \A u \in Contexts : pc'[u] \in Holding => pc[u] \in Holding
    BY <1>1, <1>5 DEF Holding, AtGate
  <2> QED  BY <1>1, <1>6, <2>1, <2>2 DEF ChainInv, TogetherInv
<1> QED  BY <1>7, <1>8, <1>9, <1>10, <1>11 DEF ChainInv

\* Mutex 0 is free: the chain's last item is assigned.
LEMMA ChainWaitStart ==
  ASSUME IInv, ChainsInOrder, ChainInv, NEW t \in Contexts, WaitStart(t)
  PROVE  ChainInv'
<1>0. /\ pc \in [Contexts -> PcValues] /\ TypeOK /\ LockStep /\ assigned \in [Items -> Nat]
  BY InStep DEF IInv, TypeOK
<1>1. /\ pc[t] = "chainWait" /\ chainMutex[Cell(t, 0)] = NoThread
      /\ UNCHANGED <<assigned, item, inst, endIdx, chainMutex>>
  BY DEF WaitStart, Goto, localVars, poolVars
<1>2. Chained(item[t]) /\ item[t] \in Items /\ inst[t] \in Nat /\ inst[t] < assigned[item[t]]
  BY <1>1, CellThere DEF ChainInv, StageInv, OnlyChained, Working, IInv, HoldInv
<1>3. pc'[t] \in {"bench", "chainDone"} /\ \A u \in Contexts : u # t => pc'[u] = pc[u]
  BY <1>0, <1>2 DEF WaitStart, Goto, Execute
<1>4. /\ \A i, n : AllAssigned(i, n)' <=> AllAssigned(i, n)
      /\ \A u \in Contexts : \A k : Cell(u, k)' = Cell(u, k)
  BY <1>1 DEF AllAssigned, Cell
<1>5. PICK i \in Items, m \in Nat : i = item[t] /\ m = inst[t]
  BY <1>2
<1>6. AllAssigned(i, m)
  <2> SUFFICES ASSUME ~AllAssigned(i, m)
               PROVE  FALSE
    OBVIOUS
  <2>1. PICK f \in Items : SameChain(i, f) /\ ChainId[f] = 1
    BY <1>2, <1>5 DEF ChainsInOrder
  <2>2. SameChain(f, i) /\ Chained(f) /\ ChainUid[f] = ChainUid[i]
    BY <2>1 DEF SameChain
  <2>3. assigned[i] <= assigned[f]
    BY <1>0, <2>1, <2>2, ChainOrder
  <2>4. assigned[f] > m
    BY <1>0, <1>2, <1>5, <2>3
  <2>5. ~AllAssigned(f, m)
    BY <2>1, SameAll
  <2>6. chainMutex[<<m, ChainUid[f], 0>>] # NoThread
    BY <2>1, <2>2, <2>4, <2>5 DEF ChainInv, GateInv
  <2> QED  BY <1>1, <1>5, <2>2, <2>6 DEF Cell
<1>7. StageInv'
  BY <1>1, <1>2, <1>3 DEF ChainInv, StageInv, OnlyChained
<1>8. OwnLockInv'
  BY <1>1, <1>3, <1>4 DEF ChainInv, OwnLockInv, Holding, AtGate
<1>9. GateInv'
  BY <1>1, <1>3, <1>4 DEF ChainInv, GateInv
<1>10. StartedInv'
  BY <1>1, <1>3, <1>4, <1>5, <1>6 DEF ChainInv, StartedInv
<1>11. WaitingInv'
  <2> SUFFICES ASSUME NEW j \in Items, NEW n \in Nat, Chained(j), assigned[j] > n, ~AllAssigned(j, n)
               PROVE  \E u \in Contexts : pc'[u] \in AtGate /\ item[u] = j /\ inst[u] = n
    BY <1>1, <1>4 DEF WaitingInv
  <2>1. PICK u \in Contexts : pc[u] \in AtGate /\ item[u] = j /\ inst[u] = n
    BY DEF ChainInv, WaitingInv
  <2>2. u # t
    BY <1>5, <1>6, <2>1
  <2> QED  BY <1>3, <2>1, <2>2
<1>12. TogetherInv'
  <2>1. \A u \in Contexts : \A j, n, k : AtWork(u, j, n, k) => AtWork(u, j, n, k)'
    BY <1>1, <1>3 DEF AtWork, Holding, AtGate
  <2>2. \A u \in Contexts : pc'[u] \in Holding => pc[u] \in Holding
    BY <1>1, <1>3 DEF Holding, AtGate
  <2> QED  BY <1>1, <1>4, <2>1, <2>2 DEF ChainInv, TogetherInv
<1> QED  BY <1>7, <1>8, <1>9, <1>10, <1>11, <1>12 DEF ChainInv

\* The execution.
LEMMA ChainBench ==
  ASSUME IInv, ChainInv, NEW t \in Contexts, Bench(t)
  PROVE  ChainInv'
<1>0. pc \in [Contexts -> PcValues]
  BY DEF IInv, TypeOK
<1>1. /\ pc[t] = "bench" /\ UNCHANGED <<assigned, item, inst, endIdx, chainMutex>>
      /\ pc'[t] = IF Chained(item[t]) THEN "chainDone" ELSE "relock"
      /\ \A u \in Contexts : u # t => pc'[u] = pc[u]
  BY <1>0 DEF Bench, Goto, poolVars
<1>2. StageInv'
  BY <1>1 DEF ChainInv, StageInv, OnlyChained
<1>3. CASE ~Chained(item[t])
  BY <1>1, <1>2, <1>3, ChainFrame DEF Staged, Holding, AtGate
<1>4. CASE Chained(item[t])
  <2>1. /\ \A i, n : AllAssigned(i, n)' <=> AllAssigned(i, n)
        /\ \A u \in Contexts : \A k : Cell(u, k)' = Cell(u, k)
    BY <1>1 DEF AllAssigned, Cell
  <2>2. OwnLockInv' /\ GateInv' /\ StartedInv' /\ WaitingInv'
    BY <1>1, <1>4, <2>1 DEF ChainInv, OwnLockInv, GateInv, StartedInv, WaitingInv, Holding, AtGate
  <2>3. TogetherInv'
    <3>1. \A u \in Contexts : \A j, n, k : AtWork(u, j, n, k) => AtWork(u, j, n, k)'
      BY <1>1, <1>4 DEF AtWork, Holding, AtGate
    <3>2. \A u \in Contexts : pc'[u] \in Holding => pc[u] \in Holding
      BY <1>1 DEF Holding, AtGate
    <3> QED  BY <1>1, <2>1, <3>1, <3>2 DEF ChainInv, TogetherInv
  <2> QED  BY <1>2, <2>2, <2>3 DEF ChainInv
<1> QED  BY <1>3, <1>4

\* An item that is done lets go of its own mutex and starts the end loop.
LEMMA ChainUnlockOwn ==
  ASSUME IInv, ChainsInOrder, ChainInv, NEW t \in Contexts, UnlockOwn(t)
  PROVE  ChainInv'
<1>0. /\ pc \in [Contexts -> PcValues] /\ chainMutex \in [Cells -> Contexts \cup {NoThread}]
      /\ endIdx \in [Contexts -> 0..MCL]
  BY DEF IInv, TypeOK
<1> DEFINE own == Cell(t, ChainId[item[t]])
<1>1. /\ pc[t] = "chainDone" /\ pc' = [pc EXCEPT ![t] = "chainEnd"]
      /\ endIdx' = [endIdx EXCEPT ![t] = 0]
      /\ chainMutex' = [chainMutex EXCEPT ![own] = NoThread]
      /\ UNCHANGED <<assigned, item, inst>>
  BY DEF UnlockOwn, Goto, UnlockChain
<1>2. Chained(item[t])
  BY <1>1 DEF ChainInv, StageInv, OnlyChained
<1>3. own \in Cells /\ item[t] \in Items /\ ChainId[item[t]] # 0
  BY <1>1, <1>2, CellThere, ChainNumbers DEF Working
<1>4. \A c : c # own => chainMutex'[c] = chainMutex[c]
  BY <1>0, <1>1, <1>3
<1>5. /\ pc'[t] = "chainEnd" /\ endIdx'[t] = 0
      /\ \A u \in Contexts : u # t => pc'[u] = pc[u] /\ endIdx'[u] = endIdx[u]
  BY <1>0, <1>1
<1>6. /\ \A i, n : AllAssigned(i, n)' <=> AllAssigned(i, n)
      /\ \A u \in Contexts : \A k : Cell(u, k)' = Cell(u, k)
  BY <1>1 DEF AllAssigned, Cell
<1>7. StageInv'
  BY <1>1, <1>2, <1>5 DEF ChainInv, StageInv, OnlyChained
<1>8. OwnLockInv'
  <2> SUFFICES ASSUME NEW u \in Contexts, pc'[u] \in Holding \cup {"assign"}, Chained(item[u])
               PROVE  chainMutex'[Cell(u, ChainId[item[u]])] = u
    BY <1>1, <1>6 DEF OwnLockInv
  <2>1. u # t
    BY <1>5 DEF Holding, AtGate
  <2>2. Cell(u, ChainId[item[u]]) # own
    BY <1>1, <1>2, <1>5, <2>1, OwnCells DEF Holding
  <2>3. chainMutex[Cell(u, ChainId[item[u]])] = u
    BY <1>5, <2>1 DEF ChainInv, OwnLockInv
  <2> QED  BY <1>4, <2>2, <2>3
<1>9. GateInv'
  <2>1. \A n, c : chainMutex'[<<n, c, 0>>] = chainMutex[<<n, c, 0>>]
    BY <1>3, <1>4 DEF Cell
  <2>2. \A u \in Contexts : chainMutex'[Cell(u, 0)'] = chainMutex[Cell(u, 0)]
    BY <1>6, <2>1 DEF Cell
  <2> QED  BY <1>1, <1>5, <1>6, <2>1, <2>2 DEF ChainInv, GateInv
<1>10. StartedInv' /\ WaitingInv'
  BY <1>1, <1>5, <1>6 DEF ChainInv, StartedInv, WaitingInv, AtGate
<1>11. TogetherInv'
  <2>1. \A k \in 0..MCL, u \in Contexts : \A j, n : AtWork(u, j, n, k) => AtWork(u, j, n, k)'
    BY <1>0, <1>1, <1>5 DEF AtWork, Holding, AtGate
  <2>2. \A u \in Contexts : pc'[u] \in Holding => pc[u] \in Holding /\ item[u] \in Items
    BY <1>1, <1>5 DEF Holding, AtGate, IInv, HoldInv, Working
  <2>3. \A i \in Items : Chained(i) => ChainId[i] \in 0..MCL
    BY ChainNumbers
  <2> QED  BY <1>1, <1>6, <2>1, <2>2, <2>3 DEF ChainInv, TogetherInv
<1> QED  BY <1>7, <1>8, <1>9, <1>10, <1>11 DEF ChainInv

\* One turn of the end loop: it does not pass a mutex an item holds.
LEMMA ChainWaitEnd ==
  ASSUME IInv, ChainsInOrder, ChainInv, NEW t \in Contexts, WaitEnd(t)
  PROVE  ChainInv'
<1>0. /\ pc \in [Contexts -> PcValues] /\ endIdx \in [Contexts -> 0..MCL] /\ MCL \in Nat
  BY Constants DEF IInv, TypeOK
<1>1. /\ pc[t] = "chainEnd" /\ endIdx[t] < MCL
      /\ chainMutex[Cell(t, endIdx[t])] = NoThread
      /\ UNCHANGED <<assigned, item, inst, chainMutex>>
  BY DEF WaitEnd, poolVars
<1>2. Chained(item[t]) /\ item[t] \in Items
  BY <1>1 DEF ChainInv, StageInv, OnlyChained, IInv, HoldInv, Working
<1>3. /\ endIdx'[t] = endIdx[t] + 1
      /\ pc'[t] = IF endIdx[t] + 1 = MCL THEN "relock" ELSE "chainEnd"
      /\ \A u \in Contexts : u # t => pc'[u] = pc[u] /\ endIdx'[u] = endIdx[u]
  BY <1>0 DEF WaitEnd
<1>4. /\ \A i, n : AllAssigned(i, n)' <=> AllAssigned(i, n)
      /\ \A u \in Contexts : \A k : Cell(u, k)' = Cell(u, k)
  BY <1>1 DEF AllAssigned, Cell
<1>5. StageInv' /\ OwnLockInv' /\ GateInv'
  BY <1>1, <1>2, <1>3, <1>4 DEF ChainInv, StageInv, OwnLockInv, GateInv, OnlyChained, Holding, AtGate
<1>6. StartedInv' /\ WaitingInv'
  BY <1>1, <1>3, <1>4 DEF ChainInv, StartedInv, WaitingInv, AtGate
<1>7. TogetherInv'
  <2> SUFFICES ASSUME NEW w \in Contexts, pc'[w] \in Holding, Chained(item[w]), ChainId[item[w]] < MCL,
                      AllAssigned(item[w], inst[w]),
                      NEW j \in Items, SameChain(item[w], j)
               PROVE  \E u \in Contexts : AtWork(u, j, inst[w], ChainId[item[w]])'
    BY <1>1, <1>4 DEF TogetherInv, SameChain
  <2>1. pc[w] \in Holding /\ w # t
    BY <1>3 DEF Holding, AtGate
  <2>2. PICK k, n : k \in Nat /\ k = ChainId[item[w]] /\ n = inst[w] /\ k < MCL
    BY <2>1, ChainNumbers DEF IInv, HoldInv, Holding, AtGate, Working
  <2>3. PICK u \in Contexts : AtWork(u, j, n, k)
    BY <2>1, <2>2 DEF ChainInv, TogetherInv
  <2>4. CASE u # t
    BY <1>1, <1>3, <2>2, <2>3, <2>4 DEF AtWork
  <2>5. CASE u = t
    <3>1. item[t] = j /\ inst[t] = n /\ endIdx[t] <= k
      BY <1>1, <2>3, <2>5 DEF AtWork, Holding, AtGate
    <3>2. Cell(t, k) = Cell(w, k)
      BY <2>2, <3>1 DEF Cell, SameChain
    <3>3. chainMutex[Cell(w, k)] = w
      BY <2>1, <2>2 DEF ChainInv, OwnLockInv
    <3>4. endIdx[t] # k
      BY <1>1, <3>2, <3>3, Constants
    <3>5. endIdx'[t] <= k /\ pc'[t] = "chainEnd"
      BY <1>0, <1>3, <2>2, <3>1, <3>4
    <3> QED  BY <1>1, <2>2, <3>1, <3>5 DEF AtWork
  <2> QED  BY <2>4, <2>5
<1> QED  BY <1>5, <1>6, <1>7 DEF ChainInv

\* The steps of the main thread.
LEMMA ChainMain ==
  ASSUME IInv, ChainInv, CreateThread \/ JoinThread \/ ReportResults \/ UNCHANGED vars
  PROVE  ChainInv'
<1>1. CASE CreateThread
  <2>1. created \in Contexts /\ pc[created] = "none" /\ pc \in [Contexts -> PcValues]
    BY <1>1, Constants DEF CreateThread, IInv, TypeOK, MainInv, Contexts
  <2>2. PICK t \in Contexts : t = created
    BY <2>1
  <2>3. /\ pc[t] = "none" /\ pc'[t] = "lock" /\ \A u \in Contexts : u # t => pc'[u] = pc[u]
        /\ UNCHANGED <<assigned, chainMutex, item, inst, endIdx>>
    BY <1>1, <2>1, <2>2 DEF CreateThread, poolVars, localVars
  <2>4. StageInv'
    BY <2>3 DEF ChainInv, StageInv, OnlyChained
  <2> QED  BY <2>3, <2>4, ChainFrame DEF Staged, Holding, AtGate
<1>2. CASE JoinThread \/ ReportResults \/ UNCHANGED vars
  <2>1. UNCHANGED <<assigned, chainMutex, item, inst, endIdx, pc>>
    BY <1>2 DEF JoinThread, ReportResults, vars, poolVars, localVars
  <2> QED
    BY <2>1 DEF ChainInv, StageInv, OwnLockInv, GateInv, StartedInv, WaitingInv, TogetherInv,
                AllAssigned, AtWork, Cell
<1> QED  BY <1>1, <1>2

\* Every step keeps it.
LEMMA ChainStep ==
  ASSUME IInv, ChainsInOrder, ChainInv, [Next]_vars
  PROVE  ChainInv'
BY ChainIdle, ChainLockStart, ChainLockOwn, ChainAssign, ChainReleaseStart, ChainWaitStart,
   ChainBench, ChainUnlockOwn, ChainWaitEnd, ChainMain DEF Next, Thread, Main, Ended

\* The start gate (mutex 0) and the mutex of each item keep the items of a
\* chain instance together: while one that the end loop waits for executes,
\* every other has a thread that has not left the chain.
THEOREM ChainsTogether ==
  ASSUME ChainsInOrder
  PROVE  Spec => []ChainRunsTogether
<1>1. Init => ChainInv
  <2> SUFFICES ASSUME Init PROVE ChainInv
    OBVIOUS
  <2>1. \A t \in Contexts : pc[t] = "none"
    BY DEF Init
  <2>2. \A i \in Items, n \in Nat : ~(assigned[i] > n)
    BY DEF Init
  <2> QED
    BY <2>1, <2>2 DEF ChainInv, StageInv, OwnLockInv, GateInv, StartedInv, WaitingInv, TogetherInv,
                      OnlyChained, Holding, AtGate
<1>2. IInv /\ ChainInv /\ [Next]_vars => ChainInv'
  BY ChainStep
<1>3. ChainInv => ChainRunsTogether
  <2> SUFFICES ASSUME ChainInv,
                      NEW t \in Contexts, pc[t] = "bench", Chained(item[t]), ChainId[item[t]] < MCL,
                      NEW j \in Items, SameChain(item[t], j)
               PROVE  \E u \in Contexts : Partner(t, u, j)
    BY DEF ChainRunsTogether
  <2>1. AllAssigned(item[t], inst[t])
    BY DEF ChainInv, StartedInv
  <2>2. PICK u \in Contexts : AtWork(u, j, inst[t], ChainId[item[t]])
    BY <2>1 DEF ChainInv, TogetherInv, Holding
  <2> QED  BY <2>2 DEF AtWork, Partner, Holding, AtGate, Working
<1> QED
  BY <1>1, <1>2, <1>3, PoolInvariant, PTL DEF Spec

=============================================================================
