--------------------------- MODULE ThMalloc_proofs ---------------------------
(***************************************************************************)
(* Proofs about the allocation statistics of ThMalloc, for any number of   *)
(* contexts, addresses, sizes and calls.                                   *)
(***************************************************************************)
EXTENDS ThMalloc, NaturalRecursion, FiniteSetTheorems, SequenceTheorems, TLAPS

-----------------------------------------------------------------------------
(* The inductive invariant.                                                *)

Entries == [data : Addrs \cup {Null}, info : 0..MaxSize]

\* The types, but for the totals.
TypeInv ==
  /\ heap \in [Addrs -> 0..MaxSize]
  /\ own \in [Threads -> SUBSET Addrs]
  /\ allocCall \in [Threads -> [op : {"none", "alloc", "realloc", "free"},
                           step : {"none", "check", "init", "initLock", "lock", "account", "libc"},
                           ptr : Addrs \cup {Null}, ret : Addrs \cup {Null}, size : 0..MaxSize]]
  /\ th_malloc_sizes \in Seq(Entries)
  /\ th_malloc_mutex \in Threads \cup {Free}
  /\ contexts \in {"alone", "running", "joined"}

\* What a thread's call is about: a block it has been given and owns, or one
\* that it owns no more, and that no other thread releases.
CallOf(t) ==
  /\ allocCall[t].op = "none" => allocCall[t] = NoAlloc
  /\ allocCall[t].op # "none" => allocCall[t].step # "none"
  /\ allocCall[t].step = "libc" => allocCall[t].op = "free"
  /\ allocCall[t].op \in {"alloc", "realloc"} => allocCall[t].ret \in own[t]
  /\ allocCall[t].op = "realloc" => allocCall[t].ptr \in Addrs

FreeOf(t) ==
  allocCall[t].op = "free" /\ allocCall[t].ptr # Null =>
    /\ heap[allocCall[t].ptr] # NoBlock
    /\ \A u \in Threads : /\ allocCall[t].ptr \notin own[u]
                          /\ u # t /\ allocCall[u].op = "free" => allocCall[u].ptr # allocCall[t].ptr

CallInv == \A t \in Threads : CallOf(t) /\ FreeOf(t)

\* Every block is owned by one thread.
OwnInv ==
  /\ \A t \in Threads : \A a \in own[t] : heap[a] # NoBlock
  /\ \A t, u \in Threads : t # u => own[t] \cap own[u] = {}

\* Only the contexts call while they run, and main keeps a block all along.
PhaseInv ==
  /\ contexts = "running" => allocCall[Main] = NoAlloc /\ own[Main] # {}
  /\ contexts # "running" => \A w \in Workers : allocCall[w] = NoAlloc

\* The mutex is held exactly over the statistics, and initialised when the list
\* is empty.
MutexInv ==
  \A t \in Threads :
    /\ allocCall[t].step = "account" <=> th_malloc_mutex = t
    /\ allocCall[t].step \in {"init", "initLock"} => th_malloc_sizes = <<>>

\* The entries for an address.
Positions(s, x) == {i \in 1..Len(s) : s[i].data = x}
Count(s, x) == Cardinality(Positions(s, x))

\* The reallocs that have left address x and not yet told the list.
Moving(x) == {t \in Threads : allocCall[t].op = "realloc" /\ allocCall[t].ptr = x}

\* A block that the list does not have yet, has no longer, or has.
Fresh(x) == \E t \in Threads : allocCall[t].op \in {"alloc", "realloc"} /\ allocCall[t].ret = x
Gone(x)  == \E t \in Threads : allocCall[t].step = "libc" /\ allocCall[t].ptr = x
Settled(x) == heap[x] # NoBlock /\ ~Fresh(x) /\ ~Gone(x)

\* The list has an address once for the block there, and once more for each
\* realloc under way that has left it.
ListInv ==
  /\ \A x \in Addrs :
       Count(th_malloc_sizes, x) = Cardinality(Moving(x)) + (IF Settled(x) THEN 1 ELSE 0)
  /\ Count(th_malloc_sizes, Null) <= 1

IInv == /\ TypeInv
        /\ CallInv
        /\ OwnInv
        /\ PhaseInv
        /\ MutexInv
        /\ ListInv

-----------------------------------------------------------------------------
(* Counting the entries for an address.                                    *)

\* The positions are finitely many, and naturals.
LEMMA PositionsFinite ==
  ASSUME NEW s \in Seq(Entries), NEW x
  PROVE  /\ IsFiniteSet(Positions(s, x)) /\ Count(s, x) \in Nat
         /\ Count(s, x) = 0 <=> Positions(s, x) = {}
<1>1. IsFiniteSet(1..Len(s))
  BY FS_Interval
<1>2. Positions(s, x) \subseteq 1..Len(s)
  BY DEF Positions
<1>3. IsFiniteSet(Positions(s, x))
  BY <1>1, <1>2, FS_Subset
<1> QED  BY <1>3, FS_CardinalityType, FS_EmptySet DEF Count

\* Two sets with a function from one onto the other that has an inverse are of
\* one size.
LEMMA SameSize ==
  ASSUME NEW S, NEW T, IsFiniteSet(S),
         \E f \in [S -> T], g \in [T -> S] :
           (\A i \in S : g[f[i]] = i) /\ (\A j \in T : f[g[j]] = j)
  PROVE  IsFiniteSet(T) /\ Cardinality(T) = Cardinality(S)
<1>0. PICK f \in [S -> T], g \in [T -> S] :
        (\A i \in S : g[f[i]] = i) /\ (\A j \in T : f[g[j]] = j)
  OBVIOUS
<1>1. f \in Bijection(S, T)
  BY <1>0 DEF Bijection, Injection, Surjection, IsInjective
<1>2. ExistsBijection(S, T)
  BY <1>1 DEF ExistsBijection
<1> QED  BY <1>2, FS_Bijection

\* ee_list_add puts an entry at the head.
LEMMA CountPrepend ==
  ASSUME NEW s \in Seq(Entries), NEW e \in Entries, NEW x
  PROVE  Count(<<e>> \o s, x) = Count(s, x) + (IF e.data = x THEN 1 ELSE 0)
<1> DEFINE t == <<e>> \o s
           P == Positions(s, x)
           Q == Positions(t, x) \ {1}
<1>1. /\ Len(t) = Len(s) + 1 /\ t[1] = e
      /\ \A i \in 1..Len(s) : t[i + 1] = s[i]
      /\ Len(s) \in Nat /\ t \in Seq(Entries)
  OBVIOUS
<1>2. Cardinality(Q) = Cardinality(P) /\ IsFiniteSet(Q)
  <2> DEFINE f == [i \in P |-> i + 1]
             g == [j \in Q |-> j - 1]
  <2>1. \A i \in P : i + 1 \in Q
    BY <1>1 DEF Positions
  <2>2. \A j \in Q : j - 1 \in P /\ j \in Nat
    BY <1>1 DEF Positions
  <2>3. \A i \in P : i \in Nat
    BY DEF Positions
  <2>4. f \in [P -> Q] /\ g \in [Q -> P] /\ (\A i \in P : g[f[i]] = i) /\ (\A j \in Q : f[g[j]] = j)
    BY <2>1, <2>2, <2>3
  <2>5. IsFiniteSet(P)
    BY PositionsFinite
  <2>6. \E a \in [P -> Q], b \in [Q -> P] :
          (\A i \in P : b[a[i]] = i) /\ (\A j \in Q : a[b[j]] = j)
    <3> HIDE DEF f, g, P, Q
    <3> QED  BY <2>4
  <2> HIDE DEF P, Q
  <2> QED  BY <2>5, <2>6, SameSize
<1>5. Cardinality(P) \in Nat
  BY PositionsFinite DEF Count
<1>3. ASSUME e.data = x
      PROVE  Cardinality(Positions(t, x)) = Cardinality(P) + 1
  <2>1. Positions(t, x) = Q \cup {1} /\ 1 \notin Q
    BY <1>1, <1>3 DEF Positions
  <2> HIDE DEF t, P, Q
  <2>2. Cardinality(Positions(t, x)) = Cardinality(Q) + 1
    BY <1>2, <2>1, FS_AddElement
  <2> QED  BY <1>2, <1>3, <2>2
<1>4. ASSUME e.data # x
      PROVE  Cardinality(Positions(t, x)) = Cardinality(P)
  <2>1. Positions(t, x) = Q
    BY <1>1, <1>4 DEF Positions
  <2> HIDE DEF t, P, Q
  <2> QED  BY <1>2, <1>4, <1>5, <2>1
<1> HIDE DEF t, P
<1>6. Count(t, x) = Cardinality(Positions(t, x)) /\ Count(s, x) = Cardinality(P)
  BY DEF Count, P
<1>7. Count(t, x) = Count(s, x) + (IF e.data = x THEN 1 ELSE 0)
  BY <1>3, <1>4, <1>5, <1>6
<1> QED  BY <1>7 DEF t

\* An entry gets other contents.
LEMMA CountReplace ==
  ASSUME NEW s \in Seq(Entries), NEW e \in Entries, NEW x, NEW i \in 1..Len(s)
  PROVE  Count([s EXCEPT ![i] = e], x) =
           (Count(s, x) - (IF s[i].data = x THEN 1 ELSE 0)) + (IF e.data = x THEN 1 ELSE 0)
<1> DEFINE t == [s EXCEPT ![i] = e]
           P == Positions(s, x)
<1>1. /\ Len(t) = Len(s) /\ t[i] = e /\ \A j \in 1..Len(s) : j # i => t[j] = s[j]
  OBVIOUS
<1>2. /\ IsFiniteSet(P) /\ IsFiniteSet(P \ {i}) /\ Cardinality(P) \in Nat
      /\ Cardinality(P \ {i}) = Cardinality(P) - (IF s[i].data = x THEN 1 ELSE 0)
  <2>1. IsFiniteSet(P) /\ Cardinality(P) \in Nat
    BY PositionsFinite DEF Count
  <2>2. i \in P <=> s[i].data = x
    BY DEF Positions
  <2> HIDE DEF P
  <2> QED  BY <2>1, <2>2, FS_RemoveElement
<1>3. ASSUME e.data = x
      PROVE  Cardinality(Positions(t, x)) = Cardinality(P \ {i}) + 1
  <2>1. Positions(t, x) = (P \ {i}) \cup {i}
    BY <1>1, <1>3 DEF Positions
  <2> DEFINE R == P \ {i}
  <2>2. IsFiniteSet(R) /\ i \notin R
    BY <1>2
  <2>3. Positions(t, x) = R \cup {i} /\ Cardinality(R) = Cardinality(P \ {i})
    BY <2>1
  <2> HIDE DEF t, R
  <2>4. Cardinality(Positions(t, x)) = Cardinality(R) + 1
    BY <2>2, <2>3, FS_AddElement
  <2> HIDE DEF P
  <2> QED  BY <1>2, <1>3, <2>3, <2>4
<1>4. ASSUME e.data # x
      PROVE  Cardinality(Positions(t, x)) = Cardinality(P \ {i})
  <2>1. Positions(t, x) = P \ {i}
    BY <1>1, <1>4 DEF Positions
  <2> HIDE DEF t, P
  <2> QED  BY <1>2, <1>4, <2>1
<1> HIDE DEF t, P
<1>6. Count(t, x) = Cardinality(Positions(t, x)) /\ Count(s, x) = Cardinality(P)
  BY DEF Count, P
<1>7. Count(t, x) = (Count(s, x) - (IF s[i].data = x THEN 1 ELSE 0)) + (IF e.data = x THEN 1 ELSE 0)
  BY <1>2, <1>3, <1>4, <1>6
<1> QED  BY <1>7 DEF t

\* ee_list_remove: the entries behind the one that goes move up.
LEMMA RemoveAtIs ==
  ASSUME NEW s \in Seq(Entries), NEW i \in 1..Len(s)
  PROVE  /\ RemoveAt(s, i) \in Seq(Entries) /\ Len(RemoveAt(s, i)) = Len(s) - 1
         /\ \A j \in 1..(i - 1) : RemoveAt(s, i)[j] = s[j]
         /\ \A j \in i..(Len(s) - 1) : RemoveAt(s, i)[j] = s[j + 1]
<1> DEFINE t == RemoveAt(s, i)
<1>9. i \in Nat /\ i >= 1 /\ i <= Len(s) /\ Len(s) \in Nat
  OBVIOUS
<1> DEFINE a == SubSeq(s, 1, i - 1)
           b == SubSeq(s, i + 1, Len(s))
<1>0. i - 1 \in Nat /\ Len(s) - i \in Nat
  BY <1>9
<1>1. a \in Seq(Entries) /\ Len(a) = i - 1 /\ \A j \in 1..(i - 1) : a[j] = s[j]
  BY <1>9
<1>2. b \in Seq(Entries) /\ Len(b) = Len(s) - i /\ \A j \in 1..(Len(s) - i) : b[j] = s[j + i]
  BY <1>9
<1>3. t = a \o b
  BY DEF RemoveAt
<1> HIDE DEF a, b, t
<1>4. t \in Seq(Entries) /\ Len(t) = Len(s) - 1
  <2>1. t \in Seq(Entries) /\ Len(t) = Len(a) + Len(b)
    BY <1>1, <1>2, <1>3, ConcatProperties
  <2> QED  BY <1>9, <1>1, <1>2, <2>1
<1>5. \A j \in 1..(i - 1) : t[j] = s[j]
  BY <1>9, <1>1, <1>2, <1>3
<1>6. ASSUME NEW j \in i..(Len(s) - 1)
      PROVE  t[j] = s[j + 1]
  <2>1. t[j] = b[j - (i - 1)]
    BY <1>9, <1>1, <1>2, <1>3
  <2>2. j - (i - 1) \in 1..(Len(s) - i) /\ (j - (i - 1)) + i = j + 1
    BY <1>9
  <2> QED  BY <1>2, <2>1, <2>2
<1> QED  BY <1>4, <1>5, <1>6 DEF t

\* ee_list_remove takes an entry out.
LEMMA CountRemove ==
  ASSUME NEW s \in Seq(Entries), NEW x, NEW i \in 1..Len(s)
  PROVE  /\ RemoveAt(s, i) \in Seq(Entries)
         /\ Count(RemoveAt(s, i), x) = Count(s, x) - (IF s[i].data = x THEN 1 ELSE 0)
<1> DEFINE t == RemoveAt(s, i)
           P == Positions(s, x) \ {i}
           Q == Positions(t, x)
<1>0. i \in Nat /\ i >= 1 /\ i <= Len(s) /\ Len(s) \in Nat
  OBVIOUS
<1>1. /\ t \in Seq(Entries) /\ Len(t) = Len(s) - 1
      /\ \A j \in 1..(i - 1) : t[j] = s[j]
      /\ \A j \in i..(Len(s) - 1) : t[j] = s[j + 1]
  BY RemoveAtIs
<1>2. Cardinality(Q) = Cardinality(P)
  <2> DEFINE f == [j \in P |-> IF j < i THEN j ELSE j - 1]
             g == [j \in Q |-> IF j < i THEN j ELSE j + 1]
  <2>1. ASSUME NEW j \in P
        PROVE  (IF j < i THEN j ELSE j - 1) \in Q /\ j \in Nat /\ j # i
    <3>1. j \in 1..Len(s) /\ s[j].data = x /\ j # i
      BY DEF Positions
    <3> HIDE DEF P, t
    <3>2. CASE j < i
      <4>1. j \in 1..(i - 1) /\ j \in 1..Len(t)
        BY <1>0, <1>1, <3>1, <3>2
      <4>2. t[j] = s[j]
        BY <1>1, <4>1
      <4> QED  BY <3>1, <3>2, <4>1, <4>2 DEF Positions
    <3>3. CASE ~(j < i)
      <4>1. j - 1 \in i..(Len(s) - 1) /\ j - 1 \in 1..Len(t) /\ (j - 1) + 1 = j
        BY <1>0, <1>1, <3>1, <3>3
      <4>2. t[j - 1] = s[j]
        BY <1>1, <4>1
      <4> QED  BY <3>1, <3>3, <4>1, <4>2 DEF Positions
    <3> QED  BY <3>2, <3>3
  <2>2. \A j \in Q : (IF j < i THEN j ELSE j + 1) \in P /\ j \in Nat
    BY <1>0, <1>1 DEF Positions
  <2>3. IsFiniteSet(P)
    BY PositionsFinite, FS_RemoveElement
  <2> HIDE DEF P, Q
  <2>4. f \in [P -> Q] /\ g \in [Q -> P]
    BY <2>1, <2>2
  <2>5. (\A j \in P : g[f[j]] = j) /\ (\A j \in Q : f[g[j]] = j)
    BY <1>0, <2>1, <2>2
  <2>6. \E a \in [P -> Q], b \in [Q -> P] :
          (\A j \in P : b[a[j]] = j) /\ (\A j \in Q : a[b[j]] = j)
    <3> HIDE DEF f, g
    <3> QED  BY <2>4, <2>5
  <2> QED  BY <2>3, <2>6, SameSize
<1>3. Cardinality(P) = Count(s, x) - (IF s[i].data = x THEN 1 ELSE 0)
  <2>1. IsFiniteSet(Positions(s, x)) /\ Count(s, x) \in Nat
    BY PositionsFinite
  <2>2. i \in Positions(s, x) <=> s[i].data = x
    BY DEF Positions
  <2> DEFINE R == Positions(s, x)
  <2>3. P = R \ {i} /\ IsFiniteSet(R) /\ Count(s, x) = Cardinality(R)
    BY <2>1 DEF Count
  <2> HIDE DEF P, R
  <2>4. Cardinality(P) = IF i \in R THEN Cardinality(R) - 1 ELSE Cardinality(R)
    BY <2>3, FS_RemoveElement
  <2> QED  BY <2>1, <2>2, <2>3, <2>4 DEF R
<1> HIDE DEF t, P
<1>4. Count(t, x) = Cardinality(Q)
  BY DEF Count
<1>5. t \in Seq(Entries) /\ Count(t, x) = Count(s, x) - (IF s[i].data = x THEN 1 ELSE 0)
  BY <1>1, <1>2, <1>3, <1>4
<1> QED  BY <1>5 DEF t

\* The search finds an entry for an address when there is one.
LEMMA DsearchFinds ==
  ASSUME TypeInv, NEW x
  PROVE  /\ Listed(x) <=> Count(th_malloc_sizes, x) # 0
         /\ Listed(x) => Dsearch(x) \in Positions(th_malloc_sizes, x)
<1> DEFINE I == Positions(th_malloc_sizes, x)
<1>1. I \subseteq Nat \ {0}
  BY DEF Positions, TypeInv
<1>2. Dsearch(x) = IF I # {} THEN Min(I) ELSE 0
  BY DEF Dsearch, SelectInSeq, Positions
<1>3. ASSUME I # {}
      PROVE  Min(I) \in I
  <2>1. I \subseteq Nat
    BY <1>1
  <2>2. \E m \in I : \A n \in I : m <= n
    BY <1>3, <2>1, LeastNatural
  <2> HIDE DEF I
  <2> QED  BY <2>2 DEF Min
<1>4. th_malloc_sizes \in Seq(Entries)
  BY DEF TypeInv
<1> QED  BY <1>1, <1>2, <1>3, <1>4, PositionsFinite DEF Listed

-----------------------------------------------------------------------------
(* What a thread owns, and what a call does to the invariant.              *)

\* The reallocs under way are finitely many.
LEMMA MovingFinite ==
  ASSUME NEW x
  PROVE  IsFiniteSet(Moving(x)) /\ Cardinality(Moving(x)) \in Nat
<1>1. IsFiniteSet(Threads)
  BY FS_AddElement, HeapAssumption DEF Threads
<1>2. Moving(x) \subseteq Threads
  BY DEF Moving
<1> QED  BY <1>1, <1>2, FS_Subset, FS_CardinalityType

\* A block that a thread owns is in no other thread's call, and in its own only
\* as the result.
LEMMA Held ==
  ASSUME TypeInv, CallInv, OwnInv, NEW t \in Threads, NEW a \in own[t]
  PROVE  /\ a \in Addrs /\ a # Null /\ heap[a] # NoBlock
         /\ ~Gone(a)
         /\ \A u \in Threads : u # t => /\ allocCall[u].op \in {"alloc", "realloc"} => allocCall[u].ret # a
                                        /\ a \notin own[u]
         /\ \A u \in Threads : allocCall[u].op = "free" => allocCall[u].ptr # a
         /\ allocCall[t].op \notin {"alloc", "realloc"} => Settled(a)
<1>1. a \in Addrs /\ a # Null /\ heap[a] # NoBlock
  BY HeapAssumption DEF TypeInv, OwnInv
<1>2. \A u \in Threads : allocCall[u].op = "free" => allocCall[u].ptr # a
  BY <1>1 DEF CallInv, CallOf, FreeOf
<1>3. ~Gone(a)
  BY <1>2 DEF Gone, CallInv, CallOf, FreeOf
<1>4. \A u \in Threads : u # t => a \notin own[u]
  BY DEF OwnInv
<1>5. \A u \in Threads : u # t /\ allocCall[u].op \in {"alloc", "realloc"} => allocCall[u].ret # a
  BY <1>4 DEF CallInv, CallOf, FreeOf
<1>6. allocCall[t].op \notin {"alloc", "realloc"} => ~Fresh(a)
  BY <1>5 DEF Fresh
<1> QED  BY <1>1, <1>2, <1>3, <1>4, <1>5, <1>6 DEF Settled

\* While a thread finds the list empty no other thread is in a call: main has
\* a block while the contexts run.
LEMMA InitAlone ==
  ASSUME IInv, NEW t \in Threads, allocCall[t].step \in {"init", "initLock"}
  PROVE  \A u \in Threads \ {t} : allocCall[u] = NoAlloc
<1>1. th_malloc_sizes = <<>>
  BY DEF IInv, MutexInv
<1>2. contexts # "running"
  <2> SUFFICES ASSUME contexts = "running" PROVE FALSE
    OBVIOUS
  <2>1. PICK a \in own[Main] : TRUE
    BY DEF IInv, PhaseInv
  <2>2. Main \in Threads /\ allocCall[Main].op = "none"
    BY DEF IInv, PhaseInv, Threads, NoAlloc
  <2>3. Settled(a) /\ a \in Addrs
    BY <2>2, Held DEF IInv
  <2>4. Count(th_malloc_sizes, a) = Cardinality(Moving(a)) + 1
    BY <2>3 DEF IInv, ListInv
  <2>5. Count(th_malloc_sizes, a) # 0
    BY <2>4, MovingFinite
  <2>6. Positions(th_malloc_sizes, a) = {}
    BY <1>1 DEF Positions
  <2> QED  BY <2>5, <2>6, FS_EmptySet DEF Count
<1>3. \A w \in Workers : allocCall[w] = NoAlloc
  BY <1>2 DEF IInv, PhaseInv
<1>4. allocCall[t] # NoAlloc
  BY DEF NoAlloc
<1> QED  BY <1>3, <1>4 DEF Threads

\* What GoTo does.
LEMMA GoesTo ==
  ASSUME TypeInv, NEW t \in Threads, NEW step, GoTo(t, step)
  PROVE  /\ allocCall'[t].step = step /\ allocCall'[t].op = allocCall[t].op /\ allocCall'[t].ptr = allocCall[t].ptr
         /\ allocCall'[t].ret = allocCall[t].ret /\ allocCall'[t].size = allocCall[t].size
         /\ \A u \in Threads : u # t => allocCall'[u] = allocCall[u]
BY DEF GoTo, TypeInv

\* The list as it was is right as long as nothing moved, settled or went.
LEMMA ListKept ==
  ASSUME ListInv, th_malloc_sizes' = th_malloc_sizes,
         \A x \in Addrs : Moving(x)' = Moving(x) /\ (Settled(x)' <=> Settled(x))
  PROVE  ListInv'
BY DEF ListInv

-----------------------------------------------------------------------------
(* One lemma per action.                                                   *)

\* The record of a call.
Calls == [op : {"none", "alloc", "realloc", "free"},
          step : {"none", "check", "init", "initLock", "lock", "account", "libc"},
          ptr : Addrs \cup {Null}, ret : Addrs \cup {Null}, size : 0..MaxSize]

\* An address that was not in use is in nobody's call and owned by nobody.
LEMMA NotHeld ==
  ASSUME TypeInv, CallInv, OwnInv, NEW a \in Unused
  PROVE  /\ a \in Addrs /\ a # Null /\ heap[a] = NoBlock
         /\ \A u \in Threads : /\ a \notin own[u]
                               /\ allocCall[u].op \in {"alloc", "realloc"} => allocCall[u].ret # a
                               /\ allocCall[u].op = "free" => allocCall[u].ptr # a
         /\ ~Settled(a) /\ ~Fresh(a) /\ ~Gone(a)
<1>1. a \in Addrs /\ a # Null /\ heap[a] = NoBlock
  BY HeapAssumption DEF Unused
<1>2. \A u \in Threads : a \notin own[u]
  BY <1>1 DEF OwnInv
<1>3. \A u \in Threads : /\ allocCall[u].op \in {"alloc", "realloc"} => allocCall[u].ret # a
                         /\ allocCall[u].op = "free" => allocCall[u].ptr # a
  BY <1>1, <1>2 DEF CallInv, CallOf, FreeOf
<1>4. ~Fresh(a) /\ ~Gone(a) /\ ~Settled(a)
  BY <1>1, <1>3 DEF Fresh, Gone, Settled, CallInv, CallOf, FreeOf
<1> QED  BY <1>1, <1>2, <1>3, <1>4

\* A new block is unsettled until the list has it.
LEMMA StartAllocKeeps ==
  ASSUME IInv, NEW t \in Threads, StartAlloc(t)
  PROVE  IInv'
<1>0. TypeInv /\ CallInv /\ OwnInv /\ PhaseInv /\ MutexInv /\ ListInv
  BY DEF IInv
<1> DEFINE rec(a, z) == [op |-> "alloc", step |-> "check", ptr |-> Null, ret |-> a, size |-> z]
<1>1. PICK a \in Unused, z \in BlockSizes :
        /\ heap' = [heap EXCEPT ![a] = z]
        /\ own' = [own EXCEPT ![t] = @ \cup {a}]
        /\ allocCall' = [allocCall EXCEPT ![t] = rec(a, z)]
  BY DEF StartAlloc
<1>2. /\ allocCall[t] = NoAlloc /\ (t = Main => contexts # "running") /\ (t # Main => contexts = "running")
      /\ UNCHANGED <<th_malloc_sizes, th_malloc_mutex, contexts>>
  BY DEF StartAlloc, Ready, stats
<1>3. /\ a \in Addrs /\ a # Null /\ heap[a] = NoBlock
      /\ \A u \in Threads : /\ a \notin own[u]
                            /\ allocCall[u].op \in {"alloc", "realloc"} => allocCall[u].ret # a
                            /\ allocCall[u].op = "free" => allocCall[u].ptr # a
      /\ ~Settled(a) /\ ~Gone(a)
  BY <1>0, NotHeld
<1>4. z \in 0..MaxSize /\ z # NoBlock /\ rec(a, z) \in Calls
  BY <1>3, HeapAssumption DEF BlockSizes, NoBlock, Calls
<1>5. /\ allocCall'[t] = rec(a, z) /\ \A u \in Threads : u # t => allocCall'[u] = allocCall[u]
      /\ own'[t] = own[t] \cup {a} /\ \A u \in Threads : u # t => own'[u] = own[u]
      /\ heap'[a] = z /\ \A x \in Addrs : x # a => heap'[x] = heap[x]
  BY <1>0, <1>1, <1>3 DEF TypeInv
<1>6. allocCall[t].op = "none" /\ allocCall[t].step = "none"
  BY <1>2 DEF NoAlloc
<1>7. TypeInv'
  <2>1. heap' \in [Addrs -> 0..MaxSize] /\ own' \in [Threads -> SUBSET Addrs]
    BY <1>0, <1>1, <1>3, <1>4 DEF TypeInv
  <2>2. allocCall' \in [Threads -> Calls]
    <3> HIDE DEF rec
    <3> QED  BY <1>0, <1>1, <1>4 DEF TypeInv, Calls
  <2> QED  BY <1>0, <1>2, <2>1, <2>2 DEF TypeInv, Calls
<1>8. CallInv'
  <2>1. ASSUME NEW u \in Threads
        PROVE  CallOf(u)' /\ FreeOf(u)'
    <3>1. CASE u = t
      BY <1>5, <3>1 DEF CallOf, FreeOf
    <3>2. CASE u # t
      <4>1. CallOf(u) /\ FreeOf(u) /\ allocCall'[u] = allocCall[u] /\ own'[u] = own[u]
        BY <1>0, <1>5, <3>2 DEF CallInv
      <4>2. CallOf(u)'
        BY <4>1 DEF CallOf
      <4>3. ASSUME allocCall[u].op = "free", allocCall[u].ptr # Null
            PROVE  FreeOf(u)'
        <5>1. allocCall[u].ptr \in Addrs /\ heap[allocCall[u].ptr] # NoBlock /\ allocCall[u].ptr # a
          BY <1>0, <1>3, <4>1, <4>3 DEF FreeOf, TypeInv
        <5>2. heap'[allocCall[u].ptr] # NoBlock
          BY <1>5, <5>1
        <5>3. ASSUME NEW v \in Threads
              PROVE  allocCall[u].ptr \notin own'[v] /\ (v # u /\ allocCall'[v].op = "free" => allocCall'[v].ptr # allocCall[u].ptr)
          BY <1>5, <4>1, <4>3, <5>1 DEF FreeOf
        <5> QED  BY <4>1, <5>2, <5>3 DEF FreeOf
      <4> QED  BY <4>1, <4>2, <4>3 DEF FreeOf
    <3> QED  BY <3>1, <3>2
  <2> QED  BY <2>1 DEF CallInv
<1>9. OwnInv'
  <2>1. ASSUME NEW u \in Threads, NEW x \in own'[u]
        PROVE  heap'[x] # NoBlock /\ \A v \in Threads : v # u => x \notin own'[v]
    <3>1. CASE x = a
      BY <1>3, <1>4, <1>5, <3>1
    <3>2. CASE x # a
      <4>0. x \in own[u]
        BY <1>5, <3>2
      <4>1. x \in own[u] /\ x \in Addrs
        BY <1>0, <4>0 DEF TypeInv
      <4>2. heap[x] # NoBlock /\ \A v \in Threads : v # u => x \notin own[v]
        BY <1>0, <4>1 DEF OwnInv
      <4> QED  BY <1>5, <3>2, <4>1, <4>2
    <3> QED  BY <3>1, <3>2
  <2> QED  BY <2>1 DEF OwnInv
<1>10. PhaseInv'
  BY <1>0, <1>2, <1>5, HeapAssumption DEF PhaseInv, Threads
<1>11. MutexInv'
  BY <1>0, <1>2, <1>5, <1>6 DEF MutexInv
<1>12. ASSUME NEW x \in Addrs
       PROVE  Moving(x)' = Moving(x) /\ (Settled(x)' <=> Settled(x))
  <2>1. Moving(x)' = Moving(x)
    BY <1>5, <1>6 DEF Moving
  <2>2. Gone(x)' <=> Gone(x)
    BY <1>5, <1>6 DEF Gone
  <2>3. x # a => (Fresh(x)' <=> Fresh(x))
    BY <1>5, <1>6 DEF Fresh
  <2>4. Fresh(a)'
    BY <1>5 DEF Fresh
  <2> QED  BY <1>3, <1>5, <2>1, <2>2, <2>3, <2>4 DEF Settled
<1>13. ListInv'
  BY <1>0, <1>2, <1>12, ListKept
<1> QED  BY <1>7, <1>8, <1>9, <1>10, <1>11, <1>13 DEF IInv

\* A block that moves is settled no more, at its old address or its new one.
LEMMA StartReallocKeeps ==
  ASSUME IInv, NEW t \in Threads, StartRealloc(t)
  PROVE  IInv'
<1>0. TypeInv /\ CallInv /\ OwnInv /\ PhaseInv /\ MutexInv /\ ListInv
  BY DEF IInv
<1> DEFINE rec(p, a, z) == [op |-> "realloc", step |-> "check", ptr |-> p, ret |-> a, size |-> z]
<1>1. PICK p \in own[t], z \in BlockSizes : \E a \in Unused \cup {p} :
        /\ heap' = [heap EXCEPT ![p] = NoBlock, ![a] = z]
        /\ own' = [own EXCEPT ![t] = (@ \ {p}) \cup {a}]
        /\ allocCall' = [allocCall EXCEPT ![t] = rec(p, a, z)]
  BY DEF StartRealloc
<1>1a. PICK a \in Unused \cup {p} :
        /\ heap' = [heap EXCEPT ![p] = NoBlock, ![a] = z]
        /\ own' = [own EXCEPT ![t] = (@ \ {p}) \cup {a}]
        /\ allocCall' = [allocCall EXCEPT ![t] = rec(p, a, z)]
  BY <1>1
<1>2. /\ allocCall[t] = NoAlloc /\ (t = Main => contexts # "running") /\ (t # Main => contexts = "running")
      /\ UNCHANGED <<th_malloc_sizes, th_malloc_mutex, contexts>>
  BY DEF StartRealloc, Ready, stats
<1>6. allocCall[t].op = "none" /\ allocCall[t].step = "none"
  BY <1>2 DEF NoAlloc
<1>3. /\ p \in Addrs /\ p # Null /\ heap[p] # NoBlock /\ Settled(p) /\ ~Gone(p)
      /\ \A u \in Threads : u # t => /\ allocCall[u].op \in {"alloc", "realloc"} => allocCall[u].ret # p
                                     /\ p \notin own[u]
      /\ \A u \in Threads : allocCall[u].op = "free" => allocCall[u].ptr # p
  BY <1>0, <1>6, Held
<1>3a. a # p => /\ a \in Addrs /\ a # Null /\ heap[a] = NoBlock
                /\ \A u \in Threads : /\ a \notin own[u]
                                      /\ allocCall[u].op \in {"alloc", "realloc"} => allocCall[u].ret # a
                                      /\ allocCall[u].op = "free" => allocCall[u].ptr # a
                /\ ~Settled(a) /\ ~Gone(a)
  BY <1>0, NotHeld
<1>4. a \in Addrs /\ a # Null /\ z \in 0..MaxSize /\ z # NoBlock /\ rec(p, a, z) \in Calls
  BY <1>3, <1>3a, HeapAssumption DEF BlockSizes, NoBlock, Calls
<1>5. /\ allocCall'[t] = rec(p, a, z) /\ \A u \in Threads : u # t => allocCall'[u] = allocCall[u]
      /\ own'[t] = (own[t] \ {p}) \cup {a} /\ \A u \in Threads : u # t => own'[u] = own[u]
      /\ heap'[a] = z /\ (a # p => heap'[p] = NoBlock)
      /\ \A x \in Addrs : x # a /\ x # p => heap'[x] = heap[x]
  BY <1>0, <1>1a, <1>3, <1>4 DEF TypeInv
<1>7. TypeInv'
  <2>1. heap' \in [Addrs -> 0..MaxSize] /\ own' \in [Threads -> SUBSET Addrs]
    BY <1>0, <1>1a, <1>3, <1>4, HeapAssumption DEF TypeInv, NoBlock
  <2>2. allocCall' \in [Threads -> Calls]
    <3> HIDE DEF rec
    <3> QED  BY <1>0, <1>1a, <1>4 DEF TypeInv, Calls
  <2> QED  BY <1>0, <1>2, <2>1, <2>2 DEF TypeInv, Calls
<1>8. CallInv'
  <2>1. ASSUME NEW u \in Threads
        PROVE  CallOf(u)' /\ FreeOf(u)'
    <3>1. CASE u = t
      BY <1>3, <1>5, <3>1 DEF CallOf, FreeOf
    <3>2. CASE u # t
      <4>1. CallOf(u) /\ FreeOf(u) /\ allocCall'[u] = allocCall[u] /\ own'[u] = own[u]
        BY <1>0, <1>5, <3>2 DEF CallInv
      <4>2. CallOf(u)'
        BY <4>1 DEF CallOf
      <4>3. ASSUME allocCall[u].op = "free", allocCall[u].ptr # Null
            PROVE  FreeOf(u)'
        <5>1. allocCall[u].ptr \in Addrs /\ heap[allocCall[u].ptr] # NoBlock /\ allocCall[u].ptr # p /\ allocCall[u].ptr # a
          BY <1>0, <1>3, <1>3a, <4>1, <4>3 DEF FreeOf, TypeInv
        <5>2. heap'[allocCall[u].ptr] # NoBlock
          BY <1>5, <5>1
        <5>3. ASSUME NEW v \in Threads
              PROVE  allocCall[u].ptr \notin own'[v] /\ (v # u /\ allocCall'[v].op = "free" => allocCall'[v].ptr # allocCall[u].ptr)
          BY <1>5, <4>1, <4>3, <5>1 DEF FreeOf
        <5> QED  BY <4>1, <5>2, <5>3 DEF FreeOf
      <4> QED  BY <4>1, <4>2, <4>3 DEF FreeOf
    <3> QED  BY <3>1, <3>2
  <2> QED  BY <2>1 DEF CallInv
<1>9. OwnInv'
  <2>1. ASSUME NEW u \in Threads, NEW x \in own'[u]
        PROVE  heap'[x] # NoBlock /\ \A v \in Threads : v # u => x \notin own'[v]
    <3>1. CASE x = a
      BY <1>3, <1>3a, <1>4, <1>5, <3>1
    <3>2. CASE x # a
      <4>1. x \in own[u] /\ x \in Addrs /\ x # p
        BY <1>0, <1>3, <1>5, <3>2 DEF TypeInv
      <4>2. heap[x] # NoBlock /\ \A v \in Threads : v # u => x \notin own[v]
        BY <1>0, <4>1 DEF OwnInv
      <4> QED  BY <1>5, <3>2, <4>1, <4>2
    <3> QED  BY <3>1, <3>2
  <2> QED  BY <2>1 DEF OwnInv
<1>10. PhaseInv'
  BY <1>0, <1>2, <1>5, HeapAssumption DEF PhaseInv, Threads
<1>11. MutexInv'
  BY <1>0, <1>2, <1>5, <1>6 DEF MutexInv
<1>12. ASSUME NEW x \in Addrs
       PROVE  /\ x # p => Moving(x)' = Moving(x) /\ (Settled(x)' <=> Settled(x))
              /\ x = p => Moving(x)' = Moving(x) \cup {t} /\ t \notin Moving(x) /\ ~Settled(x)'
  <2>1. x # p => Moving(x)' = Moving(x)
    BY <1>5, <1>6 DEF Moving
  <2>2. x = p => Moving(x)' = Moving(x) \cup {t} /\ t \notin Moving(x)
    BY <1>5, <1>6 DEF Moving
  <2>3. Gone(x)' <=> Gone(x)
    BY <1>5, <1>6 DEF Gone
  <2>4. x # a => (Fresh(x)' <=> Fresh(x))
    BY <1>5, <1>6 DEF Fresh
  <2>5. Fresh(a)'
    BY <1>5 DEF Fresh
  <2> QED  BY <1>3, <1>3a, <1>5, <2>1, <2>2, <2>3, <2>4, <2>5 DEF Settled
<1>13. ListInv'
  <2>1. ASSUME NEW x \in Addrs
        PROVE  (Count(th_malloc_sizes, x) = Cardinality(Moving(x)) + (IF Settled(x) THEN 1 ELSE 0))'
    <3>1. Count(th_malloc_sizes, x) = Cardinality(Moving(x)) + (IF Settled(x) THEN 1 ELSE 0)
      BY <1>0 DEF ListInv
    <3>2. CASE x # p
      BY <1>2, <1>12, <3>1, <3>2 DEF Count
    <3>3. CASE x = p
      <4>1. IsFiniteSet(Moving(x)) /\ Cardinality(Moving(x)) \in Nat
        BY MovingFinite
      <4>2. Cardinality(Moving(x) \cup {t}) = Cardinality(Moving(x)) + 1
        BY <1>12, <3>3, <4>1, FS_AddElement
      <4>3. Cardinality(Moving(x)') = Cardinality(Moving(x)) + 1 /\ ~Settled(x)' /\ Settled(x)
        BY <1>3, <1>12, <3>3, <4>2
      <4>4. Count(th_malloc_sizes', x) = Cardinality(Moving(x)) + 1
        BY <1>2, <3>1, <4>3
      <4> QED  BY <4>1, <4>3, <4>4
    <3> QED  BY <3>2, <3>3
  <2>2. Count(th_malloc_sizes', Null) <= 1
    BY <1>0, <1>2 DEF ListInv
  <2> QED  BY <2>1, <2>2 DEF ListInv
<1> QED  BY <1>7, <1>8, <1>9, <1>10, <1>11, <1>13 DEF IInv

\* A block that is being freed is its thread's no more; the list still has it.
LEMMA StartFreeKeeps ==
  ASSUME IInv, NEW t \in Threads, StartFree(t)
  PROVE  IInv'
<1>0. TypeInv /\ CallInv /\ OwnInv /\ PhaseInv /\ MutexInv /\ ListInv
  BY DEF IInv
<1> DEFINE rec(p) == [op |-> "free", step |-> "check", ptr |-> p, ret |-> Null, size |-> 0]
<1>a. [NoAlloc EXCEPT !.op = "free", !.step = "check"] = rec(Null)
  <2>1. [NoAlloc EXCEPT !.op = "free"] =
          [op |-> "free", step |-> "none", ptr |-> Null, ret |-> Null, size |-> 0]
    BY DEF NoAlloc
  <2>2. [[op |-> "free", step |-> "none", ptr |-> Null, ret |-> Null, size |-> 0]
           EXCEPT !.step = "check"] = rec(Null)
    OBVIOUS
  <2> QED  BY <2>1, <2>2
<1>1. PICK p \in own[t] \cup {Null} :
        /\ own' = [own EXCEPT ![t] = @ \ {p}]
        /\ allocCall' = [allocCall EXCEPT ![t] = rec(p)]
  <2>1. CASE \E p \in own[t] :
               /\ own' = [own EXCEPT ![t] = @ \ {p}]
               /\ allocCall' = [allocCall EXCEPT ![t] = [NoAlloc EXCEPT !.op = "free", !.step = "check", !.ptr = p]]
    <3>1. ASSUME NEW p
          PROVE  [NoAlloc EXCEPT !.op = "free", !.step = "check", !.ptr = p] = rec(p)
      <4>1. [NoAlloc EXCEPT !.op = "free", !.step = "check"] = rec(Null)
        BY <1>a
      <4>2. [rec(Null) EXCEPT !.ptr = p] = rec(p)
        OBVIOUS
      <4> QED  BY <4>1, <4>2, Zenon
    <3> QED  BY <2>1, <3>1
  <2>2. CASE allocCall' = [allocCall EXCEPT ![t] = [NoAlloc EXCEPT !.op = "free", !.step = "check"]] /\ UNCHANGED own
    <3>1. [NoAlloc EXCEPT !.op = "free", !.step = "check"] = rec(Null)
      BY <1>a
    <3>2. Null \notin own[t] /\ own \in [Threads -> SUBSET Addrs]
      BY <1>0, HeapAssumption DEF TypeInv
    <3>3. own' = [own EXCEPT ![t] = @ \ {Null}]
      BY <2>2, <3>2
    <3> QED  BY <2>2, <3>1, <3>3
  <2> QED  BY <2>1, <2>2 DEF StartFree
<1>2. /\ allocCall[t] = NoAlloc /\ (t = Main => contexts # "running") /\ (t # Main => contexts = "running")
      /\ UNCHANGED <<th_malloc_sizes, th_malloc_mutex, contexts, heap>>
  BY DEF StartFree, Ready, stats
<1>3. allocCall[t].op = "none" /\ allocCall[t].step = "none"
  BY <1>2 DEF NoAlloc
<1>4. p # Null =>
        /\ p \in Addrs /\ heap[p] # NoBlock
        /\ \A u \in Threads : u # t => p \notin own[u]
        /\ \A u \in Threads : allocCall[u].op = "free" => allocCall[u].ptr # p
  BY <1>0, <1>3, Held
<1>5. /\ allocCall'[t] = rec(p) /\ \A u \in Threads : u # t => allocCall'[u] = allocCall[u]
      /\ own'[t] = own[t] \ {p} /\ \A u \in Threads : u # t => own'[u] = own[u]
  BY <1>0, <1>1 DEF TypeInv
<1>6. \A u \in Threads : own'[u] \subseteq own[u]
  BY <1>5
<1>7. TypeInv'
  <2>1. rec(p) \in Calls
    BY <1>4, HeapAssumption DEF Calls
  <2>2. allocCall' \in [Threads -> Calls]
    <3> HIDE DEF rec
    <3> QED  BY <1>0, <1>1, <2>1 DEF TypeInv, Calls
  <2>3. own' \in [Threads -> SUBSET Addrs]
    BY <1>0, <1>1 DEF TypeInv
  <2> QED  BY <1>0, <1>2, <2>2, <2>3 DEF TypeInv, Calls
<1>8. CallInv'
  <2>1. ASSUME NEW u \in Threads
        PROVE  CallOf(u)' /\ FreeOf(u)'
    <3>1. CASE u = t
      <4>1. p # Null => \A v \in Threads : /\ p \notin own'[v]
                                           /\ v # t /\ allocCall'[v].op = "free" => allocCall'[v].ptr # p
        BY <1>4, <1>5
      <4>2. CallOf(t)'
        BY <1>5 DEF CallOf
      <4>3. FreeOf(t)'
        BY <1>2, <1>4, <1>5, <4>1 DEF FreeOf
      <4> QED  BY <3>1, <4>2, <4>3
    <3>2. CASE u # t
      <4>1. CallOf(u) /\ FreeOf(u) /\ allocCall'[u] = allocCall[u] /\ own'[u] = own[u]
        BY <1>0, <1>5, <3>2 DEF CallInv
      <4>2. CallOf(u)'
        BY <4>1 DEF CallOf
      <4>3. ASSUME allocCall[u].op = "free", allocCall[u].ptr # Null
            PROVE  FreeOf(u)'
        <5>1. p # allocCall[u].ptr
          BY <1>4, <4>3
        <5>2. ASSUME NEW v \in Threads
              PROVE  allocCall[u].ptr \notin own'[v] /\ (v # u /\ allocCall'[v].op = "free" => allocCall'[v].ptr # allocCall[u].ptr)
          BY <1>5, <1>6, <4>1, <4>3, <5>1 DEF FreeOf
        <5>3. heap'[allocCall[u].ptr] # NoBlock
          BY <1>2, <4>1, <4>3 DEF FreeOf
        <5> QED  BY <4>1, <5>2, <5>3 DEF FreeOf
      <4> QED  BY <4>1, <4>2, <4>3 DEF FreeOf
    <3> QED  BY <3>1, <3>2
  <2> QED  BY <2>1 DEF CallInv
<1>9. OwnInv'
  BY <1>0, <1>2, <1>6 DEF OwnInv
<1>10. PhaseInv'
  BY <1>0, <1>2, <1>5, HeapAssumption DEF PhaseInv, Threads
<1>11. MutexInv'
  BY <1>0, <1>2, <1>3, <1>5 DEF MutexInv
<1>12. ASSUME NEW x \in Addrs
       PROVE  Moving(x)' = Moving(x) /\ (Settled(x)' <=> Settled(x))
  <2>1. Moving(x)' = Moving(x)
    BY <1>3, <1>5 DEF Moving
  <2>2. (Gone(x)' <=> Gone(x)) /\ (Fresh(x)' <=> Fresh(x))
    BY <1>3, <1>5 DEF Gone, Fresh
  <2> QED  BY <1>2, <2>1, <2>2 DEF Settled
<1> QED  BY <1>0, <1>2, <1>7, <1>8, <1>9, <1>10, <1>11, <1>12, ListKept DEF IInv

\* A thread goes on in its call, before the statistics: the blocks and the
\* calls are as they were.
LEMMA StepKeeps ==
  ASSUME IInv, NEW t \in Threads, NEW step \in {"init", "initLock", "lock", "account"},
         allocCall[t].step \in {"check", "init", "initLock", "lock"},
         GoTo(t, step), UNCHANGED <<heap, own, contexts>>
  PROVE  /\ CallInv' /\ OwnInv' /\ PhaseInv' /\ allocCall' \in [Threads -> Calls]
         /\ \A x \in Addrs : Moving(x)' = Moving(x) /\ (Settled(x)' <=> Settled(x))
<1>0. TypeInv /\ CallInv /\ OwnInv /\ PhaseInv /\ MutexInv
  BY DEF IInv
<1>1. /\ allocCall'[t].step = step /\ allocCall'[t].op = allocCall[t].op /\ allocCall'[t].ptr = allocCall[t].ptr
      /\ allocCall'[t].ret = allocCall[t].ret /\ allocCall'[t].size = allocCall[t].size
      /\ \A u \in Threads : u # t => allocCall'[u] = allocCall[u]
  BY <1>0, GoesTo
<1>2. allocCall[t] # NoAlloc /\ allocCall[t].op # "none"
  <2>1. allocCall[t] # NoAlloc
    BY DEF NoAlloc
  <2> QED  BY <1>0, <2>1 DEF CallInv, CallOf
<1>3. allocCall' \in [Threads -> Calls]
  <2>1. allocCall \in [Threads -> Calls] /\ step \in {"none", "check", "init", "initLock", "lock", "account", "libc"}
    BY <1>0 DEF TypeInv, Calls
  <2>2. [allocCall[t] EXCEPT !.step = step] \in Calls
    BY <2>1 DEF Calls
  <2> QED  BY <2>1, <2>2 DEF GoTo
<1>4. \A u \in Threads : /\ allocCall'[u].op = allocCall[u].op /\ allocCall'[u].ptr = allocCall[u].ptr /\ allocCall'[u].ret = allocCall[u].ret
                         /\ allocCall'[u].step = "libc" <=> allocCall[u].step = "libc"
  BY <1>1
<1>5. CallInv'
  <2>1. ASSUME NEW u \in Threads
        PROVE  CallOf(u)' /\ FreeOf(u)'
    <3>1. CallOf(u) /\ FreeOf(u)
      BY <1>0 DEF CallInv
    <3>2. CallOf(u)'
      BY <1>1, <1>2, <1>4, <3>1 DEF CallOf
    <3>3. FreeOf(u)'
      BY <1>4, <3>1 DEF FreeOf
    <3> QED  BY <3>2, <3>3
  <2> QED  BY <2>1 DEF CallInv
<1>6. PhaseInv'
  BY <1>0, <1>1, <1>2, HeapAssumption DEF PhaseInv, Threads
<1>7. OwnInv'
  BY <1>0 DEF OwnInv
<1>8. ASSUME NEW x \in Addrs
      PROVE  Moving(x)' = Moving(x) /\ (Settled(x)' <=> Settled(x))
  BY <1>4 DEF Moving, Settled, Fresh, Gone
<1> QED  BY <1>3, <1>5, <1>6, <1>7, <1>8

\* The list is empty when a thread goes to initialise it.
LEMMA CheckInitKeeps ==
  ASSUME IInv, NEW t \in Threads, CheckInit(t)
  PROVE  IInv'
<1> DEFINE step == IF th_malloc_sizes = <<>> THEN "init" ELSE "lock"
<1>1. /\ allocCall[t].step = "check" /\ GoTo(t, step) /\ step \in {"init", "initLock", "lock", "account"}
      /\ UNCHANGED <<heap, own, contexts, th_malloc_sizes, th_malloc_mutex>>
  BY DEF CheckInit, stats
<1>2. step = "init" => th_malloc_sizes = <<>>
  OBVIOUS
<1> HIDE DEF step
<1>3. /\ CallInv' /\ OwnInv' /\ PhaseInv' /\ allocCall' \in [Threads -> Calls]
      /\ \A x \in Addrs : Moving(x)' = Moving(x) /\ (Settled(x)' <=> Settled(x))
  BY <1>1, StepKeeps
<1>4. ListInv'
  BY <1>1, <1>3, ListKept DEF IInv
<1>5. TypeInv'
  BY <1>1, <1>3 DEF IInv, TypeInv, Calls
<1>6. allocCall'[t].step = step /\ \A u \in Threads : u # t => allocCall'[u] = allocCall[u]
  BY <1>1, GoesTo DEF IInv
<1>7. step # "account" /\ step # "initLock"
  BY DEF step
<1>8. MutexInv'
  BY <1>1, <1>2, <1>6, <1>7 DEF IInv, MutexInv
<1> QED  BY <1>3, <1>4, <1>5, <1>8 DEF IInv

\* Nobody can be holding the mutex that is initialised.
LEMMA InitMutexKeeps ==
  ASSUME IInv, NEW t \in Threads, InitMutex(t)
  PROVE  IInv'
<1>1. /\ allocCall[t].step = "init" /\ GoTo(t, "initLock") /\ th_malloc_mutex' = Free
      /\ UNCHANGED <<heap, own, contexts, th_malloc_sizes>>
  BY DEF InitMutex, stats
<1>2. /\ CallInv' /\ OwnInv' /\ PhaseInv' /\ allocCall' \in [Threads -> Calls]
      /\ \A x \in Addrs : Moving(x)' = Moving(x) /\ (Settled(x)' <=> Settled(x))
  BY <1>1, StepKeeps
<1>3. ListInv'
  BY <1>1, <1>2, ListKept DEF IInv
<1>4. TypeInv'
  BY <1>1, <1>2 DEF IInv, TypeInv, Calls
<1>5. allocCall'[t].step = "initLock" /\ \A u \in Threads : u # t => allocCall'[u] = allocCall[u]
  BY <1>1, GoesTo DEF IInv
<1>6. \A u \in Threads : u # t => allocCall[u].step = "none"
  BY <1>1, InitAlone DEF NoAlloc
<1>7. \A u \in Threads : u # Free
  BY HeapAssumption
<1>8. MutexInv'
  BY <1>1, <1>5, <1>6, <1>7 DEF IInv, MutexInv
<1> QED  BY <1>2, <1>3, <1>4, <1>8 DEF IInv

\* The empty list gets the header; no other thread relies on its being empty.
LEMMA InitStatsKeeps ==
  ASSUME IInv, NEW t \in Threads, InitStats(t)
  PROVE  IInv'
<1>1. /\ allocCall[t].step = "initLock" /\ GoTo(t, "lock")
      /\ th_malloc_sizes' = <<Entry(Null, 0)>> \o th_malloc_sizes
      /\ UNCHANGED <<heap, own, contexts, th_malloc_mutex>>
  BY DEF InitStats
<1>2. /\ CallInv' /\ OwnInv' /\ PhaseInv' /\ allocCall' \in [Threads -> Calls]
      /\ \A x \in Addrs : Moving(x)' = Moving(x) /\ (Settled(x)' <=> Settled(x))
  BY <1>1, StepKeeps
<1>3. Entry(Null, 0) \in Entries /\ Entry(Null, 0).data = Null /\ th_malloc_sizes \in Seq(Entries)
  BY HeapAssumption DEF Entry, Entries, IInv, TypeInv
<1>4. th_malloc_sizes' \in Seq(Entries)
  BY <1>1, <1>3, ConcatProperties
<1>5. TypeInv'
  BY <1>1, <1>2, <1>4 DEF IInv, TypeInv, Calls
<1>6. allocCall'[t].step = "lock" /\ \A u \in Threads : u # t => allocCall'[u] = allocCall[u]
  BY <1>1, GoesTo DEF IInv
<1>7. \A u \in Threads : u # t => allocCall[u].step = "none"
  BY <1>1, InitAlone DEF NoAlloc
<1>8. MutexInv'
  BY <1>1, <1>6, <1>7 DEF IInv, MutexInv
<1>9. ListInv'
  <2>1. th_malloc_sizes = <<>>
    BY <1>1 DEF IInv, MutexInv
  <2>2. \A x : Count(th_malloc_sizes, x) = 0
    BY <2>1, FS_EmptySet DEF Count, Positions
  <2>3. \A x : Count(th_malloc_sizes', x) = (IF Null = x THEN 1 ELSE 0)
    <3> TAKE x
    <3>1. Count(<<Entry(Null, 0)>> \o th_malloc_sizes, x)
            = Count(th_malloc_sizes, x) + (IF Entry(Null, 0).data = x THEN 1 ELSE 0)
      BY <1>3, CountPrepend
    <3> QED  BY <1>1, <1>3, <2>2, <3>1
  <2>4. \A x \in Addrs : Count(th_malloc_sizes', x) = Count(th_malloc_sizes, x)
    BY <2>2, <2>3, HeapAssumption
  <2> QED  BY <1>2, <2>3, <2>4 DEF IInv, ListInv
<1> QED  BY <1>2, <1>5, <1>8, <1>9 DEF IInv

\* The mutex was free, so that nobody was at the statistics.
LEMMA LockKeeps ==
  ASSUME IInv, NEW t \in Threads, Lock(t)
  PROVE  IInv'
<1>1. /\ allocCall[t].step = "lock" /\ GoTo(t, "account")
      /\ th_malloc_mutex = Free /\ th_malloc_mutex' = t
      /\ UNCHANGED <<heap, own, contexts, th_malloc_sizes>>
  BY DEF Lock, stats
<1>2. /\ CallInv' /\ OwnInv' /\ PhaseInv' /\ allocCall' \in [Threads -> Calls]
      /\ \A x \in Addrs : Moving(x)' = Moving(x) /\ (Settled(x)' <=> Settled(x))
  BY <1>1, StepKeeps
<1>3. ListInv'
  BY <1>1, <1>2, ListKept DEF IInv
<1>4. TypeInv'
  BY <1>1, <1>2 DEF IInv, TypeInv, Calls
<1>5. allocCall'[t].step = "account" /\ \A u \in Threads : u # t => allocCall'[u] = allocCall[u]
  BY <1>1, GoesTo DEF IInv
<1>6. \A u \in Threads : u # Free
  BY HeapAssumption
<1>7. MutexInv'
  BY <1>1, <1>5, <1>6 DEF IInv, MutexInv
<1> QED  BY <1>2, <1>3, <1>4, <1>7 DEF IInv

\* The holder of the mutex gives it back.
LEMMA UnlockKeeps ==
  ASSUME IInv, NEW t \in Threads, allocCall[t].step = "account",
         allocCall'[t].step \in {"none", "libc"}, th_malloc_mutex' = Free,
         \A u \in Threads : u # t => allocCall'[u] = allocCall[u]
  PROVE  MutexInv'
<1>1. ASSUME NEW u \in Threads
      PROVE  /\ allocCall'[u].step # "account"
             /\ allocCall'[u].step \notin {"init", "initLock"}
  <2>1. CASE u = t
    BY <2>1
  <2>2. CASE u # t
    <3>1. allocCall[u].step # "account"
      BY <2>2 DEF IInv, MutexInv
    <3>2. allocCall[t] # NoAlloc
      BY DEF NoAlloc
    <3>3. allocCall[u].step \notin {"init", "initLock"}
      BY <2>2, <3>2, InitAlone
    <3> QED  BY <2>2, <3>1, <3>3
  <2> QED  BY <2>1, <2>2
<1>2. \A u \in Threads : u # Free
  BY HeapAssumption
<1> QED  BY <1>1, <1>2 DEF MutexInv

\* An alloc or realloc returns its block.
LEMMA ReturnKeeps ==
  ASSUME IInv, NEW t \in Threads, allocCall[t].op \in {"alloc", "realloc"},
         allocCall' = [allocCall EXCEPT ![t] = NoAlloc], UNCHANGED <<heap, own, contexts>>
  PROVE  /\ CallInv' /\ OwnInv' /\ PhaseInv' /\ allocCall' \in [Threads -> Calls]
         /\ allocCall'[t] = NoAlloc /\ \A u \in Threads : u # t => allocCall'[u] = allocCall[u]
         /\ \A x \in Addrs :
              /\ Moving(x)' = IF allocCall[t].op = "realloc" /\ x = allocCall[t].ptr THEN Moving(x) \ {t} ELSE Moving(x)
              /\ x # allocCall[t].ret => (Settled(x)' <=> Settled(x))
              /\ x = allocCall[t].ret => ~Settled(x) /\ Settled(x)'
         /\ allocCall[t].ret \in Addrs
<1>0. TypeInv /\ CallInv /\ OwnInv /\ PhaseInv /\ MutexInv /\ CallOf(t)
  BY DEF IInv, CallInv
<1>1. allocCall'[t] = NoAlloc /\ \A u \in Threads : u # t => allocCall'[u] = allocCall[u]
  BY <1>0 DEF TypeInv
<1>2. allocCall'[t].op = "none" /\ allocCall'[t].step = "none"
  BY <1>1 DEF NoAlloc
<1>3. NoAlloc \in Calls
  BY HeapAssumption DEF NoAlloc, Calls
<1>4. allocCall' \in [Threads -> Calls]
  BY <1>0, <1>3 DEF TypeInv, Calls
<1>5. CallInv'
  <2>1. ASSUME NEW u \in Threads
        PROVE  CallOf(u)' /\ FreeOf(u)'
    <3>1. CASE u = t
      BY <1>1, <1>2, <3>1 DEF CallOf, FreeOf
    <3>2. CASE u # t
      <4>1. CallOf(u) /\ FreeOf(u) /\ allocCall'[u] = allocCall[u]
        BY <1>0, <1>1, <3>2 DEF CallInv
      <4>2. CallOf(u)'
        BY <4>1 DEF CallOf
      <4>3. FreeOf(u)'
        BY <1>1, <1>2, <4>1 DEF FreeOf
      <4> QED  BY <4>2, <4>3
    <3> QED  BY <3>1, <3>2
  <2> QED  BY <2>1 DEF CallInv
<1>6. OwnInv'
  BY <1>0 DEF OwnInv
<1>7. PhaseInv'
  BY <1>0, <1>1, HeapAssumption DEF PhaseInv, Threads
<1>8. allocCall[t].ret \in own[t] /\ allocCall[t].ret \in Addrs
  BY <1>0 DEF CallOf, TypeInv
<1>9. ~Settled(allocCall[t].ret)
  BY DEF Settled, Fresh
<1>10. ASSUME NEW x, x = allocCall[t].ret
       PROVE  Settled(x)'
  <2>1. /\ heap[x] # NoBlock /\ ~Gone(x)
        /\ \A u \in Threads : u # t => (allocCall[u].op \in {"alloc", "realloc"} => allocCall[u].ret # x)
    BY <1>0, <1>8, <1>10, Held
  <2>2. ~Fresh(x)'
    BY <1>1, <1>2, <2>1 DEF Fresh
  <2>3. ~Gone(x)'
    BY <1>1, <1>2, <2>1 DEF Gone
  <2> QED  BY <2>1, <2>2, <2>3 DEF Settled
<1>11. ASSUME NEW x \in Addrs
       PROVE  /\ Moving(x)' = IF allocCall[t].op = "realloc" /\ x = allocCall[t].ptr THEN Moving(x) \ {t} ELSE Moving(x)
              /\ x # allocCall[t].ret => (Settled(x)' <=> Settled(x))
  <2>1. Moving(x)' = IF allocCall[t].op = "realloc" /\ x = allocCall[t].ptr THEN Moving(x) \ {t} ELSE Moving(x)
    BY <1>1, <1>2 DEF Moving
  <2>2. x # allocCall[t].ret => (Fresh(x)' <=> Fresh(x))
    BY <1>1, <1>2 DEF Fresh
  <2>3. allocCall[t].step # "libc"
    BY <1>0 DEF CallOf
  <2>4. Gone(x)' <=> Gone(x)
    BY <1>1, <1>2, <2>3 DEF Gone
  <2> QED  BY <2>1, <2>2, <2>4 DEF Settled
<1> QED  BY <1>1, <1>4, <1>5, <1>6, <1>7, <1>8, <1>9, <1>10, <1>11

\* What the list counts for an address, as naturals.
LEMMA Counted ==
  ASSUME TypeInv, ListInv, NEW x \in Addrs
  PROVE  /\ Count(th_malloc_sizes, x) \in Nat /\ Cardinality(Moving(x)) \in Nat
         /\ Count(th_malloc_sizes, x) = Cardinality(Moving(x)) + (IF Settled(x) THEN 1 ELSE 0)
BY MovingFinite, PositionsFinite DEF ListInv, TypeInv

\* The new block enters the list.
LEMMA AccountAllocKeeps ==
  ASSUME IInv, NEW t \in Threads, Account(t), AccountAlloc(t)
  PROVE  IInv'
<1> DEFINE e == Entry(allocCall[t].ret, allocCall[t].size)
<1>1. /\ allocCall[t].step = "account" /\ th_malloc_mutex' = Free /\ UNCHANGED <<heap, own, contexts>>
      /\ allocCall[t].op = "alloc" /\ allocCall' = [allocCall EXCEPT ![t] = NoAlloc]
      /\ th_malloc_sizes' = <<e>> \o th_malloc_sizes
  BY DEF Account, AccountAlloc
<1>2. /\ CallInv' /\ OwnInv' /\ PhaseInv' /\ allocCall' \in [Threads -> Calls]
      /\ allocCall'[t] = NoAlloc /\ \A u \in Threads : u # t => allocCall'[u] = allocCall[u]
      /\ \A x \in Addrs :
           /\ Moving(x)' = Moving(x)
           /\ x # allocCall[t].ret => (Settled(x)' <=> Settled(x))
           /\ x = allocCall[t].ret => ~Settled(x) /\ Settled(x)'
      /\ allocCall[t].ret \in Addrs
  BY <1>1, ReturnKeeps
<1>3. MutexInv'
  BY <1>1, <1>2, UnlockKeeps DEF NoAlloc
<1>4. e \in Entries /\ e.data = allocCall[t].ret /\ th_malloc_sizes \in Seq(Entries)
  BY <1>2 DEF Entry, Entries, IInv, TypeInv
<1> HIDE DEF e
<1>5. th_malloc_sizes' \in Seq(Entries)
  BY <1>1, <1>4, ConcatProperties
<1>6. TypeInv'
  BY <1>1, <1>2, <1>5 DEF IInv, TypeInv, Calls
<1>7. ASSUME NEW x
      PROVE  Count(th_malloc_sizes', x) = Count(th_malloc_sizes, x) + (IF allocCall[t].ret = x THEN 1 ELSE 0)
  BY <1>1, <1>4, CountPrepend
<1>8. ASSUME NEW x \in Addrs
      PROVE  (Count(th_malloc_sizes, x) = Cardinality(Moving(x)) + (IF Settled(x) THEN 1 ELSE 0))'
  BY <1>2, <1>7, Counted DEF IInv
<1>9. Count(th_malloc_sizes', Null) <= 1
  <2>1. allocCall[t].ret # Null /\ Count(th_malloc_sizes, Null) <= 1 /\ Count(th_malloc_sizes, Null) \in Nat
    BY <1>2, <1>4, PositionsFinite, HeapAssumption DEF IInv, ListInv
  <2> QED  BY <1>7, <2>1
<1>10. ListInv'
  BY <1>8, <1>9 DEF ListInv
<1> QED  BY <1>2, <1>3, <1>6, <1>10 DEF IInv

\* The entry of the old block becomes that of the new one.
LEMMA AccountReallocKeeps ==
  ASSUME IInv, NEW t \in Threads, Account(t), AccountRealloc(t)
  PROVE  IInv'
<1> DEFINE e == Entry(allocCall[t].ret, allocCall[t].size)
           i == Dsearch(allocCall[t].ptr)
<1>1. /\ allocCall[t].step = "account" /\ th_malloc_mutex' = Free /\ UNCHANGED <<heap, own, contexts>>
      /\ allocCall[t].op = "realloc" /\ allocCall' = [allocCall EXCEPT ![t] = NoAlloc]
      /\ Listed(allocCall[t].ptr) => th_malloc_sizes' = [th_malloc_sizes EXCEPT ![i] = e]
  BY DEF Account, AccountRealloc
<1>2. /\ CallInv' /\ OwnInv' /\ PhaseInv' /\ allocCall' \in [Threads -> Calls]
      /\ allocCall'[t] = NoAlloc /\ \A u \in Threads : u # t => allocCall'[u] = allocCall[u]
      /\ \A x \in Addrs :
           /\ Moving(x)' = IF x = allocCall[t].ptr THEN Moving(x) \ {t} ELSE Moving(x)
           /\ x # allocCall[t].ret => (Settled(x)' <=> Settled(x))
           /\ x = allocCall[t].ret => ~Settled(x) /\ Settled(x)'
      /\ allocCall[t].ret \in Addrs
  BY <1>1, ReturnKeeps
<1>3. MutexInv'
  BY <1>1, <1>2, UnlockKeeps DEF NoAlloc
<1>4. e \in Entries /\ e.data = allocCall[t].ret /\ th_malloc_sizes \in Seq(Entries)
  BY <1>2 DEF Entry, Entries, IInv, TypeInv
<1>5. allocCall[t].ptr \in Addrs /\ t \in Moving(allocCall[t].ptr)
  BY <1>1 DEF IInv, CallInv, CallOf, Moving
<1>6. Cardinality(Moving(allocCall[t].ptr) \ {t}) = Cardinality(Moving(allocCall[t].ptr)) - 1
      /\ Cardinality(Moving(allocCall[t].ptr)) >= 1
  <2> DEFINE M == Moving(allocCall[t].ptr)
  <2>1. IsFiniteSet(M) /\ t \in M
    BY <1>5, MovingFinite
  <2> HIDE DEF M
  <2>2. Cardinality(M \ {t}) = Cardinality(M) - 1 /\ Cardinality(M) \in Nat
        /\ Cardinality(M \ {t}) \in Nat
    BY <2>1, FS_RemoveElement, FS_CardinalityType
  <2>3. Cardinality(M) >= 1
    BY <2>2
  <2> QED  BY <2>2, <2>3 DEF M
<1>7. Count(th_malloc_sizes, allocCall[t].ptr) # 0
  BY <1>5, <1>6, Counted DEF IInv
<1>8. i \in Positions(th_malloc_sizes, allocCall[t].ptr) /\ Listed(allocCall[t].ptr)
  BY <1>7, DsearchFinds DEF IInv
<1>9. i \in 1..Len(th_malloc_sizes) /\ th_malloc_sizes[i].data = allocCall[t].ptr
  BY <1>8 DEF Positions
<1>10. th_malloc_sizes' = [th_malloc_sizes EXCEPT ![i] = e]
  BY <1>1, <1>8
<1> HIDE DEF e, i
<1>11. th_malloc_sizes' \in Seq(Entries)
  BY <1>4, <1>9, <1>10
<1>12. TypeInv'
  BY <1>1, <1>2, <1>11 DEF IInv, TypeInv, Calls
<1>13. ASSUME NEW x
       PROVE  Count(th_malloc_sizes', x) =
                (Count(th_malloc_sizes, x) - (IF allocCall[t].ptr = x THEN 1 ELSE 0))
                  + (IF allocCall[t].ret = x THEN 1 ELSE 0)
  <2>1. Count([th_malloc_sizes EXCEPT ![i] = e], x) =
          (Count(th_malloc_sizes, x) - (IF th_malloc_sizes[i].data = x THEN 1 ELSE 0))
            + (IF e.data = x THEN 1 ELSE 0)
    BY <1>4, <1>9, CountReplace
  <2> QED  BY <1>4, <1>9, <1>10, <2>1
<1>14. ASSUME NEW x \in Addrs
       PROVE  (Count(th_malloc_sizes, x) = Cardinality(Moving(x)) + (IF Settled(x) THEN 1 ELSE 0))'
  <2>2. /\ Count(th_malloc_sizes, x) \in Nat /\ Cardinality(Moving(x)) \in Nat
        /\ Count(th_malloc_sizes, x) = Cardinality(Moving(x)) + (IF Settled(x) THEN 1 ELSE 0)
    BY Counted DEF IInv
  <2>1. Cardinality(Moving(x)') = Cardinality(Moving(x)) - (IF allocCall[t].ptr = x THEN 1 ELSE 0)
    <3>1. Moving(x)' = IF x = allocCall[t].ptr THEN Moving(x) \ {t} ELSE Moving(x)
      BY <1>2
    <3>2. CASE x = allocCall[t].ptr
      BY <1>6, <3>1, <3>2
    <3>3. CASE x # allocCall[t].ptr
      <4>1. Moving(x)' = Moving(x)
        BY <3>1, <3>3
      <4> QED  BY <2>2, <3>3, <4>1
    <3> QED  BY <3>2, <3>3
  <2>3. /\ x # allocCall[t].ret => (Settled(x)' <=> Settled(x))
        /\ x = allocCall[t].ret => ~Settled(x) /\ Settled(x)'
    BY <1>2
  <2>4. (IF Settled(x)' THEN 1 ELSE 0) = (IF Settled(x) THEN 1 ELSE 0) + (IF allocCall[t].ret = x THEN 1 ELSE 0)
    BY <2>3
  <2> QED  BY <1>13, <2>1, <2>2, <2>4
<1>15. Count(th_malloc_sizes', Null) <= 1
  <2>1. /\ allocCall[t].ret # Null /\ allocCall[t].ptr # Null
        /\ Count(th_malloc_sizes, Null) <= 1 /\ Count(th_malloc_sizes, Null) \in Nat
    BY <1>2, <1>4, <1>5, PositionsFinite, HeapAssumption DEF IInv, ListInv
  <2> QED  BY <1>13, <2>1
<1>16. ListInv'
  BY <1>14, <1>15 DEF ListInv
<1> QED  BY <1>2, <1>3, <1>12, <1>16 DEF IInv

\* The entry leaves the list before the block goes back to the C library.
LEMMA AccountFreeKeeps ==
  ASSUME IInv, NEW t \in Threads, Account(t), AccountFree(t)
  PROVE  IInv'
<1>0. TypeInv /\ CallInv /\ OwnInv /\ PhaseInv /\ MutexInv /\ ListInv /\ CallOf(t) /\ FreeOf(t)
  BY DEF IInv, CallInv
<1> DEFINE i == Dsearch(allocCall[t].ptr)
<1>1. /\ allocCall[t].step = "account" /\ th_malloc_mutex' = Free /\ UNCHANGED <<heap, own, contexts>>
      /\ allocCall[t].op = "free" /\ GoTo(t, "libc")
      /\ th_malloc_sizes' = IF Listed(allocCall[t].ptr) THEN RemoveAt(th_malloc_sizes, i) ELSE th_malloc_sizes
  BY DEF Account, AccountFree, stats
<1>2. /\ allocCall'[t].step = "libc" /\ allocCall'[t].op = "free" /\ allocCall'[t].ptr = allocCall[t].ptr
      /\ allocCall'[t].ret = allocCall[t].ret
      /\ \A u \in Threads : u # t => allocCall'[u] = allocCall[u]
  BY <1>0, <1>1, GoesTo
<1>3. \A u \in Threads : allocCall'[u].op = allocCall[u].op /\ allocCall'[u].ptr = allocCall[u].ptr /\ allocCall'[u].ret = allocCall[u].ret
  BY <1>1, <1>2
<1>4. allocCall' \in [Threads -> Calls]
  <2>1. [allocCall[t] EXCEPT !.step = "libc"] \in Calls /\ allocCall \in [Threads -> Calls]
    BY <1>0 DEF TypeInv, Calls
  <2> QED  BY <1>1, <2>1 DEF GoTo
<1>5. CallInv'
  <2>1. ASSUME NEW u \in Threads
        PROVE  CallOf(u)' /\ FreeOf(u)'
    <3>1. CallOf(u) /\ FreeOf(u)
      BY <1>0 DEF CallInv
    <3>2. CallOf(u)'
      <4>1. CASE u = t
        BY <1>1, <1>2, <4>1 DEF CallOf
      <4>2. CASE u # t
        BY <1>1, <1>2, <3>1, <4>2 DEF CallOf
      <4> QED  BY <4>1, <4>2
    <3>3. FreeOf(u)'
      BY <1>1, <1>3, <3>1 DEF FreeOf
    <3> QED  BY <3>2, <3>3
  <2> QED  BY <2>1 DEF CallInv
<1>6. OwnInv'
  BY <1>0, <1>1 DEF OwnInv
<1>7. allocCall[t] # NoAlloc
  BY <1>1 DEF NoAlloc
<1>8. PhaseInv'
  BY <1>0, <1>1, <1>2, <1>7, HeapAssumption DEF PhaseInv, Threads
<1>9. MutexInv'
  BY <1>1, <1>2, UnlockKeeps
<1>10. th_malloc_sizes \in Seq(Entries)
  BY <1>0 DEF TypeInv
<1>11. Listed(allocCall[t].ptr) => i \in 1..Len(th_malloc_sizes) /\ th_malloc_sizes[i].data = allocCall[t].ptr
  BY <1>0, DsearchFinds DEF Positions
<1> HIDE DEF i
<1>12. ASSUME NEW x
       PROVE  /\ th_malloc_sizes' \in Seq(Entries)
              /\ Count(th_malloc_sizes', x) = Count(th_malloc_sizes, x)
                   - (IF Listed(allocCall[t].ptr) /\ allocCall[t].ptr = x THEN 1 ELSE 0)
  <2>1. CASE Listed(allocCall[t].ptr)
    <3>1. /\ RemoveAt(th_malloc_sizes, i) \in Seq(Entries)
          /\ Count(RemoveAt(th_malloc_sizes, i), x) =
               Count(th_malloc_sizes, x) - (IF th_malloc_sizes[i].data = x THEN 1 ELSE 0)
      BY <1>10, <1>11, <2>1, CountRemove
    <3> QED  BY <1>1, <1>11, <2>1, <3>1
  <2>2. CASE ~Listed(allocCall[t].ptr)
    <3>1. Count(th_malloc_sizes, x) \in Nat
      BY <1>10, PositionsFinite
    <3> QED  BY <1>1, <1>10, <2>2, <3>1
  <2> QED  BY <2>1, <2>2
<1>13. TypeInv'
  BY <1>0, <1>1, <1>4, <1>12 DEF TypeInv, Calls
<1>14. ASSUME NEW x \in Addrs
       PROVE  (Count(th_malloc_sizes, x) = Cardinality(Moving(x)) + (IF Settled(x) THEN 1 ELSE 0))'
  <2>1. Moving(x)' = Moving(x)
    BY <1>3 DEF Moving
  <2>2. Fresh(x)' <=> Fresh(x)
    BY <1>3 DEF Fresh
  <2>3. /\ Count(th_malloc_sizes, x) \in Nat /\ Cardinality(Moving(x)) \in Nat
        /\ Count(th_malloc_sizes, x) = Cardinality(Moving(x)) + (IF Settled(x) THEN 1 ELSE 0)
    BY <1>0, Counted
  <2>4. CASE x # allocCall[t].ptr
    <3>1. Gone(x)' <=> Gone(x)
      BY <1>1, <1>2, <2>4 DEF Gone
    <3>2. Settled(x)' <=> Settled(x)
      BY <1>1, <2>2, <3>1 DEF Settled
    <3>3. Count(th_malloc_sizes', x) = Count(th_malloc_sizes, x)
      BY <1>12, <2>3, <2>4
    <3> QED  BY <2>1, <2>3, <3>2, <3>3
  <2>5. CASE x = allocCall[t].ptr
    <3>1. heap[x] # NoBlock /\ \A u \in Threads : /\ x \notin own[u]
                                                  /\ u # t /\ allocCall[u].op = "free" => allocCall[u].ptr # x
      BY <1>0, <1>1, <2>5, HeapAssumption DEF FreeOf
    <3>2. ~Fresh(x)
      BY <1>0, <3>1 DEF Fresh, CallInv, CallOf
    <3>3. ~Gone(x)
      BY <1>0, <1>1, <3>1 DEF Gone, CallInv, CallOf
    <3>4. Settled(x)
      BY <3>1, <3>2, <3>3 DEF Settled
    <3>5. Count(th_malloc_sizes, x) = Cardinality(Moving(x)) + 1
      BY <2>3, <3>4
    <3>6. Listed(allocCall[t].ptr)
      BY <1>0, <2>3, <2>5, <3>5, DsearchFinds
    <3>7. Gone(x)'
      BY <1>2, <2>5 DEF Gone
    <3>8. ~Settled(x)'
      BY <3>7 DEF Settled
    <3>9. Count(th_malloc_sizes', x) = Count(th_malloc_sizes, x) - 1
      BY <1>12, <2>5, <3>6
    <3> QED  BY <2>1, <2>3, <3>5, <3>8, <3>9
  <2> QED  BY <2>4, <2>5
<1>15. Count(th_malloc_sizes', Null) <= 1
  <2>1. Count(th_malloc_sizes, Null) <= 1 /\ Count(th_malloc_sizes, Null) \in Nat
    BY <1>0, <1>10, PositionsFinite DEF ListInv
  <2> QED  BY <1>12, <2>1
<1>16. ListInv'
  BY <1>14, <1>15 DEF ListInv
<1> QED  BY <1>5, <1>6, <1>8, <1>9, <1>13, <1>16 DEF IInv

\* The block that went back was in no list, and nobody's.
LEMMA LibcFreeKeeps ==
  ASSUME IInv, NEW t \in Threads, LibcFree(t)
  PROVE  IInv'
<1>0. TypeInv /\ CallInv /\ OwnInv /\ PhaseInv /\ MutexInv /\ ListInv /\ CallOf(t) /\ FreeOf(t)
  BY DEF IInv, CallInv
<1>1. /\ allocCall[t].step = "libc" /\ allocCall' = [allocCall EXCEPT ![t] = NoAlloc]
      /\ heap' = IF allocCall[t].ptr = Null THEN heap ELSE [heap EXCEPT ![allocCall[t].ptr] = NoBlock]
      /\ UNCHANGED <<own, contexts, th_malloc_sizes, th_malloc_mutex>>
  BY DEF LibcFree, stats
<1>2. allocCall'[t] = NoAlloc /\ \A u \in Threads : u # t => allocCall'[u] = allocCall[u]
  BY <1>0, <1>1 DEF TypeInv
<1>3. allocCall'[t].op = "none" /\ allocCall'[t].step = "none" /\ allocCall[t].op = "free"
  BY <1>0, <1>1, <1>2 DEF NoAlloc, CallOf
<1>4. \A x \in Addrs : heap'[x] = IF x = allocCall[t].ptr THEN NoBlock ELSE heap[x]
  BY <1>0, <1>1, HeapAssumption DEF TypeInv
<1>5. allocCall[t].ptr # Null => \A u \in Threads : /\ allocCall[t].ptr \notin own[u]
                                                    /\ u # t /\ allocCall[u].op = "free" => allocCall[u].ptr # allocCall[t].ptr
  BY <1>0, <1>3 DEF FreeOf
<1>6. TypeInv'
  <2>1. NoAlloc \in Calls /\ allocCall \in [Threads -> Calls]
    BY <1>0, HeapAssumption DEF NoAlloc, Calls, TypeInv
  <2>2. allocCall' \in [Threads -> Calls]
    BY <1>1, <2>1
  <2>3. heap' \in [Addrs -> 0..MaxSize]
    BY <1>0, <1>1, HeapAssumption DEF TypeInv, NoBlock
  <2> QED  BY <1>0, <1>1, <2>2, <2>3 DEF TypeInv, Calls
<1>7. CallInv'
  <2>1. ASSUME NEW u \in Threads
        PROVE  CallOf(u)' /\ FreeOf(u)'
    <3>1. CASE u = t
      BY <1>2, <1>3, <3>1 DEF CallOf, FreeOf
    <3>2. CASE u # t
      <4>1. CallOf(u) /\ FreeOf(u) /\ allocCall'[u] = allocCall[u]
        BY <1>0, <1>2, <3>2 DEF CallInv
      <4>2. CallOf(u)'
        BY <1>1, <4>1 DEF CallOf
      <4>3. ASSUME allocCall[u].op = "free", allocCall[u].ptr # Null
            PROVE  FreeOf(u)'
        <5>1. allocCall[u].ptr \in Addrs /\ allocCall[u].ptr # allocCall[t].ptr /\ heap[allocCall[u].ptr] # NoBlock
          BY <1>0, <1>5, <3>2, <4>1, <4>3 DEF FreeOf, TypeInv
        <5>2. heap'[allocCall[u].ptr] # NoBlock
          BY <1>4, <5>1
        <5> QED  BY <1>1, <1>2, <1>3, <4>1, <4>3, <5>2 DEF FreeOf
      <4> QED  BY <4>1, <4>2, <4>3 DEF FreeOf
    <3> QED  BY <3>1, <3>2
  <2> QED  BY <2>1 DEF CallInv
<1>8. OwnInv'
  <2>1. ASSUME NEW u \in Threads, NEW a \in own[u]
        PROVE  heap'[a] # NoBlock
    <3>1. a \in Addrs /\ a # Null /\ heap[a] # NoBlock
      BY <1>0, HeapAssumption DEF TypeInv, OwnInv
    <3>2. a # allocCall[t].ptr
      <4>1. PICK y : y = allocCall[t].ptr
        OBVIOUS
      <4>2. y # Null => y \notin own[u]
        BY <1>5, <4>1
      <4> QED  BY <3>1, <4>1, <4>2
    <3> QED  BY <1>4, <3>1, <3>2
  <2> QED  BY <1>0, <1>1, <2>1 DEF OwnInv
<1>9. PhaseInv'
  BY <1>0, <1>1, <1>2, HeapAssumption DEF PhaseInv, Threads
<1>10. MutexInv'
  BY <1>0, <1>1, <1>2, <1>3 DEF MutexInv
<1>11. ASSUME NEW x \in Addrs
       PROVE  Moving(x)' = Moving(x) /\ (Settled(x)' <=> Settled(x))
  <2>1. Moving(x)' = Moving(x)
    BY <1>2, <1>3 DEF Moving
  <2>2. Fresh(x)' <=> Fresh(x)
    BY <1>2, <1>3 DEF Fresh
  <2>3. x # allocCall[t].ptr => (Gone(x)' <=> Gone(x))
    BY <1>2, <1>3 DEF Gone
  <2>4. x = allocCall[t].ptr => Gone(x)
    BY <1>1 DEF Gone
  <2> QED  BY <1>4, <2>1, <2>2, <2>3, <2>4 DEF Settled
<1> QED  BY <1>0, <1>1, <1>6, <1>7, <1>8, <1>9, <1>10, <1>11, ListKept DEF IInv

\* A phase begins between the calls of the threads it concerns.
LEMMA PhaseKeeps ==
  ASSUME IInv, StartContexts \/ JoinContexts
  PROVE  IInv'
<1>0. TypeInv /\ CallInv /\ OwnInv /\ PhaseInv /\ MutexInv /\ ListInv
  BY DEF IInv
<1>1. UNCHANGED <<heap, own, allocCall, th_malloc_sizes, th_malloc_mutex>> /\ contexts' \in {"alone", "running", "joined"}
  BY DEF StartContexts, JoinContexts, stats
<1>2. PhaseInv'
  BY <1>0, <1>1 DEF PhaseInv, StartContexts, JoinContexts
<1>3. TypeInv' /\ OwnInv' /\ MutexInv'
  BY <1>0, <1>1 DEF TypeInv, OwnInv, MutexInv
<1>4. CallInv'
  BY <1>0, <1>1 DEF CallInv, CallOf, FreeOf
<1>5. \A x \in Addrs : Moving(x)' = Moving(x) /\ (Settled(x)' <=> Settled(x))
  BY <1>1 DEF Moving, Settled, Fresh, Gone
<1> QED  BY <1>0, <1>1, <1>2, <1>3, <1>4, <1>5, ListKept DEF IInv

\* Nothing is allocated at first.
LEMMA InitHolds ==
  ASSUME HeapInit
  PROVE  IInv
<1>1. \A t \in Threads : allocCall[t] = NoAlloc /\ allocCall[t].op = "none" /\ allocCall[t].step = "none" /\ own[t] = {}
  BY DEF HeapInit, NoAlloc
<1>2. TypeInv
  <2>1. NoAlloc \in Calls
    BY HeapAssumption DEF NoAlloc, Calls
  <2>2. allocCall \in [Threads -> Calls]
    BY <2>1 DEF HeapInit
  <2>3. heap \in [Addrs -> 0..MaxSize]
    BY HeapAssumption DEF HeapInit, NoBlock
  <2>4. th_malloc_sizes \in Seq(Entries)
    BY DEF HeapInit
  <2> QED  BY <2>2, <2>3, <2>4 DEF TypeInv, HeapInit, Calls
<1>3. CallInv
  BY <1>1 DEF CallInv, CallOf, FreeOf
<1>4. OwnInv /\ PhaseInv
  BY <1>1 DEF OwnInv, PhaseInv, HeapInit, Threads
<1>5. MutexInv
  BY <1>1, HeapAssumption DEF MutexInv, HeapInit
<1>6. ListInv
  <2>1. \A x : Count(th_malloc_sizes, x) = 0
    BY FS_EmptySet DEF Count, Positions, HeapInit
  <2>2. \A x : Moving(x) = {}
    BY <1>1 DEF Moving
  <2>3. \A x \in Addrs : ~Settled(x)
    BY DEF Settled, HeapInit
  <2>4. Cardinality({}) = 0
    BY FS_EmptySet
  <2> QED  BY <2>1, <2>2, <2>3, <2>4 DEF ListInv
<1> QED  BY <1>2, <1>3, <1>4, <1>5, <1>6 DEF IInv

\* Whatever the threads do, the list has every block as often as it should.
THEOREM HeapInvariant == HeapSpec => []IInv
<1>1. HeapInit => IInv
  BY InitHolds
<1>2. IInv /\ [HeapNext]_heapVars => IInv'
  <2> SUFFICES ASSUME IInv, [HeapNext]_heapVars
               PROVE  IInv'
    OBVIOUS
  <2>1. ASSUME NEW t \in Threads, Step(t)
        PROVE  IInv'
    <3>1. CASE StartAlloc(t)
      BY <3>1, StartAllocKeeps
    <3>2. CASE StartRealloc(t)
      BY <3>2, StartReallocKeeps
    <3>3. CASE StartFree(t)
      BY <3>3, StartFreeKeeps
    <3>4. CASE CheckInit(t)
      BY <3>4, CheckInitKeeps
    <3>5. CASE InitMutex(t)
      BY <3>5, InitMutexKeeps
    <3>6. CASE InitStats(t)
      BY <3>6, InitStatsKeeps
    <3>7. CASE Lock(t)
      BY <3>7, LockKeeps
    <3>8. CASE Account(t)
      <4>1. AccountAlloc(t) \/ AccountRealloc(t) \/ AccountFree(t)
        BY <3>8 DEF Account
      <4> QED  BY <3>8, <4>1, AccountAllocKeeps, AccountReallocKeeps, AccountFreeKeeps
    <3>9. CASE LibcFree(t)
      BY <3>9, LibcFreeKeeps
    <3> QED  BY <2>1, <3>1, <3>2, <3>3, <3>4, <3>5, <3>6, <3>7, <3>8, <3>9 DEF Step
  <2>2. CASE StartContexts \/ JoinContexts
    BY <2>2, PhaseKeeps
  <2>3. CASE UNCHANGED heapVars
    <3>1. UNCHANGED <<heap, own, allocCall, th_malloc_sizes, th_malloc_mutex, contexts>>
      BY <2>3 DEF heapVars, stats
    <3>2. TypeInv' /\ OwnInv' /\ MutexInv' /\ PhaseInv'
      BY <3>1 DEF IInv, TypeInv, OwnInv, MutexInv, PhaseInv
    <3>3. CallInv'
      BY <3>1 DEF IInv, CallInv, CallOf, FreeOf
    <3>4. \A x \in Addrs : Moving(x)' = Moving(x) /\ (Settled(x)' <=> Settled(x))
      BY <3>1 DEF Moving, Settled, Fresh, Gone
    <3> QED  BY <3>1, <3>2, <3>3, <3>4, ListKept DEF IInv
  <2> QED  BY <2>1, <2>2, <2>3 DEF HeapNext, HeapEnded
<1> QED  BY <1>1, <1>2, PTL DEF HeapSpec

-----------------------------------------------------------------------------
(* What follows.                                                           *)

\* Who accounts holds the mutex, and the statistics are initialised when no
\* other thread can be using them (th_lib.c, th_malloc and its kin), whatever
\* the number of contexts: main has a block before they run.
THEOREM StatisticsLocked == HeapSpec => []AccountsLocked
<1>1. IInv => AccountsLocked
  <2> SUFFICES ASSUME IInv
               PROVE  AccountsLocked
    OBVIOUS
  <2>1. ASSUME NEW t \in Threads
        PROVE  /\ allocCall[t].step = "account" => th_malloc_mutex = t
               /\ allocCall[t].step \in {"init", "initLock"} => \A u \in Threads \ {t} : allocCall[u] = NoAlloc
    BY InitAlone DEF IInv, MutexInv
  <2> QED  BY <2>1 DEF AccountsLocked
<1> QED  BY <1>1, HeapInvariant, PTL

\* th_malloc_sizes has no address that malloc may hand out again but one that a
\* realloc has just left (th_free_x takes the entry out before it calls free), and
\* between calls it has every allocated block once and no other, for any number of
\* contexts, addresses and calls: no realloc that moved its block takes another's
\* entry with it, and no release misses its own.
THEOREM ListMatchesHeap == HeapSpec => []ListIsHeap
<1>1. ASSUME IInv, NEW a \in Unused, Listed(a)
      PROVE  \E t \in Threads : allocCall[t].op = "realloc" /\ allocCall[t].ptr = a
  <2>1. TypeInv /\ ListInv /\ th_malloc_sizes \in Seq(Entries) /\ a \in Addrs
    BY <1>1 DEF IInv, TypeInv, Unused
  <2>2. ~Settled(a)
    BY <1>1 DEF Unused, Settled
  <2>3. Count(th_malloc_sizes, a) = Cardinality(Moving(a)) + 0
    BY <2>1, <2>2, Counted
  <2>4. Count(th_malloc_sizes, a) # 0
    BY <1>1, <2>1, DsearchFinds
  <2>5. Moving(a) # {}
    BY <2>3, <2>4, FS_EmptySet
  <2> QED  BY <2>5 DEF Moving
<1>2. IInv /\ BetweenCalls => /\ \A a \in Addrs : heap[a] # NoBlock <=> Listed(a)
                             /\ \A i, j \in DOMAIN th_malloc_sizes :
                                  i # j => th_malloc_sizes[i].data # th_malloc_sizes[j].data
  <2> SUFFICES ASSUME IInv, BetweenCalls
               PROVE  /\ \A a \in Addrs : heap[a] # NoBlock <=> Listed(a)
                      /\ \A i, j \in DOMAIN th_malloc_sizes :
                           i # j => th_malloc_sizes[i].data # th_malloc_sizes[j].data
    OBVIOUS
  <2>0. TypeInv /\ ListInv /\ th_malloc_sizes \in Seq(Entries)
    BY DEF IInv, TypeInv
  <2>1. \A t \in Threads : allocCall[t].op = "none" /\ allocCall[t].step = "none"
    BY DEF BetweenCalls, NoAlloc
  <2>2. ASSUME NEW a \in Addrs
        PROVE  Count(th_malloc_sizes, a) = (IF heap[a] # NoBlock THEN 1 ELSE 0)
    <3>1. Moving(a) = {} /\ Cardinality({}) = 0
      BY <2>1, FS_EmptySet DEF Moving
    <3>2. Settled(a) <=> heap[a] # NoBlock
      BY <2>1 DEF Settled, Fresh, Gone
    <3>3. Count(th_malloc_sizes, a) = Cardinality(Moving(a)) + (IF Settled(a) THEN 1 ELSE 0)
      BY <2>0, Counted
    <3>4. Cardinality(Moving(a)) = 0
      BY <3>1
    <3> QED  BY <3>2, <3>3, <3>4
  <2>3. \A a \in Addrs : heap[a] # NoBlock <=> Listed(a)
    BY <2>0, <2>2, DsearchFinds
  <2>4. ASSUME NEW i \in DOMAIN th_malloc_sizes, NEW j \in DOMAIN th_malloc_sizes, i # j,
               th_malloc_sizes[i].data = th_malloc_sizes[j].data
        PROVE  FALSE
    <3>0. PICK x : x = th_malloc_sizes[i].data
      OBVIOUS
    <3> DEFINE P == Positions(th_malloc_sizes, x)
    <3>1. DOMAIN th_malloc_sizes = 1..Len(th_malloc_sizes)
      BY <2>0
    <3>2. i \in P /\ j \in P
      <4>1. i \in 1..Len(th_malloc_sizes) /\ j \in 1..Len(th_malloc_sizes)
        BY <3>1
      <4>2. th_malloc_sizes[i].data = x /\ th_malloc_sizes[j].data = x
        BY <2>4, <3>0
      <4> QED  BY <4>1, <4>2 DEF Positions
    <3>3. x \in Addrs \cup {Null}
      <4>1. th_malloc_sizes[i] \in Entries
        BY <2>0, <3>1
      <4> QED  BY <3>0, <4>1 DEF Entries
    <3>4. Count(th_malloc_sizes, x) <= 1
      BY <2>0, <2>2, <3>3 DEF ListInv
    <3>5. IsFiniteSet(P) /\ Cardinality(P) \in Nat /\ Cardinality(P) <= 1
      BY <2>0, <3>4, PositionsFinite DEF Count
    <3> HIDE DEF P
    <3>6. Cardinality(P \ {i}) = Cardinality(P) - 1 /\ IsFiniteSet(P \ {i})
      BY <3>2, <3>5, FS_RemoveElement
    <3>7. Cardinality(P \ {i}) \in Nat
      BY <3>6, FS_CardinalityType
    <3>8. Cardinality(P \ {i}) = 0
      BY <3>5, <3>6, <3>7
    <3>9. P \ {i} = {}
      BY <3>6, <3>8, FS_EmptySet
    <3> QED  BY <2>4, <3>2, <3>9
  <2> QED  BY <2>3, <2>4
<1>3. IInv => ListIsHeap
  BY <1>1, <1>2 DEF ListIsHeap
<1> QED  BY <1>3, HeapInvariant, PTL

-----------------------------------------------------------------------------
(* The total.                                                              *)

\* The sums over a list: what the recursion that defines them says.
LEMMA SumsAre ==
  ASSUME NEW s \in Seq(Entries)
  PROVE  /\ Sums(s) \in [0..Len(s) -> Nat] /\ Sums(s)[0] = 0
         /\ \A n \in Nat : n < Len(s) => Sums(s)[n + 1] = Sums(s)[n] + s[n + 1].info
<1>0. Len(s) \in Nat /\ \A n \in 1..Len(s) : s[n].info \in Nat
  <2>1. \A n \in 1..Len(s) : s[n] \in Entries
    OBVIOUS
  <2> QED BY <2>1 DEF Entries
<1> DEFINE more == [n \in Nat |-> IF n \in 1..Len(s) THEN s[n].info ELSE 0]
           g == [x \in Nat \X Nat |-> x[2] + more[x[1]]]
<1>1. more \in [Nat -> Nat] /\ \A n \in 1..Len(s) : more[n] = s[n].info
  BY <1>0
<1> HIDE DEF more
<1>2. g \in [Nat \X Nat -> Nat] /\ \A k, x \in Nat : g[<<k, x>>] = x + more[k]
  <2>1. \A x \in Nat \X Nat : x[1] \in Nat /\ x[2] \in Nat
    OBVIOUS
  <2>2. ASSUME NEW x \in Nat \X Nat PROVE x[2] + more[x[1]] \in Nat
    <3>1. x[2] \in Nat /\ x[1] \in Nat
      BY <2>1
    <3>2. more[x[1]] \in Nat
      BY <1>1, <3>1
    <3>3. \A a, b \in Nat : a + b \in Nat
      OBVIOUS
    <3> QED BY <3>1, <3>2, <3>3
  <2>3. \A k, x \in Nat : <<k, x>> \in Nat \X Nat
    OBVIOUS
  <2>4. \A k, x \in Nat : g[<<k, x>>] = x + more[k]
    BY <2>3
  <2> QED BY <2>2, <2>4
<1> HIDE DEF g
<1>3. PICK f : AllSteps(Nat, 0, g, f)
  BY <1>2, Recursion
<1>4. f \in [Nat -> Nat] /\ f[0] = 0 /\ \A k \in Nat : f[k + 1] = f[k] + more[k + 1]
  <2>1. f \in [Nat -> Nat] /\ f[0] = 0 /\ \A k \in Nat : f[k + 1] = g[<<k + 1, f[k]>>]
    BY <1>3 DEF AllSteps
  <2>2. \A k \in Nat : f[k] \in Nat /\ k + 1 \in Nat
    BY <2>1
  <2> QED BY <1>2, <2>1, <2>2
<1> DEFINE h == [n \in 0..Len(s) |-> f[n]]
<1>5. ASSUME NEW n \in 0..Len(s), n # 0 PROVE h[n] = h[n - 1] + s[n].info
  <2>1. n - 1 \in Nat /\ (n - 1) + 1 = n /\ n - 1 \in 0..Len(s) /\ n \in 1..Len(s)
    BY <1>0, <1>5
  <2>2. f[(n - 1) + 1] = f[n - 1] + more[(n - 1) + 1]
    BY <1>4, <2>1
  <2> QED BY <1>1, <2>1, <2>2
<1>6. h[0] = 0
  BY <1>0, <1>4
<1>7. h = [n \in 0..Len(s) |-> h[n]]
  OBVIOUS
<1> HIDE DEF h
<1>8. h = [n \in 0..Len(s) |-> IF n = 0 THEN 0 ELSE h[n - 1] + s[n].info]
  BY <1>5, <1>6, <1>7
<1>9. Sums(s) = [n \in 0..Len(s) |-> IF n = 0 THEN 0 ELSE Sums(s)[n - 1] + s[n].info]
  BY <1>8 DEF Sums
<1> DEFINE F == Sums(s)
<1> HIDE DEF F
<1>10. F = [n \in 0..Len(s) |-> IF n = 0 THEN 0 ELSE F[n - 1] + s[n].info]
  BY <1>9 DEF F
<1>11. F[0] = 0 /\ 0 \in 0..Len(s)
  BY <1>0, <1>10
<1>12. ASSUME NEW n \in Nat, n < Len(s) PROVE F[n + 1] = F[n] + s[n + 1].info
  <2>1. n + 1 \in 0..Len(s) /\ n + 1 # 0 /\ (n + 1) - 1 = n
    BY <1>0, <1>12
  <2> QED BY <1>10, <2>1
<1> DEFINE S == {n \in Nat : n <= Len(s) => F[n] \in Nat}
<1>13. 0 \in S
  BY <1>11
<1>14. ASSUME NEW n \in S PROVE n + 1 \in S
  <2>1. n + 1 <= Len(s) => n <= Len(s) /\ n < Len(s) /\ n + 1 \in 1..Len(s)
    BY <1>0
  <2> QED BY <1>0, <1>12, <2>1
<1>15. S \in SUBSET Nat
  OBVIOUS
<1> HIDE DEF S
<1>16. S = Nat
  BY <1>13, <1>14, <1>15, Induction
<1>17. \A n \in 0..Len(s) : F[n] \in Nat
  BY <1>0, <1>16 DEF S
<1>18. F \in [0..Len(s) -> Nat]
  BY <1>10, <1>17
<1> QED BY <1>11, <1>12, <1>18 DEF F

\* A new entry at the head adds its size to the sum.
LEMMA SumPrepend ==
  ASSUME NEW s \in Seq(Entries), NEW e \in Entries
  PROVE  Sums(<<e>> \o s)[Len(<<e>> \o s)] = Sums(s)[Len(s)] + e.info
<1> DEFINE t == <<e>> \o s
           S == {n \in Nat : n <= Len(s) => Sums(t)[n + 1] = Sums(s)[n] + e.info}
<1>1. /\ t \in Seq(Entries) /\ Len(t) = Len(s) + 1 /\ Len(s) \in Nat /\ t[1] = e
      /\ \A i \in 1..Len(s) : t[i + 1] = s[i]
  OBVIOUS
<1>2. e.info \in Nat
  BY DEF Entries
<1> HIDE DEF t
<1>3. /\ Sums(s) \in [0..Len(s) -> Nat] /\ Sums(s)[0] = 0
      /\ \A n \in Nat : n < Len(s) => Sums(s)[n + 1] = Sums(s)[n] + s[n + 1].info
  BY SumsAre
<1>4. /\ Sums(t) \in [0..Len(t) -> Nat] /\ Sums(t)[0] = 0
      /\ \A n \in Nat : n < Len(t) => Sums(t)[n + 1] = Sums(t)[n] + t[n + 1].info
  BY <1>1, SumsAre
<1>5. 0 \in S
  BY <1>1, <1>2, <1>3, <1>4
<1>6. ASSUME NEW n \in S PROVE n + 1 \in S
  <2>1. SUFFICES ASSUME n + 1 <= Len(s) PROVE Sums(t)[(n + 1) + 1] = Sums(s)[n + 1] + e.info
    OBVIOUS
  <2>2. n \in Nat /\ n < Len(s) /\ n <= Len(s) /\ n + 1 < Len(t) /\ n + 1 \in 1..Len(s) /\ n + 1 \in Nat
    BY <1>1, <2>1
  <2>3. Sums(t)[(n + 1) + 1] = Sums(t)[n + 1] + t[(n + 1) + 1].info
    BY <1>4, <2>2
  <2>4. Sums(s)[n + 1] = Sums(s)[n] + s[n + 1].info /\ t[(n + 1) + 1] = s[n + 1] /\ Sums(t)[n + 1] = Sums(s)[n] + e.info
    BY <1>1, <1>3, <2>2
  <2>5. Sums(s)[n] \in Nat /\ s[n + 1].info \in Nat
    <3>1. s[n + 1] \in Entries /\ n \in 0..Len(s)
      BY <2>2
    <3> QED BY <1>3, <3>1 DEF Entries
  <2> QED BY <1>2, <2>3, <2>4, <2>5
<1>7. S \in SUBSET Nat
  OBVIOUS
<1> HIDE DEF S
<1>8. S = Nat
  BY <1>5, <1>6, <1>7, Induction
<1>9. Sums(t)[Len(t)] = Sums(s)[Len(s)] + e.info
  BY <1>1, <1>8 DEF S
<1> QED BY <1>9 DEF t

\* An entry with other contents: the sum changes by the difference of the sizes.
LEMMA SumReplace ==
  ASSUME NEW s \in Seq(Entries), NEW e \in Entries, NEW i \in 1..Len(s)
  PROVE  Sums([s EXCEPT ![i] = e])[Len(s)] + s[i].info = Sums(s)[Len(s)] + e.info
<1> DEFINE t == [s EXCEPT ![i] = e]
           S == {n \in Nat : n <= Len(s) =>
                   IF n < i THEN Sums(t)[n] = Sums(s)[n]
                            ELSE Sums(t)[n] + s[i].info = Sums(s)[n] + e.info}
<1>1. /\ t \in Seq(Entries) /\ Len(t) = Len(s) /\ Len(s) \in Nat /\ t[i] = e
      /\ \A j \in 1..Len(s) : j # i => t[j] = s[j]
  OBVIOUS
<1>2. e.info \in Nat /\ i \in Nat /\ i >= 1 /\ i <= Len(s) /\ \A j \in 1..Len(s) : s[j].info \in Nat
  <2>1. \A j \in 1..Len(s) : s[j] \in Entries
    OBVIOUS
  <2> QED BY <2>1 DEF Entries
<1> HIDE DEF t
<1>3. /\ Sums(s) \in [0..Len(s) -> Nat] /\ Sums(s)[0] = 0
      /\ \A n \in Nat : n < Len(s) => Sums(s)[n + 1] = Sums(s)[n] + s[n + 1].info
  BY SumsAre
<1>4. /\ Sums(t) \in [0..Len(s) -> Nat] /\ Sums(t)[0] = 0
      /\ \A n \in Nat : n < Len(s) => Sums(t)[n + 1] = Sums(t)[n] + t[n + 1].info
  BY <1>1, SumsAre
<1>5. 0 \in S
  BY <1>2, <1>3, <1>4
<1>6. ASSUME NEW n \in S PROVE n + 1 \in S
  <2>1. SUFFICES ASSUME n + 1 <= Len(s)
                 PROVE  IF n + 1 < i THEN Sums(t)[n + 1] = Sums(s)[n + 1]
                                     ELSE Sums(t)[n + 1] + s[i].info = Sums(s)[n + 1] + e.info
    OBVIOUS
  <2>2. n \in Nat /\ n < Len(s) /\ n <= Len(s) /\ n + 1 \in 1..Len(s) /\ n \in 0..Len(s)
    BY <1>1, <2>1
  <2>3. /\ Sums(t)[n + 1] = Sums(t)[n] + t[n + 1].info
        /\ Sums(s)[n + 1] = Sums(s)[n] + s[n + 1].info
        /\ Sums(s)[n] \in Nat /\ Sums(t)[n] \in Nat /\ s[n + 1].info \in Nat /\ s[i].info \in Nat
    BY <1>2, <1>3, <1>4, <2>2
  <2>4. IF n < i THEN Sums(t)[n] = Sums(s)[n]
                 ELSE Sums(t)[n] + s[i].info = Sums(s)[n] + e.info
    BY <2>2
  <2>5. CASE n + 1 = i
    <3>1. t[n + 1].info = e.info /\ s[n + 1].info = s[i].info /\ n < i /\ ~(n + 1 < i)
      BY <1>1, <1>2, <2>2, <2>5
    <3> QED BY <1>2, <2>3, <2>4, <3>1
  <2>6. CASE n + 1 # i
    <3>1. t[n + 1].info = s[n + 1].info
      BY <1>1, <2>2, <2>6
    <3>2. n < i <=> n + 1 < i
      BY <1>2, <2>2, <2>6
    <3>3. CASE n < i
      <4>1. Sums(t)[n] = Sums(s)[n] /\ n + 1 < i
        BY <2>4, <3>2, <3>3
      <4> QED BY <2>3, <3>1, <4>1
    <3>4. CASE ~(n < i)
      <4>1. Sums(t)[n] + s[i].info = Sums(s)[n] + e.info /\ ~(n + 1 < i)
        BY <2>4, <3>2, <3>4
      <4>2. PICK a, b, c, d, x \in Nat : /\ a = Sums(t)[n] /\ b = s[i].info /\ c = Sums(s)[n]
                                         /\ d = e.info /\ x = s[n + 1].info
        BY <1>2, <2>3
      <4>3. a + b = c + d /\ Sums(t)[n + 1] = a + x /\ Sums(s)[n + 1] = c + x
        BY <2>3, <3>1, <4>1, <4>2
      <4>4. (a + x) + b = (c + x) + d
        <5>1. a + b = c + d
          BY <4>3
        <5> QED BY ONLY <5>1, a \in Nat, b \in Nat, c \in Nat, d \in Nat, x \in Nat
      <4>5. Sums(t)[n + 1] + s[i].info = Sums(s)[n + 1] + e.info
        BY <4>2, <4>3, <4>4, Zenon
      <4> QED BY <4>1, <4>5
    <3> QED BY <3>3, <3>4
  <2> QED BY <2>5, <2>6
<1>7. S \in SUBSET Nat
  OBVIOUS
<1> HIDE DEF S
<1>8. S = Nat
  BY <1>5, <1>6, <1>7, Induction
<1>9. Sums(t)[Len(s)] + s[i].info = Sums(s)[Len(s)] + e.info
  BY <1>1, <1>2, <1>8 DEF S
<1> QED BY <1>9 DEF t

\* An entry that leaves takes its size out of the sum.
LEMMA SumRemove ==
  ASSUME NEW s \in Seq(Entries), NEW i \in 1..Len(s)
  PROVE  Sums(RemoveAt(s, i))[Len(RemoveAt(s, i))] + s[i].info = Sums(s)[Len(s)]
<1> DEFINE t == RemoveAt(s, i)
           S == {n \in Nat : n < Len(s) =>
                   IF n < i THEN Sums(t)[n] = Sums(s)[n]
                            ELSE Sums(t)[n] + s[i].info = Sums(s)[n + 1]}
<1>1. /\ t \in Seq(Entries) /\ Len(t) = Len(s) - 1 /\ Len(s) \in Nat /\ Len(t) \in Nat
      /\ \A j \in 1..(i - 1) : t[j] = s[j]
      /\ \A j \in i..(Len(s) - 1) : t[j] = s[j + 1]
  BY RemoveAtIs
<1>2. i \in Nat /\ i >= 1 /\ i <= Len(s) /\ \A j \in 1..Len(s) : s[j].info \in Nat
  <2>1. \A j \in 1..Len(s) : s[j] \in Entries
    OBVIOUS
  <2> QED BY <2>1 DEF Entries
<1> HIDE DEF t
<1>3. /\ Sums(s) \in [0..Len(s) -> Nat] /\ Sums(s)[0] = 0
      /\ \A n \in Nat : n < Len(s) => Sums(s)[n + 1] = Sums(s)[n] + s[n + 1].info
  BY SumsAre
<1>4. /\ Sums(t) \in [0..Len(t) -> Nat] /\ Sums(t)[0] = 0
      /\ \A n \in Nat : n < Len(t) => Sums(t)[n + 1] = Sums(t)[n] + t[n + 1].info
  BY <1>1, SumsAre
<1>5. 0 \in S
  BY <1>2, <1>3, <1>4
<1>6. ASSUME NEW n \in S PROVE n + 1 \in S
  <2>1. SUFFICES ASSUME n + 1 < Len(s)
                 PROVE  IF n + 1 < i THEN Sums(t)[n + 1] = Sums(s)[n + 1]
                                     ELSE Sums(t)[n + 1] + s[i].info = Sums(s)[(n + 1) + 1]
    OBVIOUS
  <2>2. /\ n \in Nat /\ n < Len(s) /\ n < Len(t) /\ n + 1 \in 1..Len(s) /\ (n + 1) + 1 \in 1..Len(s) /\ n + 1 \in Nat
        /\ n \in 0..Len(s) /\ n \in 0..Len(t) /\ n + 1 \in 0..Len(s)
    BY <1>1, <2>1
  <2>3. /\ Sums(t)[n + 1] = Sums(t)[n] + t[n + 1].info
        /\ Sums(s)[n + 1] = Sums(s)[n] + s[n + 1].info
        /\ Sums(s)[(n + 1) + 1] = Sums(s)[n + 1] + s[(n + 1) + 1].info
        /\ Sums(s)[n] \in Nat /\ Sums(s)[n + 1] \in Nat /\ Sums(t)[n] \in Nat
        /\ s[n + 1].info \in Nat /\ s[(n + 1) + 1].info \in Nat /\ s[i].info \in Nat
    BY <1>2, <1>3, <1>4, <2>1, <2>2
  <2>4. IF n < i THEN Sums(t)[n] = Sums(s)[n]
                 ELSE Sums(t)[n] + s[i].info = Sums(s)[n + 1]
    BY <2>2
  <2>5. CASE n + 1 < i
    <3>1. t[n + 1] = s[n + 1] /\ n < i
      BY <1>1, <1>2, <2>2, <2>5
    <3> QED BY <2>3, <2>4, <2>5, <3>1
  <2>6. CASE n + 1 = i
    <3>1. t[n + 1] = s[(n + 1) + 1] /\ n < i /\ s[n + 1].info = s[i].info
      BY <1>1, <1>2, <2>1, <2>2, <2>6
    <3> QED BY <2>3, <2>4, <2>6, <3>1
  <2>7. CASE n + 1 > i
    <3>1. t[n + 1] = s[(n + 1) + 1] /\ ~(n < i) /\ ~(n + 1 < i)
      BY <1>1, <1>2, <2>1, <2>2, <2>7
    <3> QED BY <2>3, <2>4, <3>1
  <2> QED BY <1>2, <2>2, <2>5, <2>6, <2>7
<1>7. S \in SUBSET Nat
  OBVIOUS
<1> HIDE DEF S
<1>8. S = Nat
  BY <1>5, <1>6, <1>7, Induction
<1>9. Sums(t)[Len(t)] + s[i].info = Sums(s)[Len(s)]
  <2>1. CASE i = Len(s)
    <3>1. Len(t) < i /\ Len(t) < Len(s) /\ Len(t) + 1 = Len(s) /\ Len(t) + 1 = i
      BY <1>1, <2>1
    <3>2. Sums(t)[Len(t)] = Sums(s)[Len(t)]
      BY <1>1, <1>8, <3>1 DEF S
    <3>3. Sums(s)[Len(t) + 1] = Sums(s)[Len(t)] + s[Len(t) + 1].info
      BY <1>1, <1>3, <3>1
    <3> QED BY <3>1, <3>2, <3>3
  <2>2. CASE i # Len(s)
    <3>1. ~(Len(t) < i) /\ Len(t) < Len(s) /\ Len(t) + 1 = Len(s)
      BY <1>1, <1>2, <2>2
    <3>2. Sums(t)[Len(t)] + s[i].info = Sums(s)[Len(t) + 1]
      BY <1>1, <1>8, <3>1 DEF S
    <3> QED BY <3>1, <3>2
  <2> QED BY <2>1, <2>2
<1> QED BY <1>9 DEF t

\* The total is the sum, and the maximum is not below it.
ISum == th_malloc_max \in Nat /\ TotalIsSum

\* Nothing is allocated at first, and the sum over an empty list is 0.
LEMMA InitSum ==
  ASSUME HeapInit PROVE ISum
<1>1. <<>> \in Seq(Entries) /\ Len(<<>>) = 0
  OBVIOUS
<1>2. Sums(<<>>)[0] = 0
  BY <1>1, SumsAre
<1> QED BY <1>1, <1>2 DEF HeapInit, ISum, TotalIsSum, SumOfSizes

\* Each call adds and takes off what its entry says.
LEMMA NextSum ==
  ASSUME IInv, ISum, [HeapNext]_heapVars
  PROVE  ISum'
<1>1. PICK s \in Seq(Entries), total \in Nat, max \in Nat :
        s = th_malloc_sizes /\ total = th_malloc_total /\ max = th_malloc_max
  <2>1. th_malloc_sizes \in Seq(Entries)
    BY DEF IInv, TypeInv
  <2>2. Len(th_malloc_sizes) \in 0..Len(th_malloc_sizes)
    BY <2>1
  <2>3. th_malloc_total \in Nat /\ th_malloc_max \in Nat
    BY <2>1, <2>2, SumsAre DEF ISum, TotalIsSum, SumOfSizes
  <2> QED BY <2>1, <2>3
<1>2. total = Sums(s)[Len(s)] /\ total <= max
  BY <1>1 DEF ISum, TotalIsSum, SumOfSizes
<1>4. ASSUME UNCHANGED stats PROVE ISum'
  BY <1>4 DEF stats, ISum, TotalIsSum, SumOfSizes
<1>5. ASSUME NEW t \in Threads, InitStats(t) PROVE ISum'
  <2>1. th_malloc_sizes = <<>> /\ th_malloc_total' = 0 /\ th_malloc_max' = th_malloc_max
        /\ th_malloc_sizes' = <<Entry(Null, 0)>> \o th_malloc_sizes
    BY <1>5 DEF InitStats, IInv, MutexInv
  <2>2. Entry(Null, 0) \in Entries /\ Entry(Null, 0).info = 0
    BY HeapAssumption DEF Entry, Entries
  <2>3. Sums(<<>>)[0] = 0 /\ <<>> \in Seq(Entries) /\ Len(<<>>) = 0
    <3>1. <<>> \in Seq(Entries) /\ Len(<<>>) = 0
      OBVIOUS
    <3> QED BY <3>1, SumsAre
  <2>4. Sums(th_malloc_sizes')[Len(th_malloc_sizes')] = 0 + 0
    BY <2>1, <2>2, <2>3, SumPrepend
  <2> QED BY <1>1, <1>2, <2>1, <2>4 DEF ISum, TotalIsSum, SumOfSizes
<1>6. ASSUME NEW t \in Threads, Account(t) PROVE ISum'
  <2>0. PICK c : c = allocCall[t]
    OBVIOUS
  <2>1. c.size \in 0..MaxSize /\ c.size \in Nat /\ c.ret \in Addrs \cup {Null}
    BY <2>0, HeapAssumption DEF IInv, TypeInv
  <2>2. PICK e \in Entries : e = Entry(c.ret, c.size) /\ e.info = c.size
    <3>1. [data |-> c.ret, info |-> c.size] \in Entries
      BY <2>1 DEF Entries
    <3> QED BY <3>1 DEF Entry
  <2>3. \A m, n \in Nat : Bigger(m, n) \in Nat /\ n <= Bigger(m, n) /\ m <= Bigger(m, n)
    BY DEF Bigger
  <2>4. CASE AccountAlloc(t)
    <3>1. /\ th_malloc_total' = total + c.size /\ th_malloc_max' = Bigger(max, th_malloc_total')
          /\ th_malloc_sizes' = <<e>> \o s
      BY <1>1, <2>0, <2>2, <2>4 DEF AccountAlloc
    <3>2. Sums(th_malloc_sizes')[Len(th_malloc_sizes')] = total + c.size
      BY <1>2, <2>2, <3>1, SumPrepend
    <3>3. th_malloc_total' \in Nat
      BY <2>1, <3>1
    <3> QED BY <2>3, <3>1, <3>2, <3>3 DEF ISum, TotalIsSum, SumOfSizes
  <2>5. ASSUME Listed(c.ptr)
        PROVE  \E i \in 1..Len(s) : i = Dsearch(c.ptr) /\ s[i].info \in Nat /\ s[i].info <= total
    <3>1. PICK i \in 1..Len(s) : i = Dsearch(c.ptr)
      BY <1>1, <2>5, DsearchFinds DEF IInv, Positions
    <3>2. s[i] \in Entries /\ s[i].info \in Nat
      <4>1. s[i] \in Entries
        OBVIOUS
      <4> QED BY <4>1 DEF Entries
    <3>3. RemoveAt(s, i) \in Seq(Entries) /\ Sums(RemoveAt(s, i))[Len(RemoveAt(s, i))] + s[i].info = total
      BY <1>2, RemoveAtIs, SumRemove
    <3>4. Sums(RemoveAt(s, i))[Len(RemoveAt(s, i))] \in Nat
      <4>1. Len(RemoveAt(s, i)) \in 0..Len(RemoveAt(s, i))
        BY <3>3
      <4> QED BY <3>3, <4>1, SumsAre
    <3>5. s[i].info <= total
      BY <3>2, <3>3, <3>4
    <3> QED BY <3>1, <3>2, <3>5
  <2>6. CASE AccountRealloc(t)
    <3>1. CASE Listed(c.ptr)
      <4>1. PICK i \in 1..Len(s) : i = Dsearch(c.ptr) /\ s[i].info \in Nat /\ s[i].info <= total
        BY <2>5, <3>1
      <4>2. /\ th_malloc_total' = (total - s[i].info) + c.size /\ th_malloc_max' = Bigger(max, th_malloc_total')
            /\ th_malloc_sizes' = [s EXCEPT ![i] = e]
        BY <1>1, <2>0, <2>2, <2>6, <3>1, <4>1 DEF AccountRealloc
      <4>3. Len(th_malloc_sizes') = Len(s) /\ th_malloc_sizes' \in Seq(Entries)
        BY <4>2
      <4>4. Sums(th_malloc_sizes')[Len(s)] + s[i].info = total + c.size
        BY <1>2, <2>2, <4>2, SumReplace
      <4>5. Sums(th_malloc_sizes')[Len(s)] \in Nat
        <5>1. Len(s) \in 0..Len(th_malloc_sizes')
          BY <4>3
        <5> QED BY <4>3, <5>1, SumsAre
      <4>6. th_malloc_total' = Sums(th_malloc_sizes')[Len(th_malloc_sizes')] /\ th_malloc_total' \in Nat
        BY <2>1, <4>1, <4>2, <4>3, <4>4, <4>5
      <4> QED BY <2>3, <4>2, <4>6 DEF ISum, TotalIsSum, SumOfSizes
    <3>2. CASE ~Listed(c.ptr)
      BY <1>4, <2>0, <2>6, <3>2 DEF AccountRealloc
    <3> QED BY <3>1, <3>2
  <2>7. CASE AccountFree(t)
    <3>1. CASE Listed(c.ptr)
      <4>1. PICK i \in 1..Len(s) : i = Dsearch(c.ptr) /\ s[i].info \in Nat /\ s[i].info <= total
        BY <2>5, <3>1
      <4>2. /\ th_malloc_total' = total - s[i].info /\ th_malloc_max' = max
            /\ th_malloc_sizes' = RemoveAt(s, i)
        BY <1>1, <2>0, <2>7, <3>1, <4>1 DEF AccountFree
      <4>3. RemoveAt(s, i) \in Seq(Entries) /\ Len(RemoveAt(s, i)) \in 0..Len(RemoveAt(s, i))
        BY RemoveAtIs
      <4>4. /\ Sums(RemoveAt(s, i))[Len(RemoveAt(s, i))] + s[i].info = total
            /\ Sums(RemoveAt(s, i))[Len(RemoveAt(s, i))] \in Nat
        BY <1>2, <4>3, SumRemove, SumsAre
      <4>5. th_malloc_total' = Sums(RemoveAt(s, i))[Len(RemoveAt(s, i))] /\ th_malloc_total' <= max
        BY <1>2, <4>1, <4>2, <4>4
      <4> QED BY <4>2, <4>5 DEF ISum, TotalIsSum, SumOfSizes
    <3>2. CASE ~Listed(c.ptr)
      BY <1>4, <2>0, <2>7, <3>2 DEF AccountFree
    <3> QED BY <3>1, <3>2
  <2> QED BY <1>6, <2>4, <2>6, <2>7 DEF Account
<1>7. UNCHANGED stats \/ \E t \in Threads : InitStats(t) \/ Account(t)
  BY DEF HeapNext, Step, heapVars, StartAlloc, StartRealloc, StartFree, CheckInit, InitMutex, Lock, LibcFree,
         StartContexts, JoinContexts, HeapEnded
<1> QED BY <1>4, <1>5, <1>6, <1>7

\* th_malloc_total is at every moment the sum of the sizes in th_malloc_sizes,
\* so no release takes it below 0, and th_malloc_max has never been below it:
\* whatever the number of contexts, blocks and calls, and however realloc and
\* free meet.
THEOREM TotalsAgree == HeapSpec => []TotalIsSum
<1>1. ISum => TotalIsSum
  BY DEF ISum
<1> QED BY HeapInvariant, InitSum, NextSum, <1>1, PTL DEF HeapSpec

-----------------------------------------------------------------------------
(* Sums over sets.                                                        *)

\* F gives the sum of h over each subset of S, in some order.
SumsOver(h, S, F) ==
  /\ F \in [SUBSET S -> Nat] /\ F[{}] = 0
  /\ \A U \in SUBSET S : U # {} => \E x \in U : F[U] = h[x] + F[U \ {x}]

\* A subset less one of its elements is smaller by one.
LEMMA OneLess ==
  ASSUME NEW S, IsFiniteSet(S), NEW U \in SUBSET S, NEW x \in U
  PROVE  /\ U \ {x} \in SUBSET S /\ Cardinality(U) \in Nat \ {0} /\ Cardinality(U \ {x}) \in Nat
         /\ Cardinality(U) = Cardinality(U \ {x}) + 1
<1>1. IsFiniteSet(U)
  BY FS_Subset
<1>2. Cardinality(U \ {x}) = Cardinality(U) - 1 /\ IsFiniteSet(U \ {x})
  BY <1>1, FS_RemoveElement
<1>3. Cardinality(U) \in Nat /\ Cardinality(U \ {x}) \in Nat
  BY <1>1, <1>2, FS_CardinalityType
<1> QED BY <1>2, <1>3

\* Only the empty set has no element.
LEMMA NoneLeft ==
  ASSUME NEW S, IsFiniteSet(S), NEW U \in SUBSET S
  PROVE  Cardinality(U) \in Nat /\ (Cardinality(U) = 0 <=> U = {})
<1>1. IsFiniteSet(U)
  BY FS_Subset
<1> QED BY <1>1, FS_CardinalityType, FS_EmptySet

\* The sum that MapThenSumSet defines by recursion.
LEMMA SumOverIs ==
  ASSUME NEW S, IsFiniteSet(S), NEW h \in [S -> Nat]
  PROVE  \E F : SumsOver(h, S, F) /\ MapThenSumSet(LAMBDA a : h[a], S) = F[S]
<1> DEFINE c(U) == CHOOSE x \in U : TRUE
           X == [SUBSET S -> Nat]
           zero == [U \in SUBSET S |-> 0]
           more(y) == [U \in SUBSET S |-> IF U = {} THEN 0 ELSE h[c(U)] + y[U \ {c(U)}]]
           g == [y \in Nat \X X |-> more(y[2])]
<1>1. \A U \in SUBSET S : U # {} => c(U) \in U
  OBVIOUS
<1> HIDE DEF c
<1>2. zero \in X
  OBVIOUS
<1>3. \A y \in X : more(y) \in X
  <2> SUFFICES ASSUME NEW y \in X, NEW U \in SUBSET S, U # {} PROVE h[c(U)] + y[U \ {c(U)}] \in Nat
    OBVIOUS
  <2>1. h[c(U)] \in Nat /\ y[U \ {c(U)}] \in Nat
    BY <1>1
  <2> QED BY <2>1
<1>4. g \in [Nat \X X -> X] /\ \A n \in Nat, y \in X : g[<<n, y>>] = more(y)
  <2> HIDE DEF more, X
  <2>1. \A y \in Nat \X X : y[2] \in X
    OBVIOUS
  <2>2. \A n \in Nat, y \in X : <<n, y>> \in Nat \X X /\ <<n, y>>[2] = y
    OBVIOUS
  <2> QED BY <1>3, <2>1, <2>2
<1>5. PICK f : AllSteps(X, zero, g, f)
  <2> HIDE DEF X, zero, g
  <2> QED BY <1>2, <1>4, Recursion
<1>6. f \in [Nat -> X] /\ f[0] = zero /\ \A n \in Nat : f[n + 1] = more(f[n])
  <2> HIDE DEF X, zero, g, more
  <2>1. f \in [Nat -> X] /\ f[0] = zero /\ \A n \in Nat : f[n + 1] = g[<<n + 1, f[n]>>]
    BY <1>5 DEF AllSteps
  <2>2. \A n \in Nat : f[n] \in X /\ n + 1 \in Nat
    BY <2>1
  <2> QED BY <1>4, <2>1, <2>2
<1> DEFINE H == [U \in SUBSET S |-> f[Cardinality(U)][U]]
<1>7. ASSUME NEW U \in SUBSET S
      PROVE  H[U] = IF U = {} THEN 0 ELSE h[c(U)] + H[U \ {c(U)}]
  <2>1. CASE U = {}
    BY <1>6, <2>1, FS_EmptySet
  <2>2. CASE U # {}
    <3>1. c(U) \in U
      BY <1>1, <2>2
    <3>2. PICK n \in Nat : n = Cardinality(U \ {c(U)}) /\ Cardinality(U) = n + 1 /\ U \ {c(U)} \in SUBSET S
      BY <3>1, OneLess
    <3>3. f[n + 1][U] = h[c(U)] + f[n][U \ {c(U)}]
      BY <1>6, <2>2, <3>2
    <3> QED BY <2>2, <3>2, <3>3
  <2> QED BY <2>1, <2>2
<1> HIDE DEF H
<1>8. H = [U \in SUBSET S |-> IF U = {} THEN 0 ELSE h[c(U)] + H[U \ {c(U)}]]
  <2>1. H = [U \in SUBSET S |-> H[U]]
    BY DEF H
  <2> QED BY <1>7, <2>1
<1> DEFINE Q(E) == E = [U \in SUBSET S |-> IF U = {} THEN 0 ELSE h[c(U)] + E[U \ {c(U)}]]
           F == CHOOSE E : Q(E)
<1>9. MapThenSumSet(LAMBDA a : h[a], S) = F[S]
  BY DEF MapThenSumSet, MapThenFoldSet, c
<1>10. Q(F)
  <2>1. Q(H)
    BY <1>8
  <2> HIDE DEF Q
  <2> QED BY <2>1
<1> HIDE DEF F
<1>11. F[{}] = 0 /\ \A U \in SUBSET S : U # {} => F[U] = h[c(U)] + F[U \ {c(U)}]
  <2>1. \A U \in SUBSET S : F[U] = IF U = {} THEN 0 ELSE h[c(U)] + F[U \ {c(U)}]
    BY <1>10
  <2> QED BY <2>1
<1> DEFINE N == {n \in Nat : \A U \in SUBSET S : Cardinality(U) = n => F[U] \in Nat}
<1>12. 0 \in N
  BY <1>11, NoneLeft
<1>13. ASSUME NEW n \in N PROVE n + 1 \in N
  <2> SUFFICES ASSUME NEW U \in SUBSET S, Cardinality(U) = n + 1 PROVE F[U] \in Nat
    OBVIOUS
  <2>1. U # {} /\ c(U) \in U
    BY <1>1, NoneLeft
  <2>2. U \ {c(U)} \in SUBSET S /\ Cardinality(U \ {c(U)}) = n
    BY <2>1, OneLess
  <2>3. F[U \ {c(U)}] \in Nat /\ h[c(U)] \in Nat
    BY <2>1, <2>2
  <2> QED BY <1>11, <2>1, <2>3
<1>14. N \in SUBSET Nat
  OBVIOUS
<1> HIDE DEF N
<1>15. N = Nat
  BY <1>12, <1>13, <1>14, Induction
<1>16. \A U \in SUBSET S : F[U] \in Nat
  BY <1>15, NoneLeft DEF N
<1>17. F \in [SUBSET S -> Nat]
  BY <1>10, <1>16
<1>18. SumsOver(h, S, F)
  BY <1>1, <1>11, <1>17 DEF SumsOver
<1> QED BY <1>9, <1>18

\* It does not depend on the order.
LEMMA SumTakesOut ==
  ASSUME NEW S, IsFiniteSet(S), NEW h \in [S -> Nat], NEW F, SumsOver(h, S, F)
  PROVE  \A U \in SUBSET S : \A x \in U : F[U] = h[x] + F[U \ {x}]
<1> DEFINE N == {n \in Nat : \A U \in SUBSET S : Cardinality(U) = n =>
                   \A x \in U : F[U] = h[x] + F[U \ {x}]}
<1>1. 0 \in N
  BY NoneLeft
<1>2. ASSUME NEW n \in N PROVE n + 1 \in N
  <2> SUFFICES ASSUME NEW U \in SUBSET S, Cardinality(U) = n + 1, NEW x \in U
               PROVE  F[U] = h[x] + F[U \ {x}]
    OBVIOUS
  <2>1. PICK y \in U : F[U] = h[y] + F[U \ {y}]
    BY DEF SumsOver
  <2>2. /\ U \ {x} \in SUBSET S /\ Cardinality(U \ {x}) = n
        /\ U \ {y} \in SUBSET S /\ Cardinality(U \ {y}) = n
    BY OneLess
  <2>3. CASE x = y
    BY <2>1, <2>3
  <2>4. CASE x # y
    <3>1. /\ F[U \ {y}] = h[x] + F[(U \ {y}) \ {x}]
          /\ F[U \ {x}] = h[y] + F[(U \ {x}) \ {y}]
      BY <2>2, <2>4
    <3>2. (U \ {y}) \ {x} = (U \ {x}) \ {y} /\ (U \ {y}) \ {x} \in SUBSET S
      OBVIOUS
    <3>3. h[x] \in Nat /\ h[y] \in Nat /\ F[(U \ {y}) \ {x}] \in Nat
      BY <3>2 DEF SumsOver
    <3>4. PICK a \in Nat, b \in Nat, d \in Nat : a = h[x] /\ b = h[y] /\ d = F[(U \ {y}) \ {x}]
      BY <3>3
    <3>5. F[U] = b + (a + d) /\ F[U \ {x}] = b + d
      BY <2>1, <3>1, <3>2, <3>4
    <3>6. b + (a + d) = a + (b + d)
      OBVIOUS
    <3> QED BY <3>4, <3>5, <3>6
  <2> QED BY <2>3, <2>4
<1>3. N \in SUBSET Nat
  OBVIOUS
<1> HIDE DEF N
<1>4. N = Nat
  BY <1>1, <1>2, <1>3, Induction
<1> QED BY <1>4, NoneLeft DEF N

ZeroOutside(h, S, L) == \A x \in S \ L : h[x] = 0

\* What adds nothing can be left out.
LEMMA SumLeavesOut ==
  ASSUME NEW S, IsFiniteSet(S), NEW h \in [S -> Nat], NEW F, SumsOver(h, S, F), NEW L, ZeroOutside(h, S, L)
  PROVE  \A U \in SUBSET S : F[U] = F[U \cap L]
<1> DEFINE N == {n \in Nat : \A U \in SUBSET S : Cardinality(U) = n => F[U] = F[U \cap L]}
<1>1. 0 \in N
  BY NoneLeft
<1>2. ASSUME NEW n \in N PROVE n + 1 \in N
  <2> SUFFICES ASSUME NEW U \in SUBSET S, Cardinality(U) = n + 1
               PROVE  F[U] = F[U \cap L]
    OBVIOUS
  <2>1. PICK x : x \in U
    BY NoneLeft
  <2>2. U \ {x} \in SUBSET S /\ Cardinality(U \ {x}) = n
    BY <2>1, OneLess
  <2>3. F[U] = h[x] + F[U \ {x}] /\ F[U \ {x}] = F[(U \ {x}) \cap L]
    BY <2>1, <2>2, SumTakesOut
  <2>4. CASE x \in L
    <3>1. x \in U \cap L /\ U \cap L \in SUBSET S /\ (U \ {x}) \cap L = (U \cap L) \ {x}
      BY <2>1, <2>4
    <3>2. F[U \cap L] = h[x] + F[(U \cap L) \ {x}]
      BY <3>1, SumTakesOut
    <3> QED BY <2>3, <3>1, <3>2
  <2>5. CASE x \notin L
    <3>1. (U \ {x}) \cap L = U \cap L /\ h[x] = 0
      BY <2>1, <2>5 DEF ZeroOutside
    <3>2. U \cap L \in SUBSET S
      OBVIOUS
    <3>3. F[U \cap L] \in Nat
      BY <3>2 DEF SumsOver
    <3>4. F[U] = 0 + F[U \cap L]
      BY <2>3, <3>1
    <3> QED BY <3>3, <3>4
  <2> QED BY <2>4, <2>5
<1>3. N \in SUBSET Nat
  OBVIOUS
<1> HIDE DEF N
<1>4. N = Nat
  BY <1>1, <1>2, <1>3, Induction
<1> QED BY <1>4, NoneLeft DEF N

-----------------------------------------------------------------------------
(* The sizes of the blocks.                                                *)

\* A block that a call has been given has the size that the call asked for;
\* an address that realloc has left is unused, and no other realloc left it.
Sized(t) ==
  /\ allocCall[t].op \in {"alloc", "realloc"} => heap[allocCall[t].ret] = allocCall[t].size
  /\ allocCall[t].op = "realloc" =>
       /\ allocCall[t].ret # allocCall[t].ptr => heap[allocCall[t].ptr] = NoBlock
       /\ Moving(allocCall[t].ptr) = {t}

\* An entry has the size of the block at its address, unless a realloc that
\* has left the address will replace it.
Right(e) ==
  IF e.data = Null THEN e.info = 0 ELSE Moving(e.data) # {} \/ e.info = heap[e.data]

AllRight == \A i \in 1..Len(th_malloc_sizes) : Right(th_malloc_sizes[i])

\* As long as no address that the list still has was used again.
ISizes ==
  ~reused => (\A t \in Threads : Sized(t)) /\ AllRight

\* What AllRight says of the next state, entry by entry.
LEMMA RightAfter ==
  ASSUME \A i \in 1..Len(th_malloc_sizes') : \E e : e = th_malloc_sizes'[i] /\ Right(e)'
  PROVE  AllRight'
BY DEF AllRight, Right

\* Nothing has happened to a list of none.
LEMMA InitSizes == HeapInit => ISizes
<1> SUFFICES ASSUME HeapInit PROVE ISizes
  OBVIOUS
<1>1. \A t \in Threads : allocCall[t].op = "none"
  BY DEF HeapInit, NoAlloc
<1>2. th_malloc_sizes = <<>> /\ Len(<<>>) = 0
  BY DEF HeapInit
<1> QED BY <1>1, <1>2 DEF ISizes, Sized, AllRight

\* A step of a call that leaves the heap and what the call is about alone.
LEMMA SameSizes ==
  ASSUME ISizes, UNCHANGED <<heap, reused>>,
         \A u \in Threads : /\ allocCall'[u].op = allocCall[u].op /\ allocCall'[u].ptr = allocCall[u].ptr
                            /\ allocCall'[u].ret = allocCall[u].ret /\ allocCall'[u].size = allocCall[u].size
  PROVE  ~reused' => /\ ~reused
                     /\ \A u \in Threads : Sized(u)'
                     /\ \A e : Right(e) => Right(e)'
<1> SUFFICES ASSUME ~reused'
             PROVE  ~reused /\ (\A u \in Threads : Sized(u)') /\ (\A e : Right(e) => Right(e)')
  OBVIOUS
<1>1. ~reused /\ \A u \in Threads : Sized(u)
  BY DEF ISizes
<1>2. \A x : Moving(x)' = Moving(x)
  BY DEF Moving
<1>3. \A u \in Threads : Sized(u)'
  BY <1>1, <1>2 DEF Sized
<1>4. \A e : Right(e) => Right(e)'
  BY <1>2 DEF Right
<1> QED BY <1>1, <1>3, <1>4

\* An address of which the list has no entry is not what a realloc has left.
LEMMA Unlisted ==
  ASSUME IInv, NEW a \in Addrs, ~Listed(a)
  PROVE  /\ Moving(a) = {}
         /\ \A i \in 1..Len(th_malloc_sizes) : th_malloc_sizes[i].data # a
<1>1. Count(th_malloc_sizes, a) = 0 /\ th_malloc_sizes \in Seq(Entries)
  BY DsearchFinds DEF IInv, TypeInv
<1>2. Positions(th_malloc_sizes, a) = {}
  BY <1>1, PositionsFinite
<1>3. Cardinality(Moving(a)) = 0
  BY <1>1, Counted DEF IInv
<1>4. Moving(a) = {}
  BY <1>3, MovingFinite, FS_EmptySet
<1> QED BY <1>2, <1>4 DEF Positions

\* A new block.
LEMMA SizeOfNew ==
  ASSUME IInv, ISizes, NEW t \in Threads, StartAlloc(t)
  PROVE  ISizes'
<1>0. TypeInv /\ CallInv /\ OwnInv
  BY DEF IInv
<1>1. PICK a \in Unused, z \in BlockSizes :
        /\ heap' = [heap EXCEPT ![a] = z]
        /\ allocCall' = [allocCall EXCEPT ![t] = [op |-> "alloc", step |-> "check", ptr |-> Null, ret |-> a, size |-> z]]
        /\ reused' = (reused \/ Listed(a))
  BY DEF StartAlloc
<1>2. allocCall[t].op = "none" /\ th_malloc_sizes' = th_malloc_sizes
  BY DEF StartAlloc, Ready, stats, NoAlloc
<1>3. a \in Addrs /\ a # Null
      /\ \A u \in Threads : allocCall[u].op \in {"alloc", "realloc"} => allocCall[u].ret # a
  BY <1>0, NotHeld
<1>4. /\ allocCall'[t].op = "alloc" /\ allocCall'[t].ret = a /\ allocCall'[t].size = z
      /\ \A u \in Threads : u # t => allocCall'[u] = allocCall[u]
      /\ heap'[a] = z /\ \A x \in Addrs : x # a => heap'[x] = heap[x]
  BY <1>0, <1>1, <1>3 DEF TypeInv
<1> SUFFICES ASSUME ~reused'
             PROVE  /\ \A u \in Threads : Sized(u)'
                    /\ AllRight'
  BY DEF ISizes
<1>5. ~reused /\ ~Listed(a)
  BY <1>1
<1>6. Moving(a) = {} /\ \A i \in 1..Len(th_malloc_sizes) : th_malloc_sizes[i].data # a
  BY <1>3, <1>5, Unlisted
<1>7. \A x : Moving(x)' = Moving(x)
  BY <1>2, <1>4 DEF Moving
<1>8. ASSUME NEW u \in Threads PROVE Sized(u)'
  <2>1. CASE u = t
    BY <1>4, <2>1 DEF Sized
  <2>2. CASE u # t
    <3>1. Sized(u) /\ allocCall'[u] = allocCall[u]
      BY <1>4, <1>5, <2>2 DEF ISizes
    <3>2. allocCall[u].op \in {"alloc", "realloc"} => allocCall[u].ret \in Addrs /\ allocCall[u].ret # a
      BY <1>0, <1>3 DEF CallInv, CallOf, TypeInv
    <3>3. allocCall[u].op = "realloc" => allocCall[u].ptr \in Addrs /\ allocCall[u].ptr # a
      <4>1. allocCall[u].op = "realloc" => u \in Moving(allocCall[u].ptr)
        BY DEF Moving
      <4> QED BY <1>0, <1>6, <4>1 DEF CallInv, CallOf
    <3> QED BY <1>4, <1>7, <3>1, <3>2, <3>3 DEF Sized
  <2> QED BY <2>1, <2>2
<1>9. ASSUME NEW i \in 1..Len(th_malloc_sizes') PROVE \E e : e = th_malloc_sizes'[i] /\ Right(e)'
  <2>0. th_malloc_sizes' = th_malloc_sizes
    BY <1>2
  <2>1. PICK e \in Entries : e = th_malloc_sizes[i]
    BY <1>0, <2>0 DEF TypeInv
  <2>2. Right(e) /\ e.data # a /\ e.data \in Addrs \cup {Null}
    BY <1>5, <1>6, <2>0, <2>1 DEF ISizes, AllRight, Entries
  <2>3. Right(e)'
    BY <1>4, <1>7, <2>2 DEF Right
  <2> QED BY <2>0, <2>1, <2>3
<1> QED BY <1>8, <1>9, RightAfter

\* A block that realloc resizes or moves.
LEMMA SizeOfMoved ==
  ASSUME IInv, ISizes, NEW t \in Threads, StartRealloc(t)
  PROVE  ISizes'
<1>0. TypeInv /\ CallInv /\ OwnInv
  BY DEF IInv
<1>1. PICK p \in own[t], z \in BlockSizes : \E a \in Unused \cup {p} :
        /\ heap' = [heap EXCEPT ![p] = NoBlock, ![a] = z]
        /\ allocCall' = [allocCall EXCEPT ![t] = [op |-> "realloc", step |-> "check", ptr |-> p, ret |-> a, size |-> z]]
        /\ reused' = (reused \/ (a # p /\ Listed(a)))
  BY DEF StartRealloc
<1>1a. PICK a \in Unused \cup {p} :
        /\ heap' = [heap EXCEPT ![p] = NoBlock, ![a] = z]
        /\ allocCall' = [allocCall EXCEPT ![t] = [op |-> "realloc", step |-> "check", ptr |-> p, ret |-> a, size |-> z]]
        /\ reused' = (reused \/ (a # p /\ Listed(a)))
  BY <1>1
<1>2. allocCall[t].op = "none" /\ th_malloc_sizes' = th_malloc_sizes
  BY DEF StartRealloc, Ready, stats, NoAlloc
<1>3. /\ p \in Addrs /\ p # Null /\ heap[p] # NoBlock
      /\ \A u \in Threads : u # t /\ allocCall[u].op \in {"alloc", "realloc"} => allocCall[u].ret # p
  BY <1>0, Held
<1>4. /\ a \in Addrs /\ a # Null
      /\ \A u \in Threads : u # t /\ allocCall[u].op \in {"alloc", "realloc"} => allocCall[u].ret # a
  <2>1. CASE a = p
    BY <1>3, <2>1
  <2>2. CASE a \in Unused
    BY <1>0, <2>2, NotHeld
  <2> QED BY <2>1, <2>2
<1>5. /\ allocCall'[t].op = "realloc" /\ allocCall'[t].ret = a /\ allocCall'[t].size = z /\ allocCall'[t].ptr = p
      /\ \A u \in Threads : u # t => allocCall'[u] = allocCall[u]
      /\ \A x \in Addrs : x # a /\ x # p => heap'[x] = heap[x]
  BY <1>0, <1>1a, <1>3, <1>4 DEF TypeInv
<1>6. heap'[a] = z /\ (a # p => heap'[p] = NoBlock)
  BY <1>0, <1>1a, <1>3, <1>4 DEF TypeInv
<1> SUFFICES ASSUME ~reused'
             PROVE  /\ \A u \in Threads : Sized(u)'
                    /\ AllRight'
  BY DEF ISizes
<1>7. ~reused /\ (a # p => ~Listed(a))
  BY <1>1a
<1>8. \A u \in Threads : Sized(u)
  BY <1>7 DEF ISizes
<1>9. Moving(p) = {}
  <2> SUFFICES ASSUME NEW u \in Threads, allocCall[u].op = "realloc", allocCall[u].ptr = p PROVE FALSE
    BY DEF Moving
  <2>1. u # t /\ allocCall[u].ret # p
    BY <1>2, <1>3
  <2> QED BY <1>3, <1>8, <2>1 DEF Sized
<1>10. a # p => Moving(a) = {} /\ \A i \in 1..Len(th_malloc_sizes) : th_malloc_sizes[i].data # a
  BY <1>4, <1>7, Unlisted
<1>11. Moving(p)' = {t} /\ \A x : x # p => Moving(x)' = Moving(x)
  <2>1. \A u \in Threads : u # t => allocCall'[u] = allocCall[u]
    BY <1>5
  <2> QED BY <1>2, <1>5, <1>9, <2>1 DEF Moving
<1>12. ASSUME NEW u \in Threads PROVE Sized(u)'
  <2>1. CASE u = t
    BY <1>5, <1>6, <1>11, <2>1 DEF Sized
  <2>2. CASE u # t
    <3>1. Sized(u) /\ allocCall'[u] = allocCall[u]
      BY <1>5, <1>8, <2>2
    <3>2. allocCall[u].op \in {"alloc", "realloc"} => allocCall[u].ret \in Addrs /\ allocCall[u].ret # a /\ allocCall[u].ret # p
      BY <1>0, <1>3, <1>4, <2>2 DEF CallInv, CallOf, TypeInv
    <3>3. allocCall[u].op = "realloc" => allocCall[u].ptr \in Addrs /\ allocCall[u].ptr # a /\ allocCall[u].ptr # p
      <4>1. allocCall[u].op = "realloc" => u \in Moving(allocCall[u].ptr)
        BY DEF Moving
      <4> QED BY <1>0, <1>9, <1>10, <4>1 DEF CallInv, CallOf
    <3> QED BY <1>5, <1>11, <3>1, <3>2, <3>3 DEF Sized
  <2> QED BY <2>1, <2>2
<1>13. ASSUME NEW i \in 1..Len(th_malloc_sizes') PROVE \E e : e = th_malloc_sizes'[i] /\ Right(e)'
  <2>0. th_malloc_sizes' = th_malloc_sizes
    BY <1>2
  <2>1. PICK e \in Entries : e = th_malloc_sizes[i]
    BY <1>0, <2>0 DEF TypeInv
  <2>2. Right(e) /\ (a # p => e.data # a) /\ e.data \in Addrs \cup {Null}
    BY <1>7, <1>10, <2>0, <2>1 DEF ISizes, AllRight, Entries
  <2>3. Right(e)'
    <3>1. CASE e.data = p
      BY <1>3, <1>11, <3>1 DEF Right
    <3>2. CASE e.data # p
      <4>1. e.data # a /\ Moving(e.data)' = Moving(e.data)
        BY <1>11, <2>2, <3>2
      <4>2. e.data # Null => heap'[e.data] = heap[e.data]
        BY <1>5, <2>2, <3>2, <4>1
      <4> QED BY <2>2, <4>1, <4>2 DEF Right
    <3> QED BY <3>1, <3>2
  <2> QED BY <2>0, <2>1, <2>3
<1> QED BY <1>12, <1>13, RightAfter

\* The new block's entry has its size.
LEMMA SizeOfAlloc ==
  ASSUME IInv, IInv', ISizes, NEW t \in Threads, Account(t), AccountAlloc(t)
  PROVE  ISizes'
<1>0. TypeInv /\ CallInv /\ OwnInv
  BY DEF IInv
<1>1. /\ UNCHANGED <<heap, own, contexts, reused>>
      /\ allocCall[t].op = "alloc" /\ allocCall' = [allocCall EXCEPT ![t] = NoAlloc]
      /\ th_malloc_sizes' = <<Entry(allocCall[t].ret, allocCall[t].size)>> \o th_malloc_sizes
  BY DEF Account, AccountAlloc
<1>2. /\ allocCall'[t] = NoAlloc /\ \A u \in Threads : u # t => allocCall'[u] = allocCall[u]
      /\ allocCall[t].ret \in Addrs
      /\ \A x \in Addrs : Moving(x)' = Moving(x)
  BY <1>1, ReturnKeeps
<1> SUFFICES ASSUME ~reused'
             PROVE  /\ \A u \in Threads : Sized(u)'
                    /\ AllRight'
  BY DEF ISizes
<1>3. ~reused /\ \A u \in Threads : Sized(u)
  BY <1>1 DEF ISizes
<1>4. ASSUME NEW u \in Threads PROVE Sized(u)'
  <2>1. CASE u = t
    BY <1>2, <2>1 DEF Sized, NoAlloc
  <2>2. CASE u # t
    <3>1. Sized(u) /\ allocCall'[u] = allocCall[u]
      BY <1>2, <1>3, <2>2
    <3>2. allocCall[u].op = "realloc" => allocCall[u].ptr \in Addrs
      BY <1>0 DEF CallInv, CallOf
    <3> QED BY <1>1, <1>2, <3>1, <3>2 DEF Sized
  <2> QED BY <2>1, <2>2
<1>5. PICK e \in Entries : e = Entry(allocCall[t].ret, allocCall[t].size) /\ e.data = allocCall[t].ret /\ e.info = allocCall[t].size
  <2>1. allocCall[t].ret \in Addrs \cup {Null} /\ allocCall[t].size \in 0..MaxSize
    BY <1>0 DEF TypeInv
  <2>2. PICK a, z : a = allocCall[t].ret /\ z = allocCall[t].size
    OBVIOUS
  <2>3. [data |-> a, info |-> z] \in Entries
    BY <2>1, <2>2 DEF Entries
  <2> QED BY <2>2, <2>3 DEF Entry
<1>6. Right(e)'
  <2>1. heap[allocCall[t].ret] = allocCall[t].size /\ allocCall[t].ret # Null
    BY <1>1, <1>2, <1>3, HeapAssumption DEF Sized
  <2> QED BY <1>1, <1>5, <2>1 DEF Right
<1>7. PICK s \in Seq(Entries) : s = th_malloc_sizes
  BY <1>0 DEF TypeInv
<1>8. th_malloc_sizes' = <<e>> \o s
  BY <1>1, <1>5, <1>7
<1>9. ASSUME NEW i \in 1..Len(th_malloc_sizes') PROVE \E d : d = th_malloc_sizes'[i] /\ Right(d)'
  <2>1. CASE i = 1
    BY <1>6, <1>8, <2>1
  <2>2. CASE i # 1
    <3>1. i - 1 \in 1..Len(s) /\ th_malloc_sizes'[i] = s[i - 1]
      BY <1>8, <2>2
    <3>2. PICK d \in Entries : d = s[i - 1]
      BY <3>1
    <3>3. Right(d) /\ d.data \in Addrs \cup {Null}
      BY <1>3, <1>7, <3>1, <3>2 DEF ISizes, AllRight, Entries
    <3>4. Right(d)'
      <4>1. d.data # Null => Moving(d.data)' = Moving(d.data)
        BY <1>2, <3>3
      <4>2. heap' = heap
        BY <1>1
      <4> QED BY <3>3, <4>1, <4>2 DEF Right
    <3> QED BY <3>1, <3>2, <3>4
  <2> QED BY <2>1, <2>2
<1> QED BY <1>4, <1>9, RightAfter

\* The entry of the old block becomes that of the new one, of its size; another
\* entry with the old address is none of a block.
LEMMA SizeOfRealloc ==
  ASSUME IInv, IInv', ISizes, NEW t \in Threads, Account(t), AccountRealloc(t)
  PROVE  ISizes'
<1>0. TypeInv /\ CallInv /\ OwnInv
  BY DEF IInv
<1>1. /\ UNCHANGED <<heap, own, contexts, reused>>
      /\ allocCall[t].op = "realloc" /\ allocCall' = [allocCall EXCEPT ![t] = NoAlloc]
  BY DEF Account, AccountRealloc
<1>2. /\ allocCall'[t] = NoAlloc /\ \A u \in Threads : u # t => allocCall'[u] = allocCall[u]
      /\ allocCall[t].ret \in Addrs
      /\ \A x \in Addrs : Moving(x)' = IF x = allocCall[t].ptr THEN Moving(x) \ {t} ELSE Moving(x)
      /\ \A x \in Addrs : x = allocCall[t].ret => ~Settled(x) /\ Settled(x)'
  BY <1>1, ReturnKeeps
<1>3. allocCall[t].ptr \in Addrs /\ t \in Moving(allocCall[t].ptr)
  BY <1>0, <1>1 DEF CallInv, CallOf, Moving
<1>4. Listed(allocCall[t].ptr)
  BY <1>3, Unlisted
<1>5. PICK i \in 1..Len(th_malloc_sizes) : i = Dsearch(allocCall[t].ptr)
  <2>1. Dsearch(allocCall[t].ptr) \in Positions(th_malloc_sizes, allocCall[t].ptr)
    BY <1>0, <1>4, DsearchFinds
  <2> QED BY <2>1 DEF Positions
<1>6. PICK e \in Entries : e = Entry(allocCall[t].ret, allocCall[t].size) /\ e.data = allocCall[t].ret /\ e.info = allocCall[t].size
  <2>1. allocCall[t].ret \in Addrs \cup {Null} /\ allocCall[t].size \in 0..MaxSize
    BY <1>0 DEF TypeInv
  <2>2. PICK a, z : a = allocCall[t].ret /\ z = allocCall[t].size
    OBVIOUS
  <2>3. [data |-> a, info |-> z] \in Entries
    BY <2>1, <2>2 DEF Entries
  <2> QED BY <2>2, <2>3 DEF Entry
<1>7. PICK s \in Seq(Entries) : s = th_malloc_sizes
  BY <1>0 DEF TypeInv
<1>8. th_malloc_sizes' = [s EXCEPT ![i] = e] /\ Len(th_malloc_sizes') = Len(s)
      /\ th_malloc_sizes'[i] = e /\ \A j \in 1..Len(s) : j # i => th_malloc_sizes'[j] = s[j]
  <2>1. th_malloc_sizes' = [s EXCEPT ![i] = e]
    BY <1>4, <1>5, <1>6, <1>7 DEF AccountRealloc
  <2> QED BY <1>5, <1>7, <2>1
<1> SUFFICES ASSUME ~reused'
             PROVE  /\ \A u \in Threads : Sized(u)'
                    /\ AllRight'
  BY DEF ISizes
<1>9. ~reused /\ \A u \in Threads : Sized(u)
  BY <1>1 DEF ISizes
<1>10. Moving(allocCall[t].ptr) = {t} /\ (allocCall[t].ret # allocCall[t].ptr => heap[allocCall[t].ptr] = NoBlock)
  BY <1>1, <1>9 DEF Sized
<1>11. ASSUME NEW u \in Threads PROVE Sized(u)'
  <2>1. CASE u = t
    BY <1>2, <2>1 DEF Sized, NoAlloc
  <2>2. CASE u # t
    <3>1. Sized(u) /\ allocCall'[u] = allocCall[u]
      BY <1>2, <1>9, <2>2
    <3>2. allocCall[u].op = "realloc" => allocCall[u].ptr \in Addrs /\ allocCall[u].ptr # allocCall[t].ptr
      <4>1. allocCall[u].op = "realloc" => u \in Moving(allocCall[u].ptr)
        BY DEF Moving
      <4> QED BY <1>0, <1>10, <2>2, <4>1 DEF CallInv, CallOf
    <3> QED BY <1>1, <1>2, <3>1, <3>2 DEF Sized
  <2> QED BY <2>1, <2>2
<1>12. Right(e)'
  <2>1. heap[allocCall[t].ret] = allocCall[t].size /\ allocCall[t].ret # Null
    BY <1>1, <1>2, <1>9, HeapAssumption DEF Sized
  <2> QED BY <1>1, <1>6, <2>1 DEF Right
<1>13. ASSUME NEW j \in 1..Len(s), j # i, s[j].data = allocCall[t].ptr PROVE FALSE
  <2>0. PICK x : x = allocCall[t].ptr
    OBVIOUS
  <2> DEFINE P == Positions(th_malloc_sizes', x)
  <2>1. x \in Addrs /\ Moving(x)' = {}
    BY <1>2, <1>3, <1>10, <2>0
  <2>2. j \in P
    BY <1>8, <1>13, <2>0 DEF Positions
  <2>3. IsFiniteSet(P) /\ Cardinality(P) \in Nat /\ Cardinality(P) <= 1
        /\ (x # allocCall[t].ret => Cardinality(P) = 0)
    <3>1. th_malloc_sizes' \in Seq(Entries)
      BY DEF IInv, TypeInv
    <3>2. Cardinality(P) = Cardinality(Moving(x)') + (IF Settled(x)' THEN 1 ELSE 0)
      BY <2>1 DEF IInv, ListInv, Count
    <3>3. Cardinality({}) = 0
      BY FS_EmptySet
    <3>4. x # allocCall[t].ret => ~Settled(x)'
      <4>1. x # allocCall[t].ret => heap[x] = NoBlock
        BY <1>10, <2>0
      <4> QED BY <1>1, <4>1 DEF Settled
    <3>5. IsFiniteSet(P)
      BY <3>1, PositionsFinite
    <3>6. Cardinality(Moving(x)') = 0
      BY <2>1, <3>3
    <3>7. Cardinality(P) = 1 \/ Cardinality(P) = 0
      BY <3>2, <3>6
    <3>8. x # allocCall[t].ret => Cardinality(P) = 0
      BY <3>2, <3>4, <3>6
    <3> QED BY <3>5, <3>7, <3>8
  <2>4. x = allocCall[t].ret => i \in P
    BY <1>5, <1>6, <1>7, <1>8, <2>0 DEF Positions
  <2> HIDE DEF P
  <2>5. Cardinality(P \ {j}) = Cardinality(P) - 1 /\ IsFiniteSet(P \ {j}) /\ Cardinality(P \ {j}) \in Nat
    BY <2>2, <2>3, FS_RemoveElement, FS_CardinalityType
  <2>6. P \ {j} = {} /\ Cardinality(P) # 0
    <3>1. Cardinality(P \ {j}) = 0 /\ Cardinality(P) # 0
      BY <2>3, <2>5
    <3> QED BY <2>5, <3>1, FS_EmptySet
  <2> QED BY <1>13, <2>3, <2>4, <2>6
<1>14. ASSUME NEW j \in 1..Len(s) PROVE \E d : d = th_malloc_sizes'[j] /\ Right(d)'
  <2>1. CASE j = i
    BY <1>8, <1>12, <2>1
  <2>2. CASE j # i
    <3>1. PICK d \in Entries : d = s[j] /\ d = th_malloc_sizes'[j]
      BY <1>8, <2>2
    <3>2. Right(d) /\ d.data \in Addrs \cup {Null} /\ d.data # allocCall[t].ptr
      BY <1>7, <1>9, <1>13, <2>2, <3>1 DEF ISizes, AllRight, Entries
    <3>3. Right(d)'
      <4>1. d.data # Null => Moving(d.data)' = Moving(d.data)
        BY <1>2, <3>2
      <4>2. heap' = heap
        BY <1>1
      <4> QED BY <3>2, <4>1, <4>2 DEF Right
    <3> QED BY <3>1, <3>3
  <2> QED BY <2>1, <2>2
<1> QED BY <1>8, <1>11, <1>14, RightAfter

\* The other entries keep their sizes when one leaves.
LEMMA SizeOfFreed ==
  ASSUME IInv, ISizes, NEW t \in Threads, Account(t), AccountFree(t)
  PROVE  ISizes'
<1>0. TypeInv /\ CallInv /\ OwnInv
  BY DEF IInv
<1>1. GoTo(t, "libc") /\ UNCHANGED <<heap, reused>>
  BY DEF Account, AccountFree
<1>2. \A u \in Threads : /\ allocCall'[u].op = allocCall[u].op /\ allocCall'[u].ptr = allocCall[u].ptr
                         /\ allocCall'[u].ret = allocCall[u].ret /\ allocCall'[u].size = allocCall[u].size
  BY <1>0, <1>1, GoesTo
<1> SUFFICES ASSUME ~reused'
             PROVE  /\ \A u \in Threads : Sized(u)'
                    /\ AllRight'
  BY DEF ISizes
<1>3. ~reused /\ (\A u \in Threads : Sized(u)') /\ \A e : Right(e) => Right(e)'
  BY <1>1, <1>2, SameSizes
<1>4. PICK s \in Seq(Entries) : s = th_malloc_sizes
  BY <1>0 DEF TypeInv
<1>5. ASSUME NEW i \in 1..Len(th_malloc_sizes')
      PROVE  \E j \in 1..Len(s) : th_malloc_sizes'[i] = s[j]
  <2>1. CASE ~Listed(allocCall[t].ptr)
    BY <1>4, <2>1 DEF AccountFree, stats
  <2>2. CASE Listed(allocCall[t].ptr)
    <3>1. Dsearch(allocCall[t].ptr) \in Positions(th_malloc_sizes, allocCall[t].ptr)
      BY <1>0, <2>2, DsearchFinds
    <3>2. PICK k \in 1..Len(s) : k = Dsearch(allocCall[t].ptr)
      BY <1>4, <3>1 DEF Positions
    <3>3. th_malloc_sizes' = RemoveAt(s, k)
      BY <1>4, <2>2, <3>2 DEF AccountFree
    <3>4. /\ Len(th_malloc_sizes') = Len(s) - 1
          /\ \A j \in 1..(k - 1) : th_malloc_sizes'[j] = s[j]
          /\ \A j \in k..(Len(s) - 1) : th_malloc_sizes'[j] = s[j + 1]
      BY <3>3, RemoveAtIs
    <3>5. CASE i < k
      <4>1. i \in 1..(k - 1) /\ i \in 1..Len(s)
        BY <3>4, <3>5
      <4> QED BY <3>4, <4>1
    <3>6. CASE ~(i < k)
      <4>1. i \in k..(Len(s) - 1) /\ i + 1 \in 1..Len(s)
        BY <3>4, <3>6
      <4> QED BY <3>4, <4>1
    <3> QED BY <3>5, <3>6
  <2> QED BY <2>1, <2>2
<1>6. ASSUME NEW i \in 1..Len(th_malloc_sizes') PROVE \E d : d = th_malloc_sizes'[i] /\ Right(d)'
  <2>1. PICK j \in 1..Len(s) : th_malloc_sizes'[i] = s[j]
    BY <1>5
  <2>2. PICK e \in Entries : e = s[j]
    OBVIOUS
  <2>3. Right(e)
    BY <1>3, <1>4, <2>2 DEF ISizes, AllRight
  <2>4. Right(e)'
    BY <1>3, <2>3
  <2> QED BY <2>1, <2>2, <2>4
<1> QED BY <1>3, <1>6, RightAfter

\* A block goes back to the C library after its entry has gone.
LEMMA SizeOfGone ==
  ASSUME IInv, ISizes, NEW t \in Threads, LibcFree(t)
  PROVE  ISizes'
<1>0. TypeInv /\ CallInv /\ OwnInv
  BY DEF IInv
<1>1. /\ allocCall[t].step = "libc" /\ allocCall' = [allocCall EXCEPT ![t] = NoAlloc]
      /\ heap' = IF allocCall[t].ptr = Null THEN heap ELSE [heap EXCEPT ![allocCall[t].ptr] = NoBlock]
      /\ UNCHANGED <<own, th_malloc_sizes, reused>>
  BY DEF LibcFree, stats
<1>2. allocCall'[t] = NoAlloc /\ \A u \in Threads : u # t => allocCall'[u] = allocCall[u]
  BY <1>0, <1>1 DEF TypeInv
<1>3. allocCall[t].op = "free" /\ allocCall[t].op # "none" /\ allocCall'[t].op = "none"
  BY <1>0, <1>1, <1>2 DEF NoAlloc, CallInv, CallOf
<1>4. \A x \in Addrs : heap'[x] = IF x = allocCall[t].ptr THEN NoBlock ELSE heap[x]
  BY <1>0, <1>1, HeapAssumption DEF TypeInv
<1>5. \A x : Moving(x)' = Moving(x)
  BY <1>2, <1>3 DEF Moving
<1> SUFFICES ASSUME ~reused'
             PROVE  /\ \A u \in Threads : Sized(u)'
                    /\ AllRight'
  BY DEF ISizes
<1>6. ~reused /\ \A u \in Threads : Sized(u)
  BY <1>1 DEF ISizes
<1>7. ASSUME NEW u \in Threads PROVE Sized(u)'
  <2>1. CASE u = t
    BY <1>3, <2>1 DEF Sized
  <2>2. CASE u # t
    <3>1. Sized(u) /\ allocCall'[u] = allocCall[u]
      BY <1>2, <1>6, <2>2
    <3>2. allocCall[u].op \in {"alloc", "realloc"} =>
            allocCall[u].ret \in Addrs /\ allocCall[u].ret # allocCall[t].ptr
      <4>1. allocCall[u].op \in {"alloc", "realloc"} => allocCall[u].ret \in own[u] /\ allocCall[u].ret \in Addrs
        BY <1>0 DEF CallInv, CallOf, TypeInv
      <4> QED BY <1>0, <1>3, <4>1, Held
    <3>3. allocCall[u].op = "realloc" => allocCall[u].ptr \in Addrs
      BY <1>0 DEF CallInv, CallOf
    <3> QED BY <1>4, <1>5, <3>1, <3>2, <3>3 DEF Sized
  <2> QED BY <2>1, <2>2
<1>8. ASSUME NEW i \in 1..Len(th_malloc_sizes') PROVE \E e : e = th_malloc_sizes'[i] /\ Right(e)'
  <2>0. th_malloc_sizes' = th_malloc_sizes
    BY <1>1
  <2>1. PICK e \in Entries : e = th_malloc_sizes[i]
    BY <1>0, <2>0 DEF TypeInv
  <2>2. Right(e) /\ e.data \in Addrs \cup {Null}
    BY <1>6, <2>0, <2>1 DEF ISizes, AllRight, Entries
  <2>3. e.data # Null /\ e.data = allocCall[t].ptr => Moving(e.data) # {}
    <3> SUFFICES ASSUME e.data \in Addrs, e.data = allocCall[t].ptr PROVE Moving(e.data) # {}
      BY <2>2
    <3>1. Gone(e.data)
      BY <1>1 DEF Gone
    <3>2. Count(th_malloc_sizes, e.data) = Cardinality(Moving(e.data)) + 0
      BY <3>1, Counted DEF IInv, Settled
    <3>3. i \in Positions(th_malloc_sizes, e.data)
      BY <2>0, <2>1 DEF Positions
    <3>4. Count(th_malloc_sizes, e.data) # 0
      BY <1>0, <3>3, PositionsFinite DEF TypeInv
    <3>5. Moving(e.data) = {} => Cardinality(Moving(e.data)) = 0
      BY FS_EmptySet
    <3> QED BY <3>2, <3>4, <3>5
  <2>4. Right(e)'
    BY <1>4, <1>5, <2>2, <2>3 DEF Right
  <2> QED BY <2>0, <2>1, <2>4
<1> QED BY <1>7, <1>8, RightAfter

\* Every step keeps the sizes right.
LEMMA NextSizes ==
  ASSUME IInv, IInv', ISizes, [HeapNext]_heapVars
  PROVE  ISizes'
<1>1. CASE UNCHANGED <<heap, allocCall, th_malloc_sizes, reused>>
  BY <1>1 DEF ISizes, AllRight, Right, Sized, Moving
<1>2. ASSUME NEW t \in Threads, NEW step, GoTo(t, step), UNCHANGED <<heap, reused>>,
             \/ th_malloc_sizes' = th_malloc_sizes
             \/ th_malloc_sizes = <<>> /\ th_malloc_sizes' = <<Entry(Null, 0)>> \o th_malloc_sizes
      PROVE  ISizes'
  <2> SUFFICES ASSUME ~reused' PROVE (\A u \in Threads : Sized(u)') /\ AllRight'
    BY DEF ISizes
  <2>1. \A u \in Threads : /\ allocCall'[u].op = allocCall[u].op /\ allocCall'[u].ptr = allocCall[u].ptr
                           /\ allocCall'[u].ret = allocCall[u].ret /\ allocCall'[u].size = allocCall[u].size
    BY <1>2, GoesTo DEF IInv
  <2>2. ~reused /\ (\A u \in Threads : Sized(u)') /\ \A e : Right(e) => Right(e)'
    BY <1>2, <2>1, SameSizes
  <2>3. CASE th_malloc_sizes' = th_malloc_sizes
    <3>1. ASSUME NEW i \in 1..Len(th_malloc_sizes') PROVE \E e : e = th_malloc_sizes'[i] /\ Right(e)'
      <4>1. PICK e : e = th_malloc_sizes[i]
        OBVIOUS
      <4>2. Right(e)
        BY <2>2, <2>3, <4>1 DEF ISizes, AllRight
      <4> QED BY <2>2, <2>3, <4>1, <4>2
    <3> QED BY <2>2, <3>1, RightAfter
  <2>4. CASE th_malloc_sizes = <<>> /\ th_malloc_sizes' = <<Entry(Null, 0)>> \o th_malloc_sizes
    <3>1. PICK e : e = Entry(Null, 0)
      OBVIOUS
    <3>2. Len(th_malloc_sizes') = 1 /\ th_malloc_sizes'[1] = e
      BY <2>4, <3>1
    <3>3. Right(e)'
      BY <3>1 DEF Right, Entry
    <3>4. \A i \in 1..Len(th_malloc_sizes') : i = 1
      BY <3>2
    <3> QED BY <2>2, <3>2, <3>3, <3>4, RightAfter
  <2> QED BY <1>2, <2>3, <2>4
<1>3. ASSUME NEW t \in Threads, StartFree(t) PROVE ISizes'
  <2>0. Ready(t)
    BY <1>3 DEF StartFree
  <2>1. allocCall[t].op = "none" /\ allocCall[t].op # "realloc"
    BY <2>0 DEF Ready, NoAlloc
  <2>2. /\ UNCHANGED <<heap, reused, th_malloc_sizes>>
        /\ allocCall'[t].op = "free" /\ \A u \in Threads : u # t => allocCall'[u] = allocCall[u]
    <3>1. UNCHANGED <<heap, reused, th_malloc_sizes>>
      BY <1>3 DEF StartFree, stats
    <3>2. \E r : r.op = "free" /\ allocCall' = [allocCall EXCEPT ![t] = r]
      BY <1>3 DEF StartFree, NoAlloc
    <3>3. allocCall \in [Threads -> Calls]
      BY DEF IInv, TypeInv, Calls
    <3> QED BY <3>1, <3>2, <3>3
  <2>3. \A x : Moving(x)' = Moving(x)
    BY <2>1, <2>2 DEF Moving
  <2> SUFFICES ASSUME ~reused' PROVE (\A u \in Threads : Sized(u)') /\ AllRight'
    BY DEF ISizes
  <2>4. ~reused /\ AllRight /\ \A u \in Threads : Sized(u)
    BY <2>2 DEF ISizes
  <2>5. ASSUME NEW u \in Threads PROVE Sized(u)'
    BY <2>2, <2>3, <2>4 DEF Sized
  <2>6. AllRight'
    BY <2>2, <2>3, <2>4 DEF AllRight, Right
  <2> QED BY <2>5, <2>6
<1>4. ASSUME NEW t \in Threads, CheckInit(t) \/ InitMutex(t) \/ InitStats(t) \/ Lock(t) PROVE ISizes'
  <2>1. InitStats(t) => th_malloc_sizes = <<>>
    BY DEF InitStats, IInv, MutexInv
  <2> QED BY <1>2, <1>4, <2>1 DEF CheckInit, InitMutex, InitStats, Lock, stats
<1>5. ASSUME NEW t \in Threads, Account(t) PROVE ISizes'
  BY <1>5, SizeOfAlloc, SizeOfRealloc, SizeOfFreed DEF Account
<1>6. ASSUME NEW t \in Threads, Step(t) PROVE ISizes'
  BY <1>3, <1>4, <1>5, <1>6, SizeOfNew, SizeOfMoved, SizeOfGone DEF Step
<1>7. CASE StartContexts \/ JoinContexts \/ HeapEnded \/ UNCHANGED heapVars
  BY <1>1, <1>7 DEF StartContexts, JoinContexts, HeapEnded, heapVars, stats
<1> QED BY <1>6, <1>7 DEF HeapNext

\* A list names no address twice, and the sizes that h gives.
OncePerAddress(s) == \A i, j \in 1..Len(s) : i # j => s[i].data # s[j].data
SizesOf(s, h, S) ==
  \A i \in 1..Len(s) : IF s[i].data = Null THEN s[i].info = 0
                       ELSE s[i].data \in S /\ s[i].info = h[s[i].data]

\* the total of the list s is the sum F over its addresses
SumsItsAddresses(s, S, F) == Sums(s)[Len(s)] = F[{x \in S : \E i \in 1..Len(s) : s[i].data = x}]

\* A list with an entry for each block, of its size, sums to the blocks.
LEMMA ListSum ==
  ASSUME NEW S, IsFiniteSet(S), NEW h \in [S -> Nat], NEW F, SumsOver(h, S, F),
         NEW s \in Seq(Entries),
         OncePerAddress(s), SizesOf(s, h, S), Null \notin S
  PROVE  SumsItsAddresses(s, S, F)
<1> DEFINE D(n) == {x \in S : \E i \in 1..n : s[i].data = x}
           N == {n \in Nat : n <= Len(s) => Sums(s)[n] = F[D(n)]}
<1>0. /\ Len(s) \in Nat /\ Sums(s)[0] = 0
      /\ \A n \in Nat : n < Len(s) => Sums(s)[n + 1] = Sums(s)[n] + s[n + 1].info
  BY SumsAre
<1>1. 0 \in N
  <2>1. D(0) = {}
    OBVIOUS
  <2> HIDE DEF D
  <2> QED BY <1>0, <2>1 DEF SumsOver
<1>2. ASSUME NEW n \in N PROVE n + 1 \in N
  <2> SUFFICES ASSUME n + 1 <= Len(s) PROVE Sums(s)[n + 1] = F[D(n + 1)]
    OBVIOUS
  <2>1. n \in Nat /\ n < Len(s) /\ n <= Len(s) /\ n + 1 \in 1..Len(s)
        /\ \A k : k \in 1..(n + 1) <=> (k \in 1..n \/ k = n + 1)
        /\ \A i \in 1..n : i \in 1..Len(s) /\ i # n + 1
    BY <1>0
  <2>2. Sums(s)[n + 1] = F[D(n)] + s[n + 1].info
    BY <1>0, <2>1
  <2>3. PICK e : e = s[n + 1]
    OBVIOUS
  <2>4. D(n) \in SUBSET S /\ D(n + 1) \in SUBSET S
    OBVIOUS
  <2>5. F[D(n)] \in Nat
    <3> HIDE DEF D
    <3> QED BY <2>4 DEF SumsOver
  <2>6. CASE e.data = Null
    <3>1. e.info = 0
      BY <2>1, <2>3, <2>6 DEF SizesOf
    <3>2. D(n + 1) = D(n)
      BY <2>1, <2>3, <2>6
    <3> HIDE DEF D
    <3> QED BY <2>2, <2>3, <2>5, <3>1, <3>2
  <2>7. CASE e.data # Null
    <3>1. e.data \in S /\ e.info = h[e.data]
      BY <2>1, <2>3, <2>7 DEF SizesOf
    <3>2. e.data \in D(n + 1) /\ e.data \notin D(n)
      BY <2>1, <2>3, <3>1 DEF OncePerAddress
    <3>3. D(n + 1) \ {e.data} = D(n)
      BY <2>1, <2>3, <3>2
    <3> HIDE DEF D
    <3>4. F[D(n + 1)] = h[e.data] + F[D(n + 1) \ {e.data}]
      BY <2>4, <3>2, SumTakesOut
    <3>5. h[e.data] \in Nat
      BY <3>1
    <3>6. PICK b \in Nat, d \in Nat : b = h[e.data] /\ d = F[D(n)]
      BY <2>5, <3>5
    <3>7. Sums(s)[n + 1] = d + b
      BY <2>2, <2>3, <3>1, <3>6
    <3>8. F[D(n + 1)] = b + d
      BY <3>3, <3>4, <3>6
    <3>9. b + d = d + b
      OBVIOUS
    <3> QED BY <3>7, <3>8, <3>9
  <2> QED BY <2>6, <2>7
<1>3. N \in SUBSET Nat
  OBVIOUS
<1> HIDE DEF N
<1>4. N = Nat
  BY <1>1, <1>2, <1>3, Induction
<1>5. Sums(s)[Len(s)] = F[D(Len(s))]
  <2> HIDE DEF D
  <2>1. Len(s) \in N /\ Len(s) <= Len(s)
    BY <1>0, <1>4
  <2> QED BY <2>1 DEF N
<1> QED BY <1>5 DEF SumsItsAddresses

\* Between calls th_malloc_total is what the callers asked for, as long as no
\* address was used again that the list still had: for any number of contexts,
\* addresses, blocks and calls.
THEOREM TotalAsked == HeapSpec => []TotalIsAsked
<1>1. IInv /\ ISum /\ ISizes /\ ListIsHeap => TotalIsAsked
  <2> SUFFICES ASSUME IInv, ISum, ISizes, ListIsHeap, BetweenCalls, ~reused
               PROVE  th_malloc_total = MapThenSumSet(LAMBDA a : heap[a], Addrs)
    BY DEF TotalIsAsked
  <2>1. th_malloc_sizes \in Seq(Entries) /\ heap \in [Addrs -> Nat]
    BY HeapAssumption DEF IInv, TypeInv
  <2>2. PICK F : SumsOver(heap, Addrs, F) /\ MapThenSumSet(LAMBDA a : heap[a], Addrs) = F[Addrs]
    BY <2>1, HeapAssumption, SumOverIs
  <2>3. DOMAIN th_malloc_sizes = 1..Len(th_malloc_sizes)
    BY <2>1
  <2>4. OncePerAddress(th_malloc_sizes)
    BY <2>3 DEF ListIsHeap, OncePerAddress
  <2>5. ASSUME NEW i \in 1..Len(th_malloc_sizes)
        PROVE  IF th_malloc_sizes[i].data = Null THEN th_malloc_sizes[i].info = 0
               ELSE th_malloc_sizes[i].data \in Addrs /\ th_malloc_sizes[i].info = heap[th_malloc_sizes[i].data]
    <3>1. PICK e \in Entries : e = th_malloc_sizes[i]
      BY <2>1
    <3>2. Right(e) /\ e.data \in Addrs \cup {Null}
      BY <3>1 DEF ISizes, AllRight, Entries
    <3>3. Moving(e.data) = {}
      BY DEF Moving, BetweenCalls, NoAlloc
    <3> QED BY <3>1, <3>2, <3>3 DEF Right
  <2>10. SizesOf(th_malloc_sizes, heap, Addrs)
    BY <2>5 DEF SizesOf
  <2> DEFINE L == {x \in Addrs : \E i \in 1..Len(th_malloc_sizes) : th_malloc_sizes[i].data = x}
  <2>6. Sums(th_malloc_sizes)[Len(th_malloc_sizes)] = F[L]
    <3>1. Null \notin Addrs /\ IsFiniteSet(Addrs)
      BY HeapAssumption
    <3>2. PICK h \in [Addrs -> Nat] : h = heap
      BY <2>1
    <3>3. PICK s \in Seq(Entries) : s = th_malloc_sizes
      BY <2>1
    <3>4. OncePerAddress(s) /\ SizesOf(s, h, Addrs) /\ SumsOver(h, Addrs, F)
      BY <2>2, <2>4, <2>10, <3>2, <3>3
    <3>5. SumsItsAddresses(s, Addrs, F)
      BY <3>1, <3>4, ListSum
    <3> QED BY <3>3, <3>5 DEF SumsItsAddresses
  <2>7. ASSUME NEW x \in Addrs \ L PROVE heap[x] = 0
    <3>1. Positions(th_malloc_sizes, x) = {}
      BY <2>7 DEF Positions
    <3>2. Count(th_malloc_sizes, x) = 0
      BY <3>1, FS_EmptySet DEF Count
    <3>3. ~Listed(x)
      BY <3>2, DsearchFinds DEF IInv
    <3> QED BY <3>3 DEF ListIsHeap, NoBlock
  <2>8. Addrs \cap L = L /\ Addrs \in SUBSET Addrs
    OBVIOUS
  <2> HIDE DEF L
  <2>9. F[Addrs] = F[Addrs \cap L]
    <3>1. PICK h \in [Addrs -> Nat] : h = heap
      BY <2>1
    <3>2. ZeroOutside(h, Addrs, L)
      BY <2>7, <3>1 DEF ZeroOutside
    <3>3. SumsOver(h, Addrs, F)
      BY <2>2, <3>1
    <3>4. \A U \in SUBSET Addrs : F[U] = F[U \cap L]
      BY <3>2, <3>3, HeapAssumption, SumLeavesOut
    <3> QED BY <2>8, <3>4
  <2> QED BY <2>2, <2>6, <2>8, <2>9 DEF ISum, TotalIsSum, SumOfSizes
<1> QED BY HeapInvariant, ListMatchesHeap, InitSum, NextSum, InitSizes, NextSizes, <1>1, PTL DEF HeapSpec

=============================================================================
