-------------------------- MODULE KernelLife_proofs --------------------------
(***************************************************************************)
(* Kernels that follow the discipline of KernelDiscipline cannot hurt each *)
(* other, for any number of contexts and iterations: why the contexts'     *)
(* copies of the pointers in params do no harm.                            *)
(***************************************************************************)
EXTENDS KernelDiscipline, TLAPS

-----------------------------------------------------------------------------
(* The inductive invariant.                                                *)

TypeInv ==
  /\ kernel \in Kernels
  /\ verify \in BOOLEAN
  /\ left \in 0..NumIterations
  /\ phase \in [Actors -> Phases]
  /\ pos \in [Actors -> Nat]
  /\ turn \in [Actors -> 0..NumIterations]
  /\ ptr \in [Actors -> [Fields -> Blocks \cup {Null}]]
  /\ live \subseteq Blocks

\* Each actor calls its own functions; the contexts work while main waits.
PhaseInv ==
  /\ phase[Main] \in MainFunctions \cup {"wait", "end"}
  /\ turn[Main] = 0
  /\ \A c \in Contexts :
       /\ phase[c] \in ContextFunctions \cup {"idle", "exited"}
       /\ phase[c] \in ContextFunctions => phase[Main] = "wait"
       /\ phase[Main] = "define" => phase[c] = "idle"
       /\ phase[Main] \in {"clean", "end"} => phase[c] = "exited"

PosInv ==
  \A a \in Actors :
    IF phase[a] \in DOMAIN Program[kernel]
      THEN pos[a] \in 1..(Len(Program[kernel][phase[a]]) + 1)
      ELSE pos[a] = 1

\* What an actor holds now.
Holds(a) == CASE phase[a] = "wait" -> Kept(kernel)
              [] phase[a] = "end" -> AtEnd(Program[kernel].clean, Kept(kernel))
              [] phase[a] \in {"idle", "exited"} -> {}
              [] OTHER -> HeldAt(kernel, phase[a], pos[a])

Block(a, b) == <<a, turn[a], b[1], b[2]>>

\* The allocated blocks are those that somebody holds, and who holds one has
\* the pointer to it.
HoldInv ==
  /\ \A a \in Actors : \A b \in Holds(a) : ptr[a][b[1]] = Block(a, b) /\ Block(a, b) \in live
  /\ \A l \in live : \E a \in Actors : \E b \in Holds(a) : l = Block(a, b)

\* The fields of an actor's structure that have been set since it was null
\* (params) or copied (a context's).
Changed(a) == CASE phase[a] = "wait" -> Allocated(kernel, "define")
                [] phase[a] \in {"end", "idle", "exited"} -> Fields
                [] OTHER -> Touched(kernel, phase[a], pos[a])

ParamsInv == \A f \in Fields \ Changed(Main) : ptr[Main][f] = Null

CopyInv ==
  \A c \in Contexts :
    \/ phase[c] = "init" /\ pos[c] <= 2
    \/ \A f \in Fields \ Changed(c) : ptr[c][f] = ptr[Main][f]

IInv == TypeInv /\ PhaseInv /\ PosInv /\ HoldInv /\ ParamsInv /\ CopyInv

-----------------------------------------------------------------------------
(* One operation of a function.                                            *)

\* The functions of a kernel.
LEMMA ProgramDomain ==
  ASSUME NEW k \in DOMAIN Program
  PROVE  DOMAIN Program[k] = MainFunctions \cup ContextFunctions
BY DEF Program, Functions, Zip, Parser, Nnet, Cjpeg, MainFunctions, ContextFunctions

\* What an operation does to what is held.
LEMMA HeldStep ==
  ASSUME NEW ops, NEW start, NEW p \in Nat \ {0}
  PROVE  /\ ops[p].do = "new" /\ <<ops[p].f, ops[p].how>> \in Pairs =>
              Held(ops, start, p + 1) = Held(ops, start, p) \cup {<<ops[p].f, ops[p].how>>}
         /\ ops[p].do = "free" =>
              Held(ops, start, p + 1) = {b \in Held(ops, start, p) : b[1] # ops[p].f}
         /\ ops[p].do \notin {"new", "free"} => Held(ops, start, p + 1) = Held(ops, start, p)
<1>1. /\ \A r : r \in 1..((p + 1) - 1) <=> r \in 1..(p - 1) \/ r = p
      /\ \A q \in 1..(p - 1) : \A r : r \in (q + 1)..((p + 1) - 1) <=> r \in (q + 1)..(p - 1) \/ r = p
      /\ \A r : r \notin (p + 1)..((p + 1) - 1)
      /\ p \in 1..((p + 1) - 1)
  OBVIOUS
<1>2. CASE ops[p].do = "new" /\ <<ops[p].f, ops[p].how>> \in Pairs
  <2>1. \A f : ~Frees(ops[p], f)
    BY <1>2 DEF Frees
  <2>2. \A b \in Pairs : News(ops[p], b[1]) /\ ops[p].how = b[2] <=> b = <<ops[p].f, ops[p].how>>
    BY <1>2 DEF News, Pairs
  <2>3. ASSUME NEW b \in Pairs
        PROVE  b \in Held(ops, start, p + 1) <=> b \in Held(ops, start, p) \/ b = <<ops[p].f, ops[p].how>>
    BY <1>1, <2>1, <2>2 DEF Held
  <2>4. Held(ops, start, p + 1) \subseteq Pairs /\ Held(ops, start, p) \subseteq Pairs
    BY DEF Held
  <2> QED  BY <1>2, <2>3, <2>4
<1>3. CASE ops[p].do = "free"
  <2>1. \A f : ~News(ops[p], f) /\ (Frees(ops[p], f) <=> f = ops[p].f)
    BY <1>3 DEF Frees, News
  <2>2. ASSUME NEW b \in Pairs
        PROVE  b \in Held(ops, start, p + 1) <=> b \in Held(ops, start, p) /\ b[1] # ops[p].f
    BY <1>1, <2>1 DEF Held
  <2>3. Held(ops, start, p + 1) \subseteq Pairs /\ Held(ops, start, p) \subseteq Pairs
    BY DEF Held
  <2> QED  BY <1>3, <2>2, <2>3
<1>4. CASE ops[p].do \notin {"new", "free"}
  <2>1. \A f : ~News(ops[p], f) /\ ~Frees(ops[p], f)
    BY <1>4 DEF Frees, News
  <2>2. ASSUME NEW b \in Pairs
        PROVE  b \in Held(ops, start, p + 1) <=> b \in Held(ops, start, p)
    BY <1>1, <2>1 DEF Held
  <2>3. Held(ops, start, p + 1) \subseteq Pairs /\ Held(ops, start, p) \subseteq Pairs
    BY DEF Held
  <2> QED  BY <1>4, <2>2, <2>3
<1> QED  BY <1>2, <1>3, <1>4

\* ... and to what has been allocated.
LEMMA NewStep ==
  ASSUME NEW ops, NEW p \in Nat \ {0}
  PROVE  NewBefore(ops, p + 1) = IF ops[p].do = "new" /\ ops[p].f \in Fields
                                   THEN NewBefore(ops, p) \cup {ops[p].f} ELSE NewBefore(ops, p)
<1>1. \A q : q \in 1..((p + 1) - 1) <=> q \in 1..(p - 1) \/ q = p
  OBVIOUS
<1>2. ASSUME NEW f \in Fields
      PROVE  f \in NewBefore(ops, p + 1) <=> f \in NewBefore(ops, p) \/ (ops[p].do = "new" /\ f = ops[p].f)
  BY <1>1 DEF NewBefore, News
<1>3. NewBefore(ops, p + 1) \subseteq Fields /\ NewBefore(ops, p) \subseteq Fields
  BY DEF NewBefore
<1> QED  BY <1>2, <1>3

\* Where a function begins.
LEMMA AtBegin ==
  ASSUME NEW ops, NEW start \in SUBSET Pairs
  PROVE  Held(ops, start, 1) = start /\ NewBefore(ops, 1) = {}
<1>1. \A q : q \notin 1..(1 - 1)
  OBVIOUS
<1> QED  BY <1>1 DEF Held, NewBefore

LEMMA Starts ==
  ASSUME NEW k, NEW fn
  PROVE  Start(k, fn) \in SUBSET Pairs
<1>1. \A ops, start : AtEnd(ops, start) \subseteq Pairs
  BY DEF AtEnd, Held
<1> QED  BY <1>1 DEF Start, Kept, AfterInit, AfterRun

-----------------------------------------------------------------------------
(* What IInv says of an actor in a function.                               *)

\* A function the actor calls, a place in it, and an operation that respects
\* the discipline.
LEMMA Now ==
  ASSUME IInv, \A k \in Kernels : Disciplined(k), NEW a \in Actors,
         phase[a] \in MainFunctions \cup ContextFunctions
  PROVE  /\ phase[a] \in IF a = Main THEN MainFunctions ELSE ContextFunctions
         /\ a # Main => a \in Contexts
         /\ pos[a] \in 1..(Len(Program[kernel][phase[a]]) + 1) /\ pos[a] \in Nat \ {0}
         /\ Len(Program[kernel][phase[a]]) \in Nat
         /\ Running(a) <=> pos[a] <= Len(Program[kernel][phase[a]])
         /\ Running(a) => Respects(kernel, phase[a], pos[a])
         /\ Holds(a) = HeldAt(kernel, phase[a], pos[a])
         /\ Changed(a) = Touched(kernel, phase[a], pos[a])
<1>1. Disciplined(kernel) /\ kernel \in DOMAIN Program
  BY DEF IInv, TypeInv, Disciplined
<1>2. DOMAIN Program[kernel] = MainFunctions \cup ContextFunctions
  BY <1>1, ProgramDomain
<1>3. /\ phase[a] \in IF a = Main THEN MainFunctions ELSE ContextFunctions
      /\ a # Main => a \in Contexts
  BY DEF IInv, PhaseInv, Actors, MainFunctions, ContextFunctions
<1>4. pos[a] \in 1..(Len(Program[kernel][phase[a]]) + 1)
  BY <1>2 DEF IInv, PosInv
<1>5. Len(Program[kernel][phase[a]]) \in Nat
  BY <1>1 DEF Disciplined
<1>6. Running(a) <=> pos[a] <= Len(Program[kernel][phase[a]])
  BY <1>2 DEF Running
<1>7. Running(a) => Respects(kernel, phase[a], pos[a])
  <2>1. ASSUME Running(a)
        PROVE  pos[a] \in 1..Len(Program[kernel][phase[a]])
    BY <1>4, <1>5, <1>6, <2>1
  <2> QED  BY <1>1, <2>1 DEF Disciplined
<1>8. phase[a] \notin {"wait", "end", "idle", "exited"}
  BY DEF MainFunctions, ContextFunctions
<1>9. Holds(a) = HeldAt(kernel, phase[a], pos[a]) /\ Changed(a) = Touched(kernel, phase[a], pos[a])
  BY <1>8 DEF Holds, Changed
<1> QED  BY <1>3, <1>4, <1>5, <1>6, <1>7, <1>9

\* Who has an operation to do is in a function.
LEMMA InFunction ==
  ASSUME IInv, \A k \in Kernels : Disciplined(k), NEW a \in Actors, Running(a)
  PROVE  phase[a] \in MainFunctions \cup ContextFunctions
BY ProgramDomain DEF Running, IInv, TypeInv, Disciplined

\* An operation: what the actor holds and has set afterwards.
LEMMA Operation ==
  ASSUME IInv, \A k \in Kernels : Disciplined(k), NEW a \in Actors, Running(a),
         Advance(a), UNCHANGED <<kernel, phase>>
  PROVE  /\ Op(a).do = "new" => /\ <<Op(a).f, Op(a).how>> \in Pairs
                                /\ Holds(a)' = Holds(a) \cup {<<Op(a).f, Op(a).how>>}
                                /\ Changed(a)' = Changed(a) \cup {Op(a).f}
         /\ Op(a).do = "free" => /\ Holds(a)' = {b \in Holds(a) : b[1] # Op(a).f}
                                 /\ Changed(a)' = Changed(a)
         /\ Op(a).do \notin {"new", "free"} => /\ Holds(a)' = Holds(a)
                                              /\ Changed(a)' = Changed(a)
         /\ pos'[a] = pos[a] + 1 /\ pos[a] \in Nat \ {0}
         /\ pos'[a] \in 1..(Len(Program[kernel][phase[a]]) + 1)
         /\ \A u \in Actors : u # a => /\ Holds(u)' = Holds(u)
                                       /\ Changed(u)' = Changed(u)
                                       /\ pos'[u] = pos[u]
<1> DEFINE fn  == phase[a]
           p   == pos[a]
           ops == Program[kernel][fn]
<1>1. fn \in MainFunctions \cup ContextFunctions
  BY InFunction
<1>2. /\ p \in 1..Len(ops) /\ p \in Nat \ {0} /\ Len(ops) \in Nat
      /\ Respects(kernel, fn, p)
      /\ Holds(a) = HeldAt(kernel, fn, p) /\ Changed(a) = Touched(kernel, fn, p)
  BY <1>1, Now
<1>3. /\ pos' = [pos EXCEPT ![a] = p + 1] /\ pos \in [Actors -> Nat]
      /\ phase' = phase /\ kernel' = kernel
  BY DEF Advance, IInv, TypeInv
<1>4. pos'[a] = p + 1 /\ \A u \in Actors : u # a => pos'[u] = pos[u]
  BY <1>3
<1>5. fn \notin {"wait", "end", "idle", "exited"}
  BY <1>1 DEF MainFunctions, ContextFunctions
<1>6. Holds(a)' = HeldAt(kernel, fn, p + 1) /\ Changed(a)' = Touched(kernel, fn, p + 1)
  BY <1>3, <1>4, <1>5 DEF Holds, Changed
<1>7. \A u \in Actors : u # a => Holds(u)' = Holds(u) /\ Changed(u)' = Changed(u)
  BY <1>3, <1>4 DEF Holds, Changed
<1>8. Op(a) = ops[p]
  BY DEF Op
<1>9. Op(a).do = "new" => <<Op(a).f, Op(a).how>> \in Pairs /\ Op(a).f \in Fields
  BY <1>2, <1>8 DEF Respects, Pairs
<1>10. /\ Op(a).do = "new" => HeldAt(kernel, fn, p + 1) = HeldAt(kernel, fn, p) \cup {<<Op(a).f, Op(a).how>>}
       /\ Op(a).do = "free" => HeldAt(kernel, fn, p + 1) = {b \in HeldAt(kernel, fn, p) : b[1] # Op(a).f}
       /\ Op(a).do \notin {"new", "free"} => HeldAt(kernel, fn, p + 1) = HeldAt(kernel, fn, p)
  BY <1>2, <1>8, <1>9, HeldStep DEF HeldAt
<1>11. /\ Op(a).do = "new" => Touched(kernel, fn, p + 1) = Touched(kernel, fn, p) \cup {Op(a).f}
       /\ Op(a).do # "new" => Touched(kernel, fn, p + 1) = Touched(kernel, fn, p)
  BY <1>2, <1>8, <1>9, NewStep DEF Touched
<1>12. p + 1 \in 1..(Len(ops) + 1)
  BY <1>2
<1> HIDE DEF fn, p, ops
<1>13. Op(a).do = "free" => Op(a).do # "new"
  OBVIOUS
<1>14. Op(a).do \notin {"new", "free"} => Op(a).do # "new"
  OBVIOUS
<1> QED
  BY <1>2, <1>4, <1>6, <1>7, <1>9, <1>10, <1>11, <1>12, <1>13, <1>14 DEF fn, p, ops

-----------------------------------------------------------------------------
(* The pointers an operation works through.                                *)

\* A pointer nobody set is null.
LEMMA NullPointer ==
  ASSUME IInv, \A k \in Kernels : Disciplined(k), NEW a \in Actors, Running(a),
         NeverSet(kernel, phase[a], pos[a], Op(a).f), ~(phase[a] = "init" /\ pos[a] <= 2)
  PROVE  ptr[a][Op(a).f] = Null
<1>1. phase[a] \in MainFunctions \cup ContextFunctions
  BY InFunction
<1>2. PICK f \in Fields : f = Op(a).f
  BY DEF NeverSet
<1>3. f \notin Changed(a)
  BY <1>1, <1>2, Now DEF NeverSet
<1>4. CASE a = Main
  BY <1>2, <1>3, <1>4 DEF IInv, ParamsInv
<1>5. CASE a # Main
  <2>1. a \in Contexts /\ phase[a] \in ContextFunctions
    BY <1>1, <1>5, Now
  <2>2. f \notin Allocated(kernel, "define") /\ phase[Main] = "wait"
    BY <1>2, <2>1 DEF NeverSet, IInv, PhaseInv
  <2>3. ptr[Main][f] = Null
    BY <2>2 DEF IInv, ParamsInv, Changed
  <2>4. ptr[a][f] = ptr[Main][f]
    BY <1>3, <2>1 DEF IInv, CopyInv
  <2> QED  BY <1>2, <2>3, <2>4
<1> QED  BY <1>4, <1>5

\* The first two operations of bmark_init.
LEMMA InitBegins ==
  ASSUME IInv, \A k \in Kernels : Disciplined(k), NEW a \in Actors, Running(a),
         phase[a] = "init", pos[a] <= 2
  PROVE  \/ pos[a] = 1 /\ Op(a).do = "new" /\ Op(a).f = "self"
         \/ pos[a] = 2 /\ Op(a).do = "copyParams"
<1>1. phase[a] \in MainFunctions \cup ContextFunctions /\ pos[a] \in Nat \ {0}
  BY InFunction, Now
<1>2. pos[a] = 1 \/ pos[a] = 2
  BY <1>1
<1>3. Disciplined(kernel)
  BY DEF IInv, TypeInv
<1> QED  BY <1>2, <1>3 DEF Disciplined, News, Op

\* What is held is pointed to.
LEMMA OwnPointer ==
  ASSUME IInv, NEW a \in Actors, NEW f \in OwnFields(Holds(a))
  PROVE  \E how \in Hows : /\ <<f, how>> \in Holds(a)
                           /\ ptr[a][f] = <<a, turn[a], f, how>>
                           /\ ptr[a][f] \in live
<1>1. PICK how \in Hows : <<f, how>> \in Holds(a)
  BY DEF OwnFields
<1>2. /\ ptr[a][<<f, how>>[1]] = Block(a, <<f, how>>)
      /\ Block(a, <<f, how>>) \in live
  BY <1>1 DEF IInv, HoldInv
<1> QED  BY <1>1, <1>2 DEF Block

\* What an operation works on: the actor's own block, one of params that a
\* context reads, or, when it releases, nothing.
LEMMA Targets ==
  ASSUME IInv, \A k \in Kernels : Disciplined(k), NEW a \in Actors, Running(a),
         Op(a).do \in {"free", "read", "write", "readParams"}
  PROVE  \/ /\ Op(a).do # "readParams"
            /\ \E how \in Hows : /\ <<Op(a).f, how>> \in Holds(a)
                                 /\ Target(a) = <<a, turn[a], Op(a).f, how>>
                                 /\ Op(a).do = "free" => how = Op(a).how
            /\ Target(a) \in live
         \/ /\ Op(a).do \in {"read", "readParams"} /\ a \in Contexts
            /\ \E how \in Hows : Target(a) = <<Main, 0, Op(a).f, how>>
            /\ Target(a) \in live
         \/ Op(a).do = "free" /\ Target(a) = Null
<1>1. phase[a] \in MainFunctions \cup ContextFunctions
  BY InFunction
<1>2. /\ Respects(kernel, phase[a], pos[a])
      /\ Holds(a) = HeldAt(kernel, phase[a], pos[a])
      /\ Changed(a) = Touched(kernel, phase[a], pos[a])
      /\ phase[a] \in ContextFunctions => a \in Contexts
  BY <1>1, Now DEF MainFunctions, ContextFunctions
<1>3. Op(a) = Program[kernel][phase[a]][pos[a]]
  BY DEF Op
<1>4. ~(phase[a] = "init" /\ pos[a] <= 2)
  BY InitBegins
<1>5. Op(a).do # "readParams" => Target(a) = ptr[a][Op(a).f]
  BY DEF Target
<1>6. ASSUME Op(a).do # "readParams", Op(a).do # "free", Op(a).f \in OwnFields(Holds(a))
      PROVE  \E how \in Hows : /\ <<Op(a).f, how>> \in Holds(a)
                               /\ Target(a) = <<a, turn[a], Op(a).f, how>>
                               /\ Target(a) \in live
  BY <1>5, <1>6, OwnPointer
<1>7. ASSUME a \in Contexts, phase[a] \in ContextFunctions, Op(a).f \in OwnFields(Kept(kernel))
      PROVE  \E how \in Hows : /\ ptr[Main][Op(a).f] = <<Main, 0, Op(a).f, how>>
                               /\ ptr[Main][Op(a).f] \in live
  <2>1. phase[Main] = "wait" /\ turn[Main] = 0 /\ Main \in Actors
    BY <1>7 DEF IInv, PhaseInv, Actors
  <2>2. Holds(Main) = Kept(kernel)
    BY <2>1 DEF Holds
  <2> QED  BY <1>7, <2>1, <2>2, OwnPointer
<1>8. CASE Op(a).do = "free"
  <2>1. CASE <<Op(a).f, Op(a).how>> \in Holds(a)
    <3>1. PICK f \in Fields, how \in Hows : f = Op(a).f /\ how = Op(a).how
      <4>1. Holds(a) \subseteq Pairs
        BY <1>2 DEF HeldAt, Held
      <4> QED  BY <2>1, <4>1 DEF Pairs
    <3>2. ptr[a][<<f, how>>[1]] = Block(a, <<f, how>>) /\ Block(a, <<f, how>>) \in live
      BY <2>1, <3>1 DEF IInv, HoldInv
    <3> QED  BY <1>5, <1>8, <2>1, <3>1, <3>2 DEF Block
  <2>2. CASE <<Op(a).f, Op(a).how>> \notin Holds(a)
    <3>1. NeverSet(kernel, phase[a], pos[a], Op(a).f)
      BY <1>2, <1>3, <1>8, <2>2 DEF Respects
    <3> QED  BY <1>4, <1>5, <1>8, <3>1, NullPointer
  <2> QED  BY <2>1, <2>2
<1>9. CASE Op(a).do = "write"
  <2>1. Op(a).f \in OwnFields(Holds(a))
    BY <1>2, <1>3, <1>9 DEF Respects
  <2> QED  BY <1>6, <1>9, <2>1
<1>10. CASE Op(a).do = "read"
  <2>1. CASE Op(a).f \in OwnFields(Holds(a))
    BY <1>6, <1>10, <2>1
  <2>2. CASE Op(a).f \notin OwnFields(Holds(a))
    <3>1. /\ phase[a] \in ContextFunctions /\ a \in Contexts
          /\ Op(a).f \in OwnFields(Kept(kernel)) /\ Op(a).f \notin Changed(a)
      BY <1>2, <1>3, <1>10, <2>2 DEF Respects
    <3>2. Op(a).f \in Fields
      BY <3>1 DEF OwnFields
    <3>3. ptr[a][Op(a).f] = ptr[Main][Op(a).f]
      BY <1>4, <3>1, <3>2 DEF IInv, CopyInv
    <3> QED  BY <1>5, <1>7, <1>10, <3>1, <3>3
  <2> QED  BY <2>1, <2>2
<1>11. CASE Op(a).do = "readParams"
  <2>1. /\ phase[a] \in ContextFunctions /\ a \in Contexts
        /\ Op(a).f \in OwnFields(Kept(kernel))
    BY <1>2, <1>3, <1>11 DEF Respects
  <2>2. Target(a) = ptr[Main][Op(a).f]
    BY <1>11 DEF Target
  <2> QED  BY <1>7, <1>11, <2>1, <2>2
<1> QED  BY <1>8, <1>9, <1>10, <1>11

-----------------------------------------------------------------------------
(* Every step preserves the invariant.                                     *)

\* Main and the contexts are different actors.
LEMMA ActorTypes ==
  /\ Main \in Actors /\ Main \notin Contexts /\ Contexts \subseteq Actors
  /\ \A a \in Actors : a = Main \/ a \in Contexts
  /\ NumIterations \in Nat
BY LifeAssumption DEF Main, Actors, Contexts

\* What an operation does not touch.
LEMMA OperationFrame ==
  ASSUME IInv, \A k \in Kernels : Disciplined(k), NEW a \in Actors, Running(a),
         Advance(a), UNCHANGED <<kernel, verify, left, phase, turn>>
  PROVE  PhaseInv' /\ PosInv' /\ kernel' \in Kernels /\ verify' \in BOOLEAN
         /\ left' \in 0..NumIterations /\ phase' \in [Actors -> Phases]
         /\ pos' \in [Actors -> Nat] /\ turn' \in [Actors -> 0..NumIterations]
<1>1. /\ pos' = [pos EXCEPT ![a] = pos[a] + 1] /\ pos'[a] \in 1..(Len(Program[kernel][phase[a]]) + 1)
      /\ \A u \in Actors : u # a => pos'[u] = pos[u]
      /\ phase[a] \in DOMAIN Program[kernel]
  BY Operation DEF Advance, Running
<1>2. PosInv'
  BY <1>1 DEF IInv, PosInv
<1>3. PhaseInv'
  BY DEF IInv, PhaseInv
<1>4. pos' \in [Actors -> Nat]
  BY <1>1 DEF IInv, TypeInv
<1> QED  BY <1>2, <1>3, <1>4 DEF IInv, TypeInv

\* th_malloc, th_memalign.
LEMMA AllocateKeeps ==
  ASSUME IInv, \A k \in Kernels : Disciplined(k), NEW a \in Actors, Allocate(a)
  PROVE  IInv'
<1>1. /\ Running(a) /\ Op(a).do = "new" /\ Advance(a)
      /\ UNCHANGED <<kernel, verify, left, phase, turn>>
  BY DEF Allocate
<1>2. PICK f \in Fields, how \in Hows : f = Op(a).f /\ how = Op(a).how
  BY <1>1, Operation DEF Pairs
<1>3. PICK block : block = <<a, turn[a], f, how>>
  OBVIOUS
<1>4. /\ ptr' = [ptr EXCEPT ![a][f] = block]
      /\ live' = live \cup {block}
  BY <1>2, <1>3 DEF Allocate
<1>5. ptr \in [Actors -> [Fields -> Blocks \cup {Null}]]
  BY DEF IInv, TypeInv
<1>6. /\ ptr'[a][f] = block
      /\ \A g \in Fields : g # f => ptr'[a][g] = ptr[a][g]
      /\ \A u \in Actors : u # a => ptr'[u] = ptr[u]
  BY <1>4, <1>5
<1>7. /\ Holds(a)' = Holds(a) \cup {<<f, how>>} /\ Changed(a)' = Changed(a) \cup {f}
      /\ \A u \in Actors : u # a => Holds(u)' = Holds(u) /\ Changed(u)' = Changed(u) /\ pos'[u] = pos[u]
      /\ pos'[a] = pos[a] + 1 /\ pos[a] \in Nat \ {0}
  BY <1>1, <1>2, Operation
<1>8. phase[a] \in MainFunctions \cup ContextFunctions
  BY <1>1, InFunction
<1>9. \A b \in Holds(a) : b[1] \in Fields /\ b[1] # f
  <2>1. f \notin OwnFields(Holds(a)) /\ Holds(a) \subseteq Pairs
    BY <1>1, <1>2, <1>8, Now DEF Respects, HeldAt, Held, Op
  <2> QED  BY <2>1 DEF OwnFields, Pairs
<1>10. TypeInv'
  <2>1. block \in Blocks
    BY <1>3 DEF Blocks, IInv, TypeInv, Hows
  <2>2. ptr' \in [Actors -> [Fields -> Blocks \cup {Null}]] /\ live' \subseteq Blocks
    BY <1>4, <1>5, <2>1 DEF IInv, TypeInv
  <2> QED  BY <1>1, <2>2, OperationFrame DEF TypeInv
<1>11. HoldInv'
  <2>1. \A u, b : Block(u, b)' = Block(u, b)
    BY <1>1 DEF Block
  <2>2. Block(a, <<f, how>>) = block
    BY <1>3 DEF Block
  <2>3. ASSUME NEW u \in Actors, NEW b \in Holds(u)'
        PROVE  ptr'[u][b[1]] = Block(u, b) /\ Block(u, b) \in live'
    <3>1. CASE b \in Holds(u)
      <4>1. ptr[u][b[1]] = Block(u, b) /\ Block(u, b) \in live
        BY <3>1 DEF IInv, HoldInv
      <4> QED  BY <1>4, <1>6, <1>9, <3>1, <4>1
    <3>2. CASE b \notin Holds(u)
      <4>1. u = a /\ b = <<f, how>>
        BY <1>7, <2>3, <3>2
      <4> QED  BY <1>4, <1>6, <2>2, <4>1
    <3> QED  BY <3>1, <3>2
  <2>4. ASSUME NEW l \in live'
        PROVE  \E u \in Actors : \E b \in Holds(u)' : l = Block(u, b)
    <3>1. CASE l = block
      BY <1>7, <2>2, <3>1
    <3>2. CASE l \in live
      <4>1. PICK u \in Actors : \E b \in Holds(u) : l = Block(u, b)
        BY <3>2 DEF IInv, HoldInv
      <4> QED  BY <1>7, <4>1
    <3> QED  BY <1>4, <3>1, <3>2
  <2> QED  BY <2>1, <2>3, <2>4 DEF HoldInv
<1>12. ParamsInv'
  BY <1>6, <1>7, ActorTypes DEF IInv, ParamsInv
<1>13. CopyInv'
  <2> SUFFICES ASSUME NEW c \in Contexts, ~(phase[c] = "init" /\ pos'[c] <= 2),
                      NEW g \in Fields, g \notin Changed(c)'
               PROVE  ptr'[c][g] = ptr'[Main][g]
    BY <1>1 DEF CopyInv
  <2>1. ~(phase[c] = "init" /\ pos[c] <= 2)
    <3>1. CASE c = a
      BY <1>1, <1>7, <3>1, InitBegins
    <3>2. CASE c # a
      BY <1>7, <3>2, ActorTypes
    <3> QED  BY <3>1, <3>2
  <2>2. g \notin Changed(c) /\ (c = a => g # f)
    BY <1>7, ActorTypes
  <2>3. ptr[c][g] = ptr[Main][g]
    BY <2>1, <2>2 DEF IInv, CopyInv
  <2>4. ptr'[c][g] = ptr[c][g]
    BY <1>6, <2>2, ActorTypes
  <2>5. a # Main
    <3>1. CASE phase[c] \in ContextFunctions
      BY <1>8, <3>1, Now DEF IInv, PhaseInv, MainFunctions
    <3>2. CASE phase[c] \notin ContextFunctions
      BY <2>2, <3>2 DEF IInv, PhaseInv, Changed
    <3> QED  BY <3>1, <3>2
  <2> QED  BY <1>6, <2>3, <2>4, <2>5, ActorTypes
<1> QED  BY <1>1, <1>10, <1>11, <1>12, <1>13, OperationFrame DEF IInv

\* An operation that leaves pointers and fields as they are, after the copy.
LEMMA CopyFrame ==
  ASSUME IInv, \A k \in Kernels : Disciplined(k), NEW a \in Actors, Running(a), Advance(a),
         Op(a).do \notin {"new", "copyParams"}, UNCHANGED <<kernel, phase, ptr>>
  PROVE  ParamsInv' /\ CopyInv'
<1>1. /\ \A u \in Actors : Changed(u)' = Changed(u)
      /\ \A u \in Actors : u # a => pos'[u] = pos[u]
      /\ pos'[a] = pos[a] + 1 /\ pos[a] \in Nat \ {0}
  BY Operation
<1>2. ParamsInv'
  BY <1>1, ActorTypes DEF IInv, ParamsInv
<1>3. CopyInv'
  <2> SUFFICES ASSUME NEW c \in Contexts, ~(phase[c] = "init" /\ pos'[c] <= 2),
                      NEW g \in Fields, g \notin Changed(c)'
               PROVE  ptr[c][g] = ptr[Main][g]
    BY DEF CopyInv
  <2>1. ~(phase[c] = "init" /\ pos[c] <= 2)
    BY <1>1, InitBegins, ActorTypes
  <2> QED  BY <1>1, <2>1, ActorTypes DEF IInv, CopyInv
<1> QED  BY <1>2, <1>3

\* th_free, th_free_aligned.
LEMMA ReleaseKeeps ==
  ASSUME IInv, \A k \in Kernels : Disciplined(k), NEW a \in Actors, Release(a)
  PROVE  IInv'
<1>1. /\ Running(a) /\ Op(a).do = "free" /\ Advance(a)
      /\ live' = live \ {Target(a)}
      /\ UNCHANGED <<kernel, verify, left, phase, turn, ptr>>
  BY DEF Release
<1>2. PICK f, target : f = Op(a).f /\ target = Target(a)
  OBVIOUS
<1>3. /\ Holds(a)' = {b \in Holds(a) : b[1] # f}
      /\ \A u \in Actors : u # a => Holds(u)' = Holds(u)
  BY <1>1, <1>2, Operation
<1>4. target = ptr[a][f]
  BY <1>1, <1>2 DEF Target
<1>5. target = Null \/ \E how \in Hows : target = <<a, turn[a], f, how>>
  BY <1>1, <1>2, Targets
<1>6. \A u, b : Block(u, b)' = Block(u, b)
  BY <1>1 DEF Block
<1>7. TypeInv'
  BY <1>1, OperationFrame DEF IInv, TypeInv
<1>8. HoldInv'
  <2>1. ASSUME NEW u \in Actors, NEW b \in Holds(u)'
        PROVE  ptr'[u][b[1]] = Block(u, b) /\ Block(u, b) \in live'
    <3>1. b \in Holds(u) /\ (u = a => b[1] # f)
      BY <1>3
    <3>2. ptr[u][b[1]] = Block(u, b) /\ Block(u, b) \in live
      BY <3>1 DEF IInv, HoldInv
    <3>3. CASE target = Null
      <4>1. Block(u, b) # Null
        BY DEF Block, Null
      <4> QED  BY <1>1, <1>2, <3>2, <3>3, <4>1
    <3>4. CASE target # Null
      <4>1. Block(u, b) # target
        BY <1>5, <3>1, <3>4 DEF Block
      <4> QED  BY <1>1, <1>2, <3>2, <4>1
    <3> QED  BY <3>3, <3>4
  <2>2. ASSUME NEW l \in live'
        PROVE  \E u \in Actors : \E b \in Holds(u)' : l = Block(u, b)
    <3>1. l \in live /\ l # target
      BY <1>1, <1>2
    <3>2. PICK u \in Actors : \E b \in Holds(u) : l = Block(u, b)
      BY <3>1 DEF IInv, HoldInv
    <3>3. PICK b \in Holds(u) : l = Block(u, b)
      BY <3>2
    <3>4. ptr[u][b[1]] = l
      BY <3>3 DEF IInv, HoldInv
    <3>5. u = a => b[1] # f
      BY <1>4, <3>1, <3>4
    <3> QED  BY <1>3, <3>3, <3>5
  <2> QED  BY <1>6, <2>1, <2>2 DEF HoldInv
<1>9. ParamsInv' /\ CopyInv'
  BY <1>1, CopyFrame
<1> QED  BY <1>1, <1>7, <1>8, <1>9, OperationFrame DEF IInv

\* Reading and writing.
LEMMA AccessKeeps ==
  ASSUME IInv, \A k \in Kernels : Disciplined(k), NEW a \in Actors, Access(a)
  PROVE  IInv'
<1>1. /\ Running(a) /\ Op(a).do \in {"read", "readParams", "write"} /\ Advance(a)
      /\ UNCHANGED <<kernel, verify, left, phase, turn, ptr, live>>
  BY DEF Access
<1>2. \A u \in Actors : Holds(u)' = Holds(u)
  BY <1>1, Operation
<1>3. HoldInv'
  <2>1. \A u, b : Block(u, b)' = Block(u, b)
    BY <1>1 DEF Block
  <2> QED  BY <1>1, <1>2, <2>1 DEF IInv, HoldInv
<1>4. TypeInv'
  BY <1>1, OperationFrame DEF IInv, TypeInv
<1>5. ParamsInv' /\ CopyInv'
  BY <1>1, CopyFrame
<1> QED  BY <1>1, <1>3, <1>4, <1>5, OperationFrame DEF IInv

\* What bmark_init holds when it copies params: the structure.
LEMMA AtCopy ==
  ASSUME IInv, \A k \in Kernels : Disciplined(k), NEW a \in Actors, Running(a),
         Op(a).do = "copyParams"
  PROVE  /\ a \in Contexts /\ phase[a] = "init" /\ pos[a] = 2
         /\ \A b \in Holds(a) : b[1] = "self"
         /\ "self" \in Changed(a)
<1>1. phase[a] \in MainFunctions \cup ContextFunctions
  BY InFunction
<1>2. phase[a] = "init" /\ pos[a] = 2
  BY <1>1, Now DEF Respects, Op
<1>3. a \in Contexts
  BY <1>1, <1>2, Now DEF MainFunctions
<1>4. PICK ops : ops = Program[kernel]["init"]
  OBVIOUS
<1>5. /\ News(ops[1], "self") /\ Len(ops) \in Nat /\ Len(ops) >= 2
      /\ \A p \in 1..Len(ops) : Respects(kernel, "init", p)
  BY <1>4 DEF Disciplined, IInv, TypeInv, ContextFunctions
<1>6. ops[1].do = "new" /\ ops[1].f = "self" /\ <<ops[1].f, ops[1].how>> \in Pairs
  <2>1. Respects(kernel, "init", 1)
    BY <1>5
  <2> QED  BY <1>4, <1>5, <2>1 DEF Respects, News
<1>7. Held(ops, {}, 1) = {} /\ 1 \in Nat \ {0} /\ 1 + 1 = 2
  BY AtBegin
<1>8. Held(ops, {}, 2) = {<<ops[1].f, ops[1].how>>}
  BY <1>6, <1>7, HeldStep
<1>9. Holds(a) = Held(ops, {}, 2)
  BY <1>1, <1>2, <1>4, Now DEF HeldAt, Start
<1>10. "self" \in NewBefore(ops, 2)
  <2>1. 1 \in 1..(2 - 1) /\ "self" \in Fields
    BY DEF Fields
  <2> QED  BY <1>5, <2>1 DEF NewBefore
<1>11. "self" \in Changed(a)
  BY <1>1, <1>2, <1>4, <1>10, Now DEF Touched
<1> QED  BY <1>2, <1>3, <1>6, <1>8, <1>9, <1>11

\* The copy of params.
LEMMA CopyKeeps ==
  ASSUME IInv, \A k \in Kernels : Disciplined(k), NEW a \in Actors, Copy(a)
  PROVE  IInv'
<1>1. /\ Running(a) /\ Op(a).do = "copyParams" /\ Advance(a)
      /\ ptr' = [ptr EXCEPT ![a] = [ptr[Main] EXCEPT !["self"] = ptr[a]["self"]]]
      /\ UNCHANGED <<kernel, verify, left, phase, turn, live>>
  BY DEF Copy
<1>2. /\ a \in Contexts /\ phase[a] = "init" /\ pos[a] = 2
      /\ \A b \in Holds(a) : b[1] = "self"
      /\ "self" \in Changed(a)
  BY <1>1, AtCopy
<1>3. /\ \A u \in Actors : Holds(u)' = Holds(u) /\ Changed(u)' = Changed(u)
      /\ \A u \in Actors : u # a => pos'[u] = pos[u]
  BY <1>1, Operation
<1>4. ptr \in [Actors -> [Fields -> Blocks \cup {Null}]] /\ "self" \in Fields
  BY DEF IInv, TypeInv, Fields
<1>5. /\ ptr'[a]["self"] = ptr[a]["self"]
      /\ \A g \in Fields : g # "self" => ptr'[a][g] = ptr[Main][g]
      /\ \A u \in Actors : u # a => ptr'[u] = ptr[u]
      /\ a # Main
  BY <1>1, <1>2, <1>4, ActorTypes
<1>6. TypeInv'
  <2>1. [ptr[Main] EXCEPT !["self"] = ptr[a]["self"]] \in [Fields -> Blocks \cup {Null}]
    BY <1>4, ActorTypes
  <2>2. ptr' \in [Actors -> [Fields -> Blocks \cup {Null}]]
    BY <1>1, <1>4, <2>1
  <2> QED  BY <1>1, <2>2, OperationFrame DEF IInv, TypeInv
<1>7. HoldInv'
  <2>1. \A u, b : Block(u, b)' = Block(u, b)
    BY <1>1 DEF Block
  <2>2. \A u \in Actors : \A b \in Holds(u) : ptr'[u][b[1]] = ptr[u][b[1]]
    BY <1>2, <1>5
  <2> QED  BY <1>1, <1>3, <2>1, <2>2 DEF IInv, HoldInv
<1>8. ParamsInv'
  BY <1>3, <1>5, ActorTypes DEF IInv, ParamsInv
<1>9. CopyInv'
  <2> SUFFICES ASSUME NEW c \in Contexts, ~(phase[c] = "init" /\ pos'[c] <= 2),
                      NEW g \in Fields, g \notin Changed(c)'
               PROVE  ptr'[c][g] = ptr'[Main][g]
    BY <1>1 DEF CopyInv
  <2>1. CASE c = a
    BY <1>2, <1>3, <1>5, <2>1, ActorTypes
  <2>2. CASE c # a
    BY <1>3, <1>5, <2>2, ActorTypes DEF IInv, CopyInv
  <2> QED  BY <2>1, <2>2
<1> QED  BY <1>1, <1>6, <1>7, <1>8, <1>9, OperationFrame DEF IInv

\* A function that returns leaves what the next one expects.
LEMMA AtReturn ==
  ASSUME IInv, \A k \in Kernels : Disciplined(k), NEW a \in Actors, ~Running(a),
         phase[a] \in MainFunctions \cup ContextFunctions
  PROVE  /\ Holds(a) = AtEnd(Program[kernel][phase[a]], Start(kernel, phase[a]))
         /\ Changed(a) = Earlier(kernel, phase[a]) \cup Allocated(kernel, phase[a])
         /\ pos[a] = Len(Program[kernel][phase[a]]) + 1
<1>1. pos[a] = Len(Program[kernel][phase[a]]) + 1
  BY Now
<1> QED  BY <1>1, Now DEF HeldAt, AtEnd, Touched, Allocated

\* A function that is called holds what it starts with.
LEMMA AtCall ==
  ASSUME NEW k, NEW fn
  PROVE  HeldAt(k, fn, 1) = Start(k, fn) /\ Touched(k, fn, 1) = Earlier(k, fn)
BY AtBegin, Starts DEF HeldAt, Touched

\* An actor goes on to another function, holding what it held: what it had
\* set stays set, or it is about to copy params.
LEMMA CallKeeps ==
  ASSUME IInv, \A k \in Kernels : Disciplined(k), NEW a \in Actors, NEW to \in Phases,
         phase' = [phase EXCEPT ![a] = to], pos' = [pos EXCEPT ![a] = 1],
         UNCHANGED <<kernel, verify, ptr, live>>, left' \in 0..NumIterations,
         turn' \in [Actors -> 0..NumIterations],
         \A u \in Actors : u # a \/ Holds(u) # {} => turn'[u] = turn[u],
         PhaseInv', Holds(a)' = Holds(a),
         \/ to = "init"
         \/ /\ ~(phase[a] = "init" /\ pos[a] <= 2)
            /\ \A f \in Fields : f \in Changed(a) => f \in Changed(a)',
         to # "init" \/ a # Main
  PROVE  IInv'
<1>1. /\ phase'[a] = to /\ pos'[a] = 1
      /\ \A u \in Actors : u # a => phase'[u] = phase[u] /\ pos'[u] = pos[u]
      /\ phase' \in [Actors -> Phases] /\ pos' \in [Actors -> Nat]
  BY DEF IInv, TypeInv
<1>2. \A u \in Actors : u # a => Holds(u)' = Holds(u) /\ Changed(u)' = Changed(u)
  BY <1>1 DEF Holds, Changed
<1>3. TypeInv'
  BY <1>1 DEF IInv, TypeInv
<1>4. PosInv'
  <2>1. kernel \in DOMAIN Program /\ DOMAIN Program[kernel] = MainFunctions \cup ContextFunctions
        /\ \A fn \in MainFunctions \cup ContextFunctions : Len(Program[kernel][fn]) \in Nat
    BY ProgramDomain DEF IInv, TypeInv, Disciplined
  <2> QED  BY <1>1, <2>1 DEF IInv, PosInv
<1>5. HoldInv'
  <2>1. \A u \in Actors : \A b \in Holds(u) : Block(u, b)' = Block(u, b)
    BY DEF Block
  <2>2. \A u \in Actors : Holds(u)' = Holds(u)
    BY <1>2
  <2> QED  BY <2>1, <2>2 DEF IInv, HoldInv
<1>6. ParamsInv'
  BY <1>2, ActorTypes DEF IInv, ParamsInv
<1>7. CopyInv'
  <2> SUFFICES ASSUME NEW c \in Contexts, ~(phase'[c] = "init" /\ pos'[c] <= 2),
                      NEW g \in Fields, g \notin Changed(c)'
               PROVE  ptr[c][g] = ptr[Main][g]
    BY DEF CopyInv
  <2>1. CASE c = a
    BY <1>1, <2>1 DEF IInv, CopyInv
  <2>2. CASE c # a
    BY <1>1, <1>2, <2>2, ActorTypes DEF IInv, CopyInv
  <2> QED  BY <2>1, <2>2
<1> QED  BY <1>3, <1>4, <1>5, <1>6, <1>7 DEF IInv

\* A context takes an iteration or leaves.
LEMMA TakeKeeps ==
  ASSUME IInv, \A k \in Kernels : Disciplined(k), NEW c \in Contexts, TakeIteration(c)
  PROVE  IInv'
<1>1. /\ phase[c] = "idle" /\ phase[Main] = "wait"
      /\ UNCHANGED <<kernel, verify, pos, ptr, live>>
      /\ left \in 0..NumIterations /\ turn \in [Actors -> 0..NumIterations]
      /\ phase \in [Actors -> Phases] /\ c \in Actors /\ c # Main
  BY ActorTypes DEF TakeIteration, IInv, TypeInv
<1>2. pos' = [pos EXCEPT ![c] = 1]
  <2>1. DOMAIN Program[kernel] = MainFunctions \cup ContextFunctions
    BY ProgramDomain DEF IInv, TypeInv, Disciplined
  <2>2. pos[c] = 1 /\ pos \in [Actors -> Nat]
    BY <1>1, <2>1 DEF IInv, PosInv, TypeInv, MainFunctions, ContextFunctions
  <2> QED  BY <1>1, <2>2
<1>3. Holds(c) = {}
  BY <1>1 DEF Holds
<1>4. \A k \in Kernels : Held(Program[k]["init"], {}, 1) = {}
  BY AtBegin
<1>5. CASE left > 0
  <2>1. /\ left' = left - 1 /\ turn' = [turn EXCEPT ![c] = left]
        /\ phase' = [phase EXCEPT ![c] = "init"]
    BY <1>5 DEF TakeIteration
  <2>2. /\ left' \in 0..NumIterations /\ turn' \in [Actors -> 0..NumIterations]
        /\ \A u \in Actors : u # c => turn'[u] = turn[u]
    BY <1>1, <1>5, <2>1, ActorTypes
  <2>3. PhaseInv'
    BY <1>1, <2>1, <2>2, ActorTypes DEF IInv, PhaseInv, MainFunctions, ContextFunctions
  <2>4. Holds(c)' = {}
    <3>1. phase'[c] = "init" /\ pos'[c] = 1 /\ kernel' \in Kernels
      BY <1>1, <1>2, <2>1 DEF IInv, TypeInv
    <3> QED  BY <1>4, <3>1 DEF Holds, HeldAt, Start
  <2>5. "init" \in Phases
    BY DEF Phases
  <2> QED  BY <1>1, <1>2, <1>3, <2>1, <2>2, <2>3, <2>4, <2>5, CallKeeps
<1>6. CASE ~(left > 0)
  <2>1. UNCHANGED <<left, turn>> /\ phase' = [phase EXCEPT ![c] = "exited"]
    BY <1>6 DEF TakeIteration
  <2>2. PhaseInv'
    BY <1>1, <2>1, ActorTypes DEF IInv, PhaseInv, MainFunctions, ContextFunctions
  <2>3. Holds(c)' = {} /\ Changed(c)' = Fields
    BY <1>1, <2>1 DEF Holds, Changed
  <2>4. "exited" \in Phases
    BY DEF Phases
  <2> QED  BY <1>1, <1>2, <1>3, <2>1, <2>2, <2>3, <2>4, CallKeeps
<1> QED  BY <1>5, <1>6

\* The functions of an item, one after the other.
LEMMA NextKeeps ==
  ASSUME IInv, \A k \in Kernels : Disciplined(k), NEW c \in Contexts, NextFunction(c)
  PROVE  IInv'
<1>1. PICK to : /\ \/ phase[c] = "init" /\ to = "bench"
                   \/ phase[c] = "bench" /\ to \in {"verify", "fini"}
                   \/ phase[c] = "verify" /\ to = "fini"
                   \/ phase[c] = "fini" /\ to = "idle"
                /\ ~Running(c) /\ phase' = [phase EXCEPT ![c] = to] /\ pos' = [pos EXCEPT ![c] = 1]
                /\ UNCHANGED <<kernel, verify, left, turn, ptr, live>>
  BY DEF NextFunction, Return
<1>2. c \in Actors /\ c # Main /\ phase[c] \in ContextFunctions /\ phase[Main] = "wait"
  BY <1>1, ActorTypes DEF ContextFunctions, IInv, PhaseInv
<1>3. /\ Holds(c) = AtEnd(Program[kernel][phase[c]], Start(kernel, phase[c]))
      /\ Changed(c) = Earlier(kernel, phase[c]) \cup Allocated(kernel, phase[c])
      /\ pos[c] = Len(Program[kernel][phase[c]]) + 1
  BY <1>1, <1>2, AtReturn
<1>4. Disciplined(kernel) /\ phase \in [Actors -> Phases] /\ pos \in [Actors -> Nat]
  BY DEF IInv, TypeInv
<1>5. phase'[c] = to /\ pos'[c] = 1 /\ kernel' = kernel
  BY <1>1, <1>2, <1>4
<1>6. to \in Phases
  BY <1>1 DEF Phases
<1>7. PhaseInv'
  BY <1>1, <1>2, <1>4, ActorTypes DEF IInv, PhaseInv, ContextFunctions
<1>8. ~(phase[c] = "init" /\ pos[c] <= 2)
  <2>1. phase[c] = "init" => Len(Program[kernel]["init"]) \in Nat /\ Len(Program[kernel]["init"]) >= 2
    BY <1>4 DEF Disciplined, ContextFunctions
  <2> QED  BY <1>3, <2>1
<1>9. CASE to = "idle"
  <2>1. Holds(c) = {}
    BY <1>1, <1>3, <1>4, <1>9 DEF Disciplined, Start
  <2>2. Holds(c)' = {} /\ Changed(c)' = Fields
    BY <1>5, <1>9 DEF Holds, Changed
  <2> QED  BY <1>1, <1>2, <1>4, <1>6, <1>7, <1>8, <2>1, <2>2, CallKeeps DEF IInv, TypeInv
<1>10. CASE to # "idle"
  <2>1. to \in {"bench", "verify", "fini"}
    BY <1>1, <1>10
  <2>2. Holds(c)' = Start(kernel, to) /\ Changed(c)' = Earlier(kernel, to)
    BY <1>5, <2>1, AtCall DEF Holds, Changed
  <2>3. Holds(c) = Start(kernel, to)
    BY <1>1, <1>3, <1>4, <1>10 DEF Start, Disciplined, AfterInit, AfterRun
  <2>4. \A f \in Fields : f \in Changed(c) => f \in Earlier(kernel, to)
    BY <1>1, <1>3, <1>10 DEF Earlier
  <2>5. \A f \in Fields : f \in Changed(c) => f \in Changed(c)'
    BY <2>2, <2>4
  <2>6. Holds(c)' = Holds(c)
    BY <2>2, <2>3
  <2> QED  BY <1>1, <1>2, <1>4, <1>6, <1>7, <1>8, <2>5, <2>6, CallKeeps DEF IInv, TypeInv
<1> QED  BY <1>9, <1>10

\* main: define, wait for the contexts, clean up.
LEMMA MainKeeps ==
  ASSUME IInv, \A k \in Kernels : Disciplined(k), MainGoesOn
  PROVE  IInv'
<1>1. PICK to : /\ \/ phase[Main] = "define" /\ to = "wait"
                   \/ phase[Main] = "wait" /\ to = "clean" /\ \A c \in Contexts : phase[c] = "exited"
                   \/ phase[Main] = "clean" /\ to = "end"
                /\ ~Running(Main) /\ phase' = [phase EXCEPT ![Main] = to] /\ pos' = [pos EXCEPT ![Main] = 1]
                /\ UNCHANGED <<kernel, verify, left, turn, ptr, live>>
  BY DEF MainGoesOn, Return
<1>2. Disciplined(kernel) /\ phase \in [Actors -> Phases] /\ pos \in [Actors -> Nat] /\ Main \in Actors
  BY ActorTypes DEF IInv, TypeInv
<1>3. phase'[Main] = to /\ pos'[Main] = 1 /\ kernel' = kernel
  BY <1>1, <1>2
<1>4. to \in Phases /\ to # "init" /\ phase[Main] # "init"
  BY <1>1 DEF Phases
<1>5. PhaseInv'
  BY <1>1, <1>2, ActorTypes DEF IInv, PhaseInv, MainFunctions, ContextFunctions
<1>6. phase[Main] # "wait" => /\ Holds(Main) = AtEnd(Program[kernel][phase[Main]], Start(kernel, phase[Main]))
                              /\ Changed(Main) = Earlier(kernel, phase[Main]) \cup Allocated(kernel, phase[Main])
  BY <1>1, <1>2, AtReturn DEF MainFunctions
<1>7. CASE to = "wait"
  <2>1. Holds(Main) = Kept(kernel) /\ Changed(Main) = Allocated(kernel, "define")
    BY <1>1, <1>6, <1>7 DEF Start, Earlier, Kept
  <2>2. Holds(Main)' = Kept(kernel) /\ Changed(Main)' = Allocated(kernel, "define")
    BY <1>3, <1>7 DEF Holds, Changed
  <2> QED  BY <1>1, <1>2, <1>4, <1>5, <2>1, <2>2, CallKeeps DEF IInv, TypeInv
<1>8. CASE to = "clean"
  <2>1. Holds(Main) = Kept(kernel) /\ Changed(Main) = Allocated(kernel, "define")
    BY <1>1, <1>8 DEF Holds, Changed
  <2>2. Holds(Main)' = Start(kernel, "clean") /\ Changed(Main)' = Earlier(kernel, "clean")
    BY <1>3, <1>8, AtCall DEF Holds, Changed
  <2>3. Start(kernel, "clean") = Kept(kernel) /\ Earlier(kernel, "clean") = Allocated(kernel, "define")
    BY DEF Start, Earlier
  <2> QED  BY <1>1, <1>2, <1>4, <1>5, <2>1, <2>2, <2>3, CallKeeps DEF IInv, TypeInv
<1>9. CASE to = "end"
  <2>1. Holds(Main) = AtEnd(Program[kernel].clean, Kept(kernel))
    BY <1>1, <1>6, <1>9 DEF Start
  <2>2. Holds(Main)' = AtEnd(Program[kernel].clean, Kept(kernel)) /\ Changed(Main)' = Fields
    BY <1>3, <1>9 DEF Holds, Changed
  <2> QED  BY <1>1, <1>2, <1>4, <1>5, <2>1, <2>2, CallKeeps DEF IInv, TypeInv
<1> QED  BY <1>1, <1>7, <1>8, <1>9

\* The program has ended, or another part of the harness moves.
LEMMA StutterKeeps ==
  ASSUME IInv, UNCHANGED vars
  PROVE  IInv'
<1> USE DEF vars
<1>1. \A a \in Actors : Holds(a)' = Holds(a) /\ Changed(a)' = Changed(a)
  BY DEF Holds, Changed
<1>2. \A a, b : Block(a, b)' = Block(a, b)
  BY DEF Block
<1>3. TypeInv' /\ PhaseInv' /\ PosInv'
  BY DEF IInv, TypeInv, PhaseInv, PosInv
<1>4. HoldInv'
  BY <1>1, <1>2 DEF IInv, HoldInv
<1>5. ParamsInv' /\ CopyInv'
  BY <1>1, ActorTypes DEF IInv, ParamsInv, CopyInv
<1> QED  BY <1>3, <1>4, <1>5 DEF IInv

\* The program starts with nothing allocated.
LEMMA InitHolds ==
  ASSUME Init, \A k \in Kernels : Disciplined(k)
  PROVE  IInv
<1>1. /\ phase = [a \in Actors |-> IF a = Main THEN "define" ELSE "idle"]
      /\ pos = [a \in Actors |-> 1] /\ turn = [a \in Actors |-> 0]
      /\ ptr = [a \in Actors |-> [f \in Fields |-> Null]] /\ live = {}
      /\ kernel \in Kernels /\ verify \in BOOLEAN /\ left = IF verify THEN 1 ELSE NumIterations
  BY DEF Init
<1>2. kernel \in DOMAIN Program /\ DOMAIN Program[kernel] = MainFunctions \cup ContextFunctions
      /\ \A fn \in MainFunctions \cup ContextFunctions : Len(Program[kernel][fn]) \in Nat
  BY <1>1, ProgramDomain DEF Disciplined
<1>3. TypeInv
  BY <1>1, ActorTypes, LifeAssumption DEF TypeInv, Phases
<1>4. PhaseInv
  BY <1>1, ActorTypes DEF PhaseInv, MainFunctions, ContextFunctions
<1>5. PosInv
  BY <1>1, <1>2 DEF PosInv
<1>6. \A a \in Actors : Holds(a) = {}
  <2>1. HeldAt(kernel, "define", 1) = {}
    BY AtCall DEF Start
  <2> QED  BY <1>1, <2>1 DEF Holds
<1>7. HoldInv
  BY <1>1, <1>6 DEF HoldInv
<1>8. ParamsInv /\ CopyInv
  BY <1>1, ActorTypes DEF ParamsInv, CopyInv
<1> QED  BY <1>3, <1>4, <1>5, <1>7, <1>8 DEF IInv

-----------------------------------------------------------------------------
(* The theorems.                                                           *)

\* Contexts that run disciplined kernels keep the heap as the discipline says.
THEOREM LifeInvariant ==
  ASSUME \A k \in Kernels : Disciplined(k)
  PROVE  Spec => []IInv
<1>1. Init => IInv
  BY InitHolds
<1>2. IInv /\ [Next]_vars => IInv'
  BY AllocateKeeps, ReleaseKeeps, CopyKeeps, AccessKeeps, TakeKeeps, NextKeeps, MainKeeps, StutterKeeps
     DEF Next, Actor, Ended
<1> QED
  BY <1>1, <1>2, PTL DEF Spec

\* The state of every actor and the heap keep their types.
THEOREM TypeCorrect ==
  ASSUME \A k \in Kernels : Disciplined(k)
  PROVE  Spec => []TypeOK
<1>1. IInv => TypeOK
  BY DEF IInv, TypeInv, TypeOK
<1> QED
  BY <1>1, LifeInvariant, PTL

\* Nothing is read or written through a null or a dangling pointer, though
\* the contexts copy the pointers of params and run in any order.
THEOREM UsesAreLive ==
  ASSUME \A k \in Kernels : Disciplined(k)
  PROVE  Spec => []NoDanglingUse
<1>1. IInv => NoDanglingUse
  BY Targets DEF NoDanglingUse
<1> QED
  BY <1>1, LifeInvariant, PTL

\* bmark_fini and bmark_clean release what their own actor allocated, once,
\* with the function that belongs to it.
THEOREM FreesOwn ==
  ASSUME \A k \in Kernels : Disciplined(k)
  PROVE  Spec => []FreesItsOwn
<1>1. ASSUME IInv, NEW a \in Actors, Running(a), Op(a).do = "free", Target(a) # Null
      PROVE  Target(a) \in live /\ Target(a)[1] = a /\ Target(a)[4] = Op(a).how
  <2>1. Target(a) \in live /\ \E how \in Hows : /\ Target(a) = <<a, turn[a], Op(a).f, how>>
                                             /\ how = Op(a).how
    BY <1>1, Targets
  <2> QED  BY <2>1
<1>2. IInv => FreesItsOwn
  BY <1>1 DEF FreesItsOwn
<1> QED
  BY <1>2, LifeInvariant, PTL

\* What contexts share, they only read.
THEOREM ContextsApart ==
  ASSUME \A k \in Kernels : Disciplined(k)
  PROVE  Spec => []NoInterference
<1>1. ASSUME IInv, NEW a \in Actors, NEW c \in Actors, a # c, Running(a), Running(c),
             Op(a).do \in {"write", "free"}, Op(c).do \in {"read", "readParams", "write", "free"},
             Target(a) # Null
      PROVE  Target(a) # Target(c)
  <2>1. phase[a] \in MainFunctions \cup ContextFunctions /\ phase[c] \in MainFunctions \cup ContextFunctions
    BY <1>1, InFunction
  <2>2. a # Main
    BY <1>1, <2>1, ActorTypes DEF IInv, PhaseInv, MainFunctions, ContextFunctions
  <2>3. \E how \in Hows : Target(a) = <<a, turn[a], Op(a).f, how>>
    BY <1>1, Targets
  <2>4. \/ \E how \in Hows : Target(c) = <<c, turn[c], Op(c).f, how>>
        \/ \E how \in Hows : Target(c) = <<Main, 0, Op(c).f, how>>
        \/ Target(c) = Null
    BY <1>1, Targets
  <2> QED  BY <1>1, <2>2, <2>3, <2>4
<1>2. IInv => NoInterference
  BY <1>1 DEF NoInterference
<1> QED
  BY <1>2, LifeInvariant, PTL

\* An item leaves nothing behind in its context, and the program nothing that
\* it allocated.
THEOREM AllReleased ==
  ASSUME \A k \in Kernels : Disciplined(k)
  PROVE  Spec => []NothingLeaks
<1>1. ASSUME IInv, NEW c \in Contexts, phase[c] \in {"idle", "exited"}, NEW block \in live
      PROVE  block[1] # c
  <2>1. PICK u \in Actors : \E b \in Holds(u) : block = Block(u, b)
    BY <1>1 DEF IInv, HoldInv
  <2>2. u # c
    BY <1>1, <2>1 DEF Holds
  <2> QED  BY <2>1, <2>2 DEF Block
<1>2. ASSUME IInv, phase[Main] = "end"
      PROVE  \A block \in live : block[4] = "static"
  <2>1. \A c \in Contexts : Holds(c) = {}
    BY <1>2 DEF Holds, IInv, PhaseInv
  <2>2. Holds(Main) = AtEnd(Program[kernel].clean, Kept(kernel))
    BY <1>2 DEF Holds
  <2>3. \A b \in Holds(Main) : b[2] = "static"
    BY <1>2, <2>2 DEF Disciplined, Leftovers, IInv, TypeInv
  <2>4. ASSUME NEW block \in live
        PROVE  block[4] = "static"
    <3>1. PICK a \in Actors : \E b \in Holds(a) : block = Block(a, b)
      BY <1>2 DEF IInv, HoldInv
    <3> QED  BY <2>1, <2>3, <3>1, ActorTypes DEF Block
  <2> QED  BY <2>4
<1>3. IInv => NothingLeaks
  BY <1>1, <1>2 DEF NothingLeaks
<1> QED
  BY <1>3, LifeInvariant, PTL

=============================================================================
