------------------------ MODULE ChainProtocol_proofs ------------------------
(***************************************************************************)
(* Proofs about the CTRL / DATA protocol of ChainProtocol, for a chain of  *)
(* any length that passes any number of buffers, with condition waits that *)
(* return only when signalled.                                             *)
(***************************************************************************)
EXTENDS ChainProtocol, TLAPS

-----------------------------------------------------------------------------
(* The inductive invariant.  It relates the two sides of each link: item l *)
(* sends, item l + 1 receives.                                             *)

Receiving == {"lockIn", "waitStart", "signalIn", "waitPrev", "getNext"}
Waiting   == {"waitNext", "waitQuit"}
Sending   == {"init", "start", "signalOut", "setOut", "outReady", "waitNext", "waitQuit"}

\* The first item receives nothing, the final one sends nothing.
RoleInv ==
  /\ pc[1] \notin Receiving
  /\ pc[NumItems] \notin Sending

\* A side that waits is in its wait.
WaitInv(l) ==
  /\ ctrlWait[l] # "no" => pc[l] \in Waiting
  /\ dataWait[l] # "no" => pc[l + 1] = "waitPrev"

\* Who holds the mutexes: each side its own, from its first lock on, except
\* while it waits.
MutexInv(l) ==
  /\ ctrlMutex[l] = IF pc[l] = "init" \/ ctrlWait[l] # "no" THEN Free ELSE l
  /\ dataMutex[l] = IF pc[l + 1] \in {"init", "start", "lockIn"} \/ dataWait[l] # "no"
                    THEN Free ELSE l + 1

\* The receiver has read the signal, and the sender has not answered yet: with
\* a buffer, or, after QUIT, by leaving.
Requested(l) == (pc[l] = "waitNext" /\ ctrlWait[l] = "woken") \/ pc[l] \in {"setOut", "outReady"}
Released(l)  == (pc[l] = "waitQuit" /\ ctrlWait[l] = "woken") \/ pc[l] = "done"

\* What the signal holds at each stage of the sender.
SignalInv(l) ==
  /\ signal[l] = "NoData"  <=> pc[l] = "init"
  /\ signal[l] = "INVALID" <=> pc[l] = "start"
  /\ signal[l] = "QUIT"    <=> pc[l] = "waitQuit" /\ ~Released(l)
  /\ Requested(l) \/ Released(l) => signal[l] = "ACK"

\* The two sides are in step, and a receiver beyond its busy wait has a sender
\* whose signal is allocated.
HandshakeInv(l) ==
  /\ Requested(l) <=> pc[l + 1] = "waitPrev" /\ dataWait[l] # "woken"
  /\ Released(l)  <=> pc[l + 1] \in {"signalOut", "waitQuit", "done"}
  /\ pc[l] = "init" => pc[l + 1] \in {"init", "start", "lockIn", "waitStart"}

\* A buffer is ready and the receiver has not fetched it.
Delivered(l) == (pc[l + 1] = "waitPrev" /\ dataWait[l] = "woken") \/ pc[l + 1] = "getNext"

\* The sender has a buffer that it has not set.
Unsent(l) == pc[l] \in {"waitNext", "setOut"} \/ (pc[l] = "work" /\ ~IsFirst(l))

\* The buffer of a link is the last one its sender has set; the receiver has
\* it, or it is the next one the receiver will fetch.
BufferInv(l) ==
  /\ hand[l] = IF Unsent(l) THEN buffer[l] + 1 ELSE buffer[l]
  /\ buffer[l] = IF pc[l] = "outReady" \/ Delivered(l) THEN hand[l + 1] + 1 ELSE hand[l + 1]

LinkInv == \A l \in Links : /\ WaitInv(l)
                            /\ MutexInv(l)
                            /\ SignalInv(l)
                            /\ HandshakeInv(l)
                            /\ BufferInv(l)

\* An item works on the last buffer it has fetched.
GotInv ==
  /\ got[1] = <<>>
  /\ \A s \in ChainItems \ {1} : Len(got[s]) = hand[s]

IInv == /\ TypeOK
        /\ RoleInv
        /\ LinkInv
        /\ GotInv
        /\ InOrder

-----------------------------------------------------------------------------
(* Facts about items and links.                                            *)

\* The ends of the chain, and of one link: the sender is not the final item,
\* the receiver not the first.
LEMMA Chain ==
  /\ NumItems \in Nat /\ NumItems >= 2 /\ NumBuffers \in Nat
  /\ 1 \in ChainItems /\ NumItems \in ChainItems /\ NumItems # 1
BY ProtocolAssumption DEF ChainItems

\* Every item but the final one sends over a link, and every item but the
\* first receives over one.
LEMMA Ends ==
  ASSUME NEW s \in ChainItems
  PROVE  /\ s \in Nat /\ s >= 1 /\ s # s - 1
         /\ s # NumItems => s \in Links
         /\ s # 1 => s - 1 \in Links
BY ProtocolAssumption DEF ChainItems, Links

\* Where an item is on a link: at one of its two ends, which are items, or
\* elsewhere.
Place(s, l) ==
  /\ s \in Nat /\ s # s - 1 /\ (s - 1 = l <=> l + 1 = s)
  /\ l \in Nat /\ l # NumItems /\ l \in ChainItems
  /\ l + 1 \in Nat /\ l + 1 # 1 /\ l + 1 \in ChainItems /\ l # l + 1
  /\ l # Free /\ l + 1 # Free

LEMMA Places ==
  ASSUME NEW s \in ChainItems, NEW l \in Links
  PROVE  Place(s, l)
BY ProtocolAssumption DEF ChainItems, Links, Free, Place

\* An action of the sending side is one of an item that has a next one, an
\* action of the receiving side one of an item that has a previous one.
LEMMA Roles ==
  ASSUME RoleInv, NEW s \in ChainItems
  PROVE  /\ Sends(s) => s \in Links
         /\ Receives(s) => s # 1 /\ s - 1 \in Links
<1> USE Ends DEF RoleInv, Receiving, Sending
<1>1. ASSUME s = NumItems
      PROVE  ~Sends(s)
  BY <1>1 DEF Sends, InitCtrl, SetStart, SignalOut, WaitNext, NextReady, SetOut,
              SignalOutReady, Goto
<1>2. ASSUME s = 1
      PROVE  ~Receives(s)
  BY <1>2 DEF Receives, LockIn, WaitPrevStart, SignalIn, WaitPrev, PrevReady, GetNextBuffer,
              Goto
<1> QED  BY <1>1, <1>2

-----------------------------------------------------------------------------
(* Each part of the invariant is preserved by every step of an item.       *)

\* What an item has in hand stays below NumBuffers.
LEMMA HandType ==
  ASSUME TypeOK, NEW s \in ChainItems, Work(s)
  PROVE  hand' \in [ChainItems -> 0..NumBuffers]
<1>1. hand' = IF IsFirst(s) /\ hand[s] < NumBuffers
              THEN [hand EXCEPT ![s] = @ + 1] ELSE hand
  BY DEF Work
<1>2. hand \in [ChainItems -> 0..NumBuffers] /\ NumBuffers \in Nat
  BY ProtocolAssumption DEF TypeOK
<1> QED  BY <1>1, <1>2

LEMMA TypeStep ==
  ASSUME TypeOK, RoleInv, NEW s \in ChainItems, Item(s)
  PROVE  TypeOK'
<1> USE DEF TypeOK, Goto, PcValues
<1>1. CASE Work(s)         
  BY <1>1, HandType DEF Work, links
<1>2. CASE InitCtrl(s)     
  BY <1>2 DEF InitCtrl, Signals
<1>3. CASE SetStart(s)     
  BY <1>3 DEF SetStart, Signals
<1>4. CASE SignalOut(s)    
  BY <1>4 DEF SignalOut, Signals
<1>5. CASE WaitNext(s)     
  BY <1>5 DEF WaitNext, Free
<1>6. CASE NextReady(s)     BY <1>6 DEF NextReady
<1>7. CASE SetOut(s)        BY <1>7 DEF SetOut
<1>8. CASE SignalOutReady(s)
  BY <1>8 DEF SignalOutReady, Woken
<1>9. CASE LockIn(s)        BY <1>9 DEF LockIn
<1>10. CASE WaitPrevStart(s)
  BY <1>10 DEF WaitPrevStart, links
<1>11. CASE SignalIn(s)    
  BY <1>11 DEF SignalIn, Signals, OnSignal, Woken
<1>12. CASE WaitPrev(s)    
  BY <1>12, Roles DEF WaitPrev, Receives, Free
<1>13. CASE PrevReady(s)    BY <1>13 DEF PrevReady
<1>14. CASE GetNextBuffer(s)
  <2>1. s - 1 \in Links
    BY <1>14, Roles DEF Receives
  <2> QED  BY <1>14, <2>1 DEF GetNextBuffer, links
<1> QED  BY <1>1, <1>2, <1>3, <1>4, <1>5, <1>6, <1>7, <1>8, <1>9, <1>10, <1>11, <1>12, <1>13, <1>14 DEF Item, Sends, Receives

LEMMA RoleStep ==
  ASSUME TypeOK, RoleInv, NEW s \in ChainItems, Item(s)
  PROVE  RoleInv'
<1> USE Chain DEF TypeOK, RoleInv, Receiving, Sending, Goto
<1>1. CASE Work(s)         
  BY <1>1 DEF Work, IsFirst, IsFinal
<1>2. CASE InitCtrl(s)      BY <1>2 DEF InitCtrl
<1>3. CASE SetStart(s)     
  BY <1>3 DEF SetStart, IsFirst
<1>4. CASE SignalOut(s)     BY <1>4 DEF SignalOut
<1>5. CASE WaitNext(s)      BY <1>5 DEF WaitNext
<1>6. CASE NextReady(s)     BY <1>6 DEF NextReady
<1>7. CASE SetOut(s)        BY <1>7 DEF SetOut
<1>8. CASE SignalOutReady(s)
  BY <1>8 DEF SignalOutReady, IsFirst
<1>9. CASE LockIn(s)        BY <1>9 DEF LockIn
<1>10. CASE WaitPrevStart(s) BY <1>10 DEF WaitPrevStart
<1>11. CASE SignalIn(s)    
  BY <1>11 DEF SignalIn, OnSignal, IsFinal
<1>12. CASE WaitPrev(s)     BY <1>12 DEF WaitPrev
<1>13. CASE PrevReady(s)    BY <1>13 DEF PrevReady
<1>14. CASE GetNextBuffer(s) BY <1>14 DEF GetNextBuffer
<1> QED  BY <1>1, <1>2, <1>3, <1>4, <1>5, <1>6, <1>7, <1>8, <1>9, <1>10, <1>11, <1>12, <1>13, <1>14 DEF Item, Sends, Receives

\* The two sides of a link stay in step: the mutexes, the waits, the signal and
\* the handshake.
LEMMA ControlStep ==
  ASSUME TypeOK, RoleInv, NEW l \in Links,
         WaitInv(l), MutexInv(l), SignalInv(l), HandshakeInv(l),
         NEW s \in ChainItems, Item(s)
  PROVE  WaitInv(l)' /\ MutexInv(l)' /\ SignalInv(l)' /\ HandshakeInv(l)'
<1>0. Place(s, l)
  BY Places
<1> USE <1>0
    DEF Place, TypeOK, RoleInv, Receiving, Sending, Waiting, WaitInv, MutexInv, SignalInv,
        HandshakeInv, Requested, Released, Free, Goto, Woken
<1>1. CASE Work(s)
  <2> USE <1>1 DEF Work, links, IsFirst, IsFinal
  <2>1. WaitInv(l)'       OBVIOUS
  <2>2. MutexInv(l)'      OBVIOUS
  <2>3. SignalInv(l)'     OBVIOUS
  <2>4. HandshakeInv(l)'  OBVIOUS
  <2> QED  BY <2>1, <2>2, <2>3, <2>4
<1>2. CASE InitCtrl(s)
  <2> USE <1>2 DEF InitCtrl
  <2>1. WaitInv(l)'       OBVIOUS
  <2>2. MutexInv(l)'      OBVIOUS
  <2>3. SignalInv(l)'     OBVIOUS
  <2>4. HandshakeInv(l)'  OBVIOUS
  <2> QED  BY <2>1, <2>2, <2>3, <2>4
<1>3. CASE SetStart(s)
  <2> USE <1>3 DEF SetStart, IsFirst
  <2>1. WaitInv(l)'       OBVIOUS
  <2>2. MutexInv(l)'      OBVIOUS
  <2>3. SignalInv(l)'     OBVIOUS
  <2>4. HandshakeInv(l)'  OBVIOUS
  <2> QED  BY <2>1, <2>2, <2>3, <2>4
<1>4. CASE SignalOut(s)
  <2> USE <1>4 DEF SignalOut
  <2>1. WaitInv(l)'       OBVIOUS
  <2>2. MutexInv(l)'      OBVIOUS
  <2>3. SignalInv(l)'     OBVIOUS
  <2>4. HandshakeInv(l)'  OBVIOUS
  <2> QED  BY <2>1, <2>2, <2>3, <2>4
<1>5. CASE WaitNext(s)      BY <1>5 DEF WaitNext
<1>6. CASE NextReady(s)     BY <1>6 DEF NextReady
<1>7. CASE SetOut(s)        BY <1>7 DEF SetOut
<1>8. CASE SignalOutReady(s)
  BY <1>8 DEF SignalOutReady, IsFirst
<1>9. CASE LockIn(s)        BY <1>9 DEF LockIn
<1>10. CASE WaitPrevStart(s)
  BY <1>10 DEF WaitPrevStart, links
<1>11. CASE SignalIn(s)
  <2> USE <1>11 DEF SignalIn, OnSignal, IsFinal
  <2>1. WaitInv(l)'       OBVIOUS
  <2>2. MutexInv(l)'      OBVIOUS
  <2>3. SignalInv(l)'     OBVIOUS
  <2>4. HandshakeInv(l)'  OBVIOUS
  <2> QED  BY <2>1, <2>2, <2>3, <2>4
<1>12. CASE WaitPrev(s)     BY <1>12 DEF WaitPrev
<1>13. CASE PrevReady(s)    BY <1>13 DEF PrevReady
<1>14. CASE GetNextBuffer(s)
  BY <1>14 DEF GetNextBuffer, links
<1> QED  BY <1>1, <1>2, <1>3, <1>4, <1>5, <1>6, <1>7, <1>8, <1>9, <1>10, <1>11, <1>12, <1>13, <1>14 DEF Item, Sends, Receives

\* The sender's hand, the buffer of the link and the receiver's hand.
LEMMA BufferStep ==
  ASSUME TypeOK, RoleInv, LinkInv, NEW l \in Links, NEW s \in ChainItems, Item(s)
  PROVE  BufferInv(l)'
<1>0. Place(s, l)
  BY Places
<1>1. /\ BufferInv(l) /\ HandshakeInv(l) /\ WaitInv(l) /\ MutexInv(l)
      /\ hand[l] \in Nat /\ hand[l + 1] \in Nat /\ buffer[l] \in Nat
  BY <1>0, Chain DEF Place, TypeOK, LinkInv
<1> USE <1>0, <1>1
    DEF Place, TypeOK, RoleInv, Receiving, Sending, Waiting, WaitInv, MutexInv, HandshakeInv,
        Requested, Released, BufferInv, Delivered, Unsent, Free, Goto, Woken, IsFirst
<1>2. CASE Work(s)
  <2>1. CASE s = l
    <3>1. CASE IsFirst(s) /\ hand[s] < NumBuffers
      BY <1>2, <2>1, <3>1 DEF Work, links, IsFinal
    <3>2. CASE ~(IsFirst(s) /\ hand[s] < NumBuffers)
      <4>1. /\ hand' = hand /\ buffer' = buffer /\ dataWait' = dataWait
            /\ pc[l] = "work"
            /\ pc'[l] = IF IsFirst(s) /\ hand[s] = NumBuffers THEN "signalOut" ELSE "waitNext"
            /\ pc'[l + 1] = pc[l + 1]
        BY <1>2, <2>1, <3>2 DEF Work, links, IsFinal
      <4>2. IsFirst(s) => hand[s] = NumBuffers
        BY <2>1, <3>2, Chain
      <4> QED  BY <4>1, <4>2, <2>1
    <3> QED  BY <3>1, <3>2
  <2>2. CASE s = l + 1
    BY <1>2, <2>2 DEF Work, links, IsFinal
  <2>3. CASE s # l /\ s # l + 1
    BY <1>2, <2>3 DEF Work, links, IsFinal
  <2> QED  BY <2>1, <2>2, <2>3
<1>3. CASE InitCtrl(s)      BY <1>3 DEF InitCtrl
<1>4. CASE SetStart(s)      BY <1>4 DEF SetStart
<1>5. CASE SignalOut(s)     BY <1>5 DEF SignalOut
<1>6. CASE WaitNext(s)      BY <1>6 DEF WaitNext
<1>7. CASE NextReady(s)     BY <1>7 DEF NextReady
<1>8. CASE SetOut(s)        BY <1>8 DEF SetOut
<1>9. CASE SignalOutReady(s) BY <1>9 DEF SignalOutReady
<1>10. CASE LockIn(s)       BY <1>10 DEF LockIn
<1>11. CASE WaitPrevStart(s)
  BY <1>11 DEF WaitPrevStart, links
<1>12. CASE SignalIn(s)
  BY <1>12 DEF SignalIn, OnSignal, IsFinal
<1>13. CASE WaitPrev(s)     BY <1>13 DEF WaitPrev
<1>14. CASE PrevReady(s)    BY <1>14 DEF PrevReady
<1>15. CASE GetNextBuffer(s)
  <2>1. s # 1 /\ s - 1 \in Links /\ (s - 1) + 1 = s
    BY <1>15, Roles, Ends DEF Receives
  <2>2. /\ buffer[s - 1] = hand[s] + 1
        /\ pc' = [pc EXCEPT ![s] = "work"] /\ pc[s] = "getNext"
        /\ hand' = [hand EXCEPT ![s] = buffer[s - 1]]
        /\ buffer' = buffer /\ dataWait' = dataWait
    BY <1>15, <2>1 DEF GetNextBuffer, links, LinkInv
  <2>3. CASE s = l
    <3>1. pc'[l] = "work" /\ hand'[l] = hand[l] + 1 /\ pc'[l + 1] = pc[l + 1]
          /\ hand'[l + 1] = hand[l + 1]
      BY <2>2, <2>3
    <3> QED  BY <2>1, <2>2, <2>3, <3>1
  <2>4. CASE s = l + 1
    <3>1. pc'[l + 1] = "work" /\ hand'[l + 1] = buffer[l] /\ pc'[l] = pc[l] /\ hand'[l] = hand[l]
      BY <2>1, <2>2, <2>4
    <3> QED  BY <2>2, <2>4, <3>1
  <2>5. CASE s # l /\ s # l + 1
    BY <2>2, <2>5
  <2> QED  BY <2>3, <2>4, <2>5
<1> QED  BY <1>2, <1>3, <1>4, <1>5, <1>6, <1>7, <1>8, <1>9, <1>10, <1>11, <1>12, <1>13, <1>14, <1>15 DEF Item, Sends, Receives

\* The buffers that an item has fetched: the next one is hand[s] + 1.
LEMMA GotStep ==
  ASSUME IInv, NEW s \in ChainItems, Item(s)
  PROVE  GotInv' /\ InOrder'
<1> USE DEF IInv, GotInv, InOrder
<1>1. CASE Work(s)
  <2>1. got' = got /\ \A r \in ChainItems \ {1} : hand'[r] = hand[r]
    BY <1>1 DEF Work, TypeOK, IsFirst
  <2> QED  BY <2>1
<1>2. CASE GetNextBuffer(s)
  <2>1. s # 1 /\ s - 1 \in Links /\ (s - 1) + 1 = s
    BY <1>2, Roles, Ends DEF Receives
  <2>2. /\ buffer[s - 1] = hand[s] + 1
        /\ hand' = [hand EXCEPT ![s] = hand[s] + 1]
        /\ got' = [got EXCEPT ![s] = Append(@, hand[s] + 1)]
    <3>1. pc[s] = "getNext" /\ BufferInv(s - 1) /\ HandshakeInv(s - 1)
      BY <1>2, <2>1 DEF GetNextBuffer, Goto, LinkInv
    <3>2. buffer[s - 1] = hand[s] + 1
      BY <2>1, <3>1 DEF BufferInv, Delivered
    <3> QED  BY <1>2, <3>2 DEF GetNextBuffer
  <2>3. got \in [ChainItems -> Seq(0..NumBuffers)] /\ hand \in [ChainItems -> 0..NumBuffers]
    BY DEF TypeOK
  <2>4. /\ got[s] \in Seq(0..NumBuffers) /\ hand[s] \in Nat
        /\ Len(got[s]) = hand[s]
        /\ buffer[s - 1] \in 0..NumBuffers
    BY <2>1, <2>3, Chain DEF TypeOK
  <2>5. /\ got'[s] = Append(got[s], hand[s] + 1) /\ hand'[s] = hand[s] + 1
        /\ \A r \in ChainItems : r # s => got'[r] = got[r] /\ hand'[r] = hand[r]
    BY <2>2, <2>3
  <2>6. /\ Len(got'[s]) = hand'[s]
        /\ \A k \in 1..Len(got'[s]) : got'[s][k] = k
    BY <2>2, <2>4, <2>5
  <2> QED  BY <2>1, <2>5, <2>6, Chain
<1>3. CASE UNCHANGED <<hand, got>>
  BY <1>3
<1> QED
  BY <1>1, <1>2, <1>3 DEF Item, Sends, Receives, InitCtrl, SetStart, SignalOut, WaitNext,
     NextReady, SetOut, SignalOutReady, LockIn, WaitPrevStart, SignalIn, WaitPrev, PrevReady,
     links

-----------------------------------------------------------------------------
(* The invariant, and what it says.                                        *)

LEMMA InitIInv == Init => IInv
<1> SUFFICES ASSUME Init
             PROVE  IInv
  OBVIOUS
<1> USE Chain DEF Init
<1>1. TypeOK
  BY DEF TypeOK, PcValues, Signals, Free, Null
<1>2. RoleInv
  BY DEF RoleInv, Receiving, Sending, IsFinal
<1>3. ASSUME NEW l \in Links
      PROVE  /\ WaitInv(l) /\ MutexInv(l) /\ SignalInv(l) /\ HandshakeInv(l) /\ BufferInv(l)
  <2>1. /\ l \in ChainItems /\ l # NumItems /\ l + 1 \in ChainItems
    BY Places DEF Place
  <2>2. /\ pc[l] = "init" /\ pc[l + 1] \in {"init", "lockIn"}
        /\ ctrlWait[l] = "no" /\ dataWait[l] = "no" /\ ctrlMutex[l] = Free /\ dataMutex[l] = Free
        /\ signal[l] = "NoData" /\ buffer[l] = 0 /\ hand[l] = 0 /\ hand[l + 1] = 0
    BY <2>1 DEF IsFinal, Null
  <2> QED  BY <2>2 DEF WaitInv, MutexInv, SignalInv, HandshakeInv, BufferInv, Requested,
                       Released, Delivered, Unsent
<1>4. GotInv /\ InOrder
  BY DEF GotInv, InOrder
<1> QED  BY <1>1, <1>2, <1>3, <1>4 DEF IInv, LinkInv

\* The invariant holds of every behaviour, whatever the length of the chain
\* and the number of buffers.
THEOREM LinksInvariant == Spec => []IInv
<1>1. ASSUME IInv, [Next]_vars
      PROVE  IInv'
  <2>1. ASSUME NEW s \in ChainItems, Item(s)
        PROVE  IInv'
    <3>1. TypeOK' /\ RoleInv'
      BY <1>1, <2>1, TypeStep, RoleStep DEF IInv
    <3>2. ASSUME NEW l \in Links
          PROVE  /\ WaitInv(l)' /\ MutexInv(l)' /\ SignalInv(l)' /\ HandshakeInv(l)'
                 /\ BufferInv(l)'
      BY <1>1, <2>1, <3>2, ControlStep, BufferStep DEF IInv, LinkInv
    <3>3. GotInv' /\ InOrder'
      BY <1>1, <2>1, GotStep
    <3> QED  BY <3>1, <3>2, <3>3 DEF IInv, LinkInv
  <2>2. CASE UNCHANGED vars
    BY <1>1, <2>2 DEF vars, links, IInv, TypeOK, RoleInv, LinkInv, WaitInv, MutexInv, SignalInv,
       HandshakeInv, BufferInv, Requested, Released, Delivered, Unsent, GotInv, InOrder
  <2> QED  BY <1>1, <2>1, <2>2 DEF Next, Finished
<1> QED  BY <1>1, InitIInv, PTL DEF Spec

\* Every variable keeps its type; no item is ever at a place, and no connection
\* ever holds a value, that the protocol does not have.
THEOREM TypeCorrect == Spec => []TypeOK
<1>1. IInv => TypeOK
  BY DEF IInv
<1> QED  BY <1>1, LinksInvariant, PTL

\* Every item of a chain of any length fetches the buffers of the first one in
\* the order they were created, none lost and none twice (chain_set_out and
\* chain_get_next write and read the connection without a lock).
THEOREM BuffersInOrder == Spec => []InOrder
<1>1. IInv => InOrder
  BY DEF IInv
<1> QED  BY <1>1, LinksInvariant, PTL

\* When chain_wait_next_ready returns, the receiver has acknowledged the
\* signal, and it leaves the acknowledgement alone until the sender has
\* answered.
THEOREM SignalAcknowledged == Spec => []AckOnReady
<1>1. IInv => AckOnReady
  BY DEF IInv, LinkInv, SignalInv, Requested, Released, AckOnReady
<1> QED  BY <1>1, LinksInvariant, PTL

\* When chain_signal_in has CTRL's mutex the sender has stored START or QUIT,
\* although chain_wait_prev_start looked at the pointer without the mutex.
THEOREM SignalRead == Spec => []SignalIsSet
<1>1. ASSUME IInv
      PROVE  SignalIsSet
  <2> SUFFICES ASSUME NEW l \in Links, pc[l + 1] = "signalIn", ctrlMutex[l] = Free
               PROVE  signal[l] \in {"START", "ACK", "QUIT"}
    BY DEF SignalIsSet
  <2>1. /\ WaitInv(l) /\ MutexInv(l) /\ SignalInv(l) /\ HandshakeInv(l)
        /\ signal[l] \in Signals /\ l # Free
    BY <1>1, Places, Chain DEF IInv, LinkInv, TypeOK, Place
  <2> QED  BY <2>1 DEF WaitInv, MutexInv, SignalInv, HandshakeInv, Signals, Waiting
<1> QED  BY <1>1, LinksInvariant, PTL

\* chain_set_out writes the connection and chain_get_next reads it without a
\* lock, yet never while the other side does: the receiver waits, with DATA's
\* mutex given up, until the sender has set the buffer and signalled.
THEOREM BufferUnshared ==
  Spec => [](\A l \in Links : pc[l] = "setOut" => pc[l + 1] = "waitPrev" /\ dataWait[l] # "woken")
<1>1. IInv => \A l \in Links :
                pc[l] = "setOut" => pc[l + 1] = "waitPrev" /\ dataWait[l] # "woken"
  BY DEF IInv, LinkInv, HandshakeInv, Requested
<1> QED  BY <1>1, LinksInvariant, PTL

=============================================================================
