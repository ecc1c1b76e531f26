---------------------------- MODULE ChainProtocol ----------------------------
(***************************************************************************)
(* The CTRL / DATA connections through which the items of one chain pass   *)
(* buffers (the chain_* functions of mith/src/mith_lib.c), used in the     *)
(* order mith/include/mith_sync.h gives: item s feeds item s+1 over link   *)
(* s.  "A owns the mutex on CTRL, and B owns the mutex on DATA": each side *)
(* gives its mutex up only while it waits on the condition of its own      *)
(* connection, so the other side's lock succeeds only when it is waited    *)
(* for.                                                                    *)
(*                                                                         *)
(* A function that locks, works and unlocks is one step, enabled when the  *)
(* mutex is free: what it touches is touched by nobody else without it.    *)
(***************************************************************************)
EXTENDS Naturals, Sequences

CONSTANTS
  NumItems,   \* the items of the chain
  NumBuffers  \* what the first item passes down before it quits

ASSUME ProtocolAssumption ==
  /\ NumItems \in Nat /\ NumItems >= 2
  /\ NumBuffers \in Nat

ChainItems == 1..NumItems
Links      == 1..(NumItems - 1)

Free == 0       \* nobody holds the mutex
Null == 0       \* connection->data of a DATA connection at reset

\* *connection->data of a CTRL connection; NoData while connection->data is
\* NULL, INVALID for memory that th_malloc has just returned.
Signals == {"NoData", "INVALID", "START", "ACK", "QUIT"}

VARIABLES
  ctrlMutex, dataMutex,  \* the item that holds the mutex of each connection
  ctrlWait, dataWait,    \* the side that waits: "no", "waits" or "woken"
  signal,                \* the CTRL connection's data
  buffer,                \* the DATA connection's data
  pc,                    \* where each item is
  hand,                  \* the buffer an item works on
  got                    \* history: the buffers each item has fetched

links == <<ctrlMutex, dataMutex, ctrlWait, dataWait, signal, buffer>>
vars  == <<links, pc, hand, got>>

PcValues == {"init", "start", "lockIn", "waitStart", "signalIn", "waitPrev",
             "getNext", "work", "waitNext", "setOut", "outReady", "signalOut",
             "waitQuit", "done"}

TypeOK ==
  /\ ctrlMutex \in [Links -> ChainItems \cup {Free}]
  /\ dataMutex \in [Links -> ChainItems \cup {Free}]
  /\ ctrlWait \in [Links -> {"no", "waits", "woken"}]
  /\ dataWait \in [Links -> {"no", "waits", "woken"}]
  /\ signal \in [Links -> Signals]
  /\ buffer \in [Links -> 0..NumBuffers]
  /\ pc \in [ChainItems -> PcValues]
  /\ hand \in [ChainItems -> 0..NumBuffers]
  /\ got \in [ChainItems -> Seq(0..NumBuffers)]

IsFirst(s) == s = 1
IsFinal(s) == s = NumItems

\* What mith_wl_reset leaves of the connections of a chain instance.
Init ==
  /\ ctrlMutex = [l \in Links |-> Free]
  /\ dataMutex = [l \in Links |-> Free]
  /\ ctrlWait  = [l \in Links |-> "no"]
  /\ dataWait  = [l \in Links |-> "no"]
  /\ signal    = [l \in Links |-> "NoData"]
  /\ buffer    = [l \in Links |-> Null]
  /\ pc        = [s \in ChainItems |-> IF IsFinal(s) THEN "lockIn" ELSE "init"]
  /\ hand      = [s \in ChainItems |-> 0]
  /\ got       = [s \in ChainItems |-> <<>>]

Goto(s, from, to) ==
  /\ pc[s] = from
  /\ pc' = [pc EXCEPT ![s] = to]

-----------------------------------------------------------------------------
(* al_cond_wait in three parts: it gives the mutex up, is woken, and has   *)
(* the mutex again.  Only one side ever waits on a connection.             *)

Woken(w, l) == IF w[l] = "waits" THEN [w EXCEPT ![l] = "woken"] ELSE w

\* A wake-up that nobody signalled (POSIX allows it).
SpuriousWakeup(l) ==
  /\ \/ ctrlWait[l] = "waits" /\ ctrlWait' = Woken(ctrlWait, l) /\ UNCHANGED dataWait
     \/ dataWait[l] = "waits" /\ dataWait' = Woken(dataWait, l) /\ UNCHANGED ctrlWait
  /\ UNCHANGED <<ctrlMutex, dataMutex, signal, buffer, pc, hand, got>>

-----------------------------------------------------------------------------
(* The sending side of item s, over link s.                                *)

\* Mutant: the mutex is not kept.
InitCtrlUnlocked(s) ==
  /\ Goto(s, "init", "start")
  /\ ctrlMutex[s] = Free
  /\ signal' = [signal EXCEPT ![s] = "INVALID"]
  /\ UNCHANGED <<ctrlMutex, dataMutex, ctrlWait, dataWait, buffer, hand, got>>

\* chain_init_ctrl: lock, and allocate the signal.
InitCtrl(s) ==
  /\ Goto(s, "init", "start")
  /\ ctrlMutex[s] = Free
  /\ ctrlMutex' = [ctrlMutex EXCEPT ![s] = s]
  /\ signal' = [signal EXCEPT ![s] = "INVALID"]
  /\ UNCHANGED <<dataMutex, ctrlWait, dataWait, buffer, hand, got>>

\* The rest of it: "unlocking the mutex for this channel only happens on a
\* wait!"
SetStart(s) ==
  /\ Goto(s, "start", IF IsFirst(s) THEN "work" ELSE "lockIn")
  /\ signal' = [signal EXCEPT ![s] = "START"]
  /\ UNCHANGED <<ctrlMutex, dataMutex, ctrlWait, dataWait, buffer, hand, got>>

\* The first item creates a buffer, or finds that there is none left; the
\* others process the one they have.
Work(s) ==
  /\ Goto(s, "work", IF IsFinal(s) THEN "signalIn"
                     ELSE IF IsFirst(s) /\ hand[s] = NumBuffers THEN "signalOut"
                     ELSE "waitNext")
  /\ hand' = IF IsFirst(s) /\ hand[s] < NumBuffers
             THEN [hand EXCEPT ![s] = @ + 1] ELSE hand
  /\ UNCHANGED <<links, got>>

\* chain_signal_out(QUIT).
SignalOut(s) ==
  /\ Goto(s, "signalOut", "waitQuit")
  /\ signal' = [signal EXCEPT ![s] = "QUIT"]
  /\ UNCHANGED <<ctrlMutex, dataMutex, ctrlWait, dataWait, buffer, hand, got>>

\* chain_wait_next_ready: gives the CTRL mutex up.
WaitNext(s) ==
  /\ pc[s] \in {"waitNext", "waitQuit"} /\ ctrlWait[s] = "no"
  /\ ctrlMutex' = [ctrlMutex EXCEPT ![s] = Free]
  /\ ctrlWait' = [ctrlWait EXCEPT ![s] = "waits"]
  /\ UNCHANGED <<dataMutex, dataWait, signal, buffer, pc, hand, got>>

\* It returns with the CTRL mutex.
NextReady(s) ==
  /\ \/ Goto(s, "waitNext", "setOut")
     \/ Goto(s, "waitQuit", "done")
  /\ ctrlWait[s] = "woken" /\ ctrlMutex[s] = Free
  /\ ctrlWait' = [ctrlWait EXCEPT ![s] = "no"]
  /\ ctrlMutex' = [ctrlMutex EXCEPT ![s] = s]
  /\ UNCHANGED <<dataMutex, dataWait, signal, buffer, hand, got>>

\* chain_set_out, without a lock.
SetOut(s) ==
  /\ Goto(s, "setOut", "outReady")
  /\ buffer' = [buffer EXCEPT ![s] = hand[s]]
  /\ UNCHANGED <<ctrlMutex, dataMutex, ctrlWait, dataWait, signal, hand, got>>

\* Mutant: the condition is signalled without its mutex.
SignalOutReadyUnlocked(s) ==
  /\ Goto(s, "outReady", IF IsFirst(s) THEN "work" ELSE "signalIn")
  /\ dataWait' = Woken(dataWait, s)
  /\ UNCHANGED <<ctrlMutex, dataMutex, ctrlWait, signal, buffer, hand, got>>

\* chain_signal_out_ready: lock, signal, unlock.
SignalOutReady(s) ==
  /\ Goto(s, "outReady", IF IsFirst(s) THEN "work" ELSE "signalIn")
  /\ dataMutex[s] = Free
  /\ dataWait' = Woken(dataWait, s)
  /\ UNCHANGED <<ctrlMutex, dataMutex, ctrlWait, signal, buffer, hand, got>>

-----------------------------------------------------------------------------
(* The receiving side of item s, over link s - 1.                          *)

\* chain_lock_in.
LockIn(s) ==
  /\ Goto(s, "lockIn", "waitStart")
  /\ dataMutex[s - 1] = Free
  /\ dataMutex' = [dataMutex EXCEPT ![s - 1] = s]
  /\ UNCHANGED <<ctrlMutex, ctrlWait, dataWait, signal, buffer, hand, got>>

\* chain_wait_prev_start: leaves its busy wait once the pointer is set.
WaitPrevStart(s) ==
  /\ Goto(s, "waitStart", "signalIn")
  /\ signal[s - 1] # "NoData"
  /\ UNCHANGED <<links, hand, got>>

\* What the receiver does with a signal.
OnSignal(s) == IF signal[s - 1] # "QUIT" THEN "waitPrev"
               ELSE IF IsFinal(s) THEN "done" ELSE "signalOut"

\* Mutant: the buffer is fetched without waiting for it.
SignalInNoWait(s) ==
  /\ Goto(s, "signalIn", IF OnSignal(s) = "waitPrev" THEN "getNext" ELSE OnSignal(s))
  /\ ctrlMutex[s - 1] = Free
  /\ signal' = [signal EXCEPT ![s - 1] = "ACK"]
  /\ ctrlWait' = Woken(ctrlWait, s - 1)
  /\ UNCHANGED <<ctrlMutex, dataMutex, dataWait, buffer, hand, got>>

\* Mutant: no acknowledgement is left in the signal.
SignalInNoAck(s) ==
  /\ Goto(s, "signalIn", OnSignal(s))
  /\ ctrlMutex[s - 1] = Free
  /\ ctrlWait' = Woken(ctrlWait, s - 1)
  /\ UNCHANGED <<ctrlMutex, dataMutex, dataWait, signal, buffer, hand, got>>

\* chain_signal_in: lock, read the signal, ACK, signal, unlock.
SignalIn(s) ==
  /\ Goto(s, "signalIn", OnSignal(s))
  /\ ctrlMutex[s - 1] = Free
  /\ signal' = [signal EXCEPT ![s - 1] = "ACK"]
  /\ ctrlWait' = Woken(ctrlWait, s - 1)
  /\ UNCHANGED <<ctrlMutex, dataMutex, dataWait, buffer, hand, got>>

\* chain_wait_prev_ready: gives the DATA mutex up.
WaitPrev(s) ==
  /\ pc[s] = "waitPrev" /\ dataWait[s - 1] = "no"
  /\ dataMutex' = [dataMutex EXCEPT ![s - 1] = Free]
  /\ dataWait' = [dataWait EXCEPT ![s - 1] = "waits"]
  /\ UNCHANGED <<ctrlMutex, ctrlWait, signal, buffer, pc, hand, got>>

\* It returns with the DATA mutex.
PrevReady(s) ==
  /\ Goto(s, "waitPrev", "getNext")
  /\ dataWait[s - 1] = "woken" /\ dataMutex[s - 1] = Free
  /\ dataWait' = [dataWait EXCEPT ![s - 1] = "no"]
  /\ dataMutex' = [dataMutex EXCEPT ![s - 1] = s]
  /\ UNCHANGED <<ctrlMutex, ctrlWait, signal, buffer, hand, got>>

\* chain_get_next.
GetNextBuffer(s) ==
  /\ Goto(s, "getNext", "work")
  /\ hand' = [hand EXCEPT ![s] = buffer[s - 1]]
  /\ got' = [got EXCEPT ![s] = Append(@, buffer[s - 1])]
  /\ UNCHANGED links

-----------------------------------------------------------------------------

Sends(s) ==
  \/ InitCtrl(s)
  \/ SetStart(s)
  \/ SignalOut(s)
  \/ WaitNext(s)
  \/ NextReady(s)
  \/ SetOut(s)
  \/ SignalOutReady(s)

Receives(s) ==
  \/ LockIn(s)
  \/ WaitPrevStart(s)
  \/ SignalIn(s)
  \/ WaitPrev(s)
  \/ PrevReady(s)
  \/ GetNextBuffer(s)

Item(s) == Work(s) \/ Sends(s) \/ Receives(s)

\* All items have finished; the mutexes stay as they are, the instance is
\* not used again.
Finished == (\A s \in ChainItems : pc[s] = "done") /\ UNCHANGED vars

Next ==
  \/ \E s \in ChainItems : Item(s)
  \/ Finished

Spec == Init /\ [][Next]_vars

\* Every item that can go on does.  A mutex is never contended for long: only
\* two items use it and each gives it up at its next wait.
FairSpec == Spec /\ \A s \in ChainItems : WF_vars(Item(s))

\* The same with condition waits as POSIX defines them.
SpuriousNext == Next \/ \E l \in Links : SpuriousWakeup(l)

SpuriousSpec == Init /\ [][SpuriousNext]_vars

-----------------------------------------------------------------------------
(* Properties.                                                             *)

\* Every item fetches the buffers in the order they were created, none lost,
\* none twice, and none before it was there ("now the prev owner signals that
\* the data is ready", mith_lib.c:590).
InOrder == \A s \in ChainItems : \A k \in 1..Len(got[s]) : got[s][k] = k

\* The sender leaves chain_wait_next_ready when the receiver has read the
\* signal: "at this point the data signal should be ACK" (mith_lib.c:656).
AckOnReady ==
  \A s \in Links :
    pc[s] \in {"setOut", "outReady", "done"} => signal[s] = "ACK"

\* The receiver never reads the signal before START is in it, although it
\* looks at the pointer without the mutex (mith_lib.c:601) and chain_init_ctrl
\* stores the pointer first.
SignalIsSet ==
  \A l \in Links :
    pc[l + 1] = "signalIn" /\ ctrlMutex[l] = Free => signal[l] \in {"START", "ACK", "QUIT"}

\* The whole chain gets through, and every item has seen every buffer.
ChainCompletes ==
  <>(\A s \in ChainItems : pc[s] = "done" /\ (IsFirst(s) \/ Len(got[s]) = NumBuffers))

=============================================================================
