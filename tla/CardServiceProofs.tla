-------------------------- MODULE CardServiceProofs --------------------------
(***************************************************************************)
(* The card implements the cleanup service, for a queue of any size,       *)
(* addresses of any width, any number of CPUs and every guest that hands   *)
(* in no address below 4 GB: its writes to RQ_TAIL_OFFSET_REG + 4 are not  *)
(* 0, so no interleaving of two guests' halves makes address 0 of them.    *)
(***************************************************************************)
EXTENDS VirtineFpgaProofs

HighHalves ==
  \A a \in HostAccesses : a.op = "write" /\ a.reg = "RQ_TAIL_HI" => a.val # ZeroWord

(* What a write of a high half makes of split_write is an address.         *)
WholeAddresses == \A c \in CPUs : WriteRqTailHi(c) => split_write' \in Virtine

(* So the ready queue gets no hole.                                        *)
LEMMA ReadyQueueStep ==
  ASSUME TypeOK, WellFormed(rq), WholeAddresses, [Next]_vars
  PROVE  WellFormed(rq')
<1> USE DEF queueVars
<1>1. ASSUME NEW c \in CPUs, MmioHandler(c)
      PROVE  WellFormed(rq')
  <2>1. CASE WriteRqTailHi(c)
    <3>1. rq' = InsertTail(rq, split_write') /\ split_write' \in Virtine
      BY <2>1 DEF WriteRqTailHi, WholeAddresses
    <3> QED
      BY <3>1, WellFormedPreserved
  <2>2. CASE ~WriteRqTailHi(c)
    <3>1. rq' = rq
      BY <1>1, <2>2 DEF MmioHandler, ReadRegister, ReadCqHead, WriteRqTail,
        WriteBatchFactor, WriteDoorbell, SignalDoorbell, WriteSnapshot, WriteRefused
    <3> QED
      BY <3>1
  <2> QED
    BY <2>1, <2>2
<1>2. CASE ThreadPop
  BY <1>2, WellFormedPreserved DEF ThreadPop
<1>3. CASE (ThreadStep /\ ~ThreadPop) \/ SpuriousWakeup
  <2>1. rq' = rq
    BY <1>3 DEF ThreadStep, ThreadLock, ThreadCheck, ThreadSleep, ThreadStart,
      ThreadClearDoorbell, ThreadClean, ThreadFlag, ThreadThreshold,
      ThreadIrqLock, ThreadNotify, SpuriousWakeup
  <2> QED
    BY <2>1
<1>4. CASE UnplugBegin \/ UnplugStep \/ TakeInterrupt \/ UNCHANGED vars
           \/ \E c \in CPUs, a \in HostAccesses : MmioEnter(c, a)
  <2>1. rq' = rq
    BY <1>4 DEF UnplugBegin, UnplugStep, UnplugStop, UnplugSignal, UnplugJoin,
      TakeInterrupt, MmioEnter, vars
  <2> QED
    BY <2>1
<1> QED
  BY <1>1, <1>2, <1>3, <1>4 DEF Next

-----------------------------------------------------------------------------
(* Guests whose high halves are never 0. *)

NoLowAddress == \A c \in CPUs : Writing(c, "RQ_TAIL_HI") => vcpu[c].val # ZeroWord

ReadyInv == NoLowAddress /\ WellFormed(rq)

LEMMA HighHalvesAreWhole ==
  ASSUME TypeOK, NoLowAddress
  PROVE  WholeAddresses
<1> SUFFICES ASSUME NEW c \in CPUs, WriteRqTailHi(c)
             PROVE  split_write' \in Virtine
  BY DEF WholeAddresses
<1>1. vcpu[c].val \in Word /\ vcpu[c].val # ZeroWord
  BY DEF TypeOK, Access, NoLowAddress, WriteRqTailHi
<1>2. split_write' = [split_write EXCEPT !.hi = vcpu[c].val \cup @]
  BY DEF WriteRqTailHi
<1>3. split_write \in Hwaddr
  BY DEF TypeOK
<1>4. split_write' \in Hwaddr /\ split_write'.hi # ZeroWord
  BY <1>1, <1>2, <1>3 DEF Hwaddr, Word, ZeroWord
<1> QED
  BY <1>4 DEF Virtine, Zero

LEMMA NoLowAddressStep ==
  ASSUME HighHalves, TypeOK, NoLowAddress, [Next]_vars
  PROVE  NoLowAddress'
<1> USE DEF hostVars
<1>1. ASSUME NEW c \in CPUs, NEW a \in HostAccesses, MmioEnter(c, a)
      PROVE  NoLowAddress'
  BY <1>1, HighHalves DEF MmioEnter, TypeOK, NoLowAddress, Writing, HighHalves
<1>2. ASSUME NEW c \in CPUs, MmioHandler(c)
      PROVE  NoLowAddress'
  <2>1. vcpu' = [vcpu EXCEPT ![c] = Idle] \/ vcpu' = [vcpu EXCEPT ![c].op = "signal"]
    BY <1>2 DEF MmioHandler, ReadRegister, ReadCqHead, WriteRqTail, WriteRqTailHi,
      WriteBatchFactor, WriteDoorbell, SignalDoorbell, WriteSnapshot, WriteRefused,
      MmioReturn
  <2>2. \A d \in CPUs : Writing(d, "RQ_TAIL_HI")' => vcpu'[d] = vcpu[d]
    BY <2>1, CardConstants DEF TypeOK, Writing, Access
  <2> QED
    BY <2>2 DEF NoLowAddress, Writing
<1>3. CASE ThreadStep \/ SpuriousWakeup
  <2>1. vcpu' = vcpu
    BY <1>3 DEF ThreadStep, ThreadLock, ThreadCheck, ThreadSleep, ThreadStart,
      ThreadClearDoorbell, ThreadPop, ThreadClean, ThreadFlag, ThreadThreshold,
      ThreadIrqLock, ThreadNotify, SpuriousWakeup
  <2> QED
    BY <2>1 DEF NoLowAddress, Writing
<1>4. CASE UnplugBegin \/ UnplugStep \/ TakeInterrupt \/ UNCHANGED vars
  BY <1>4 DEF UnplugBegin, UnplugStep, UnplugStop, UnplugSignal, UnplugJoin,
    TakeInterrupt, vars, NoLowAddress, Writing
<1> QED
  BY <1>1, <1>2, <1>3, <1>4 DEF Next

LEMMA ReadyStep ==
  ASSUME HighHalves, TypeOK, ReadyInv, [Next]_vars
  PROVE  ReadyInv'
<1>1. NoLowAddress'
  BY NoLowAddressStep DEF ReadyInv
<1>2. WellFormed(rq')
  BY HighHalvesAreWhole, ReadyQueueStep DEF ReadyInv
<1>3. WellFormed(rq)'
  BY <1>2 DEF WellFormed, Distance, Occupancy
<1> QED
  BY <1>1, <1>3 DEF ReadyInv

LEMMA ReadyInvariant ==
  ASSUME HighHalves
  PROVE  Spec => []ReadyInv
<1>1. Init => ReadyInv
  BY EmptyQueueWellFormed, CardConstants DEF Init, ReadyInv, NoLowAddress, Writing, Idle
<1>2. TypeOK /\ ReadyInv /\ [Next]_vars => ReadyInv'
  BY HighHalves, ReadyStep
<1> QED
  BY <1>1, <1>2, CardTypeOK, PTL DEF Spec

-----------------------------------------------------------------------------
(* The refinement. *)

Cleaning == IF thread = "clean" THEN virtine_to_clean ELSE Zero

(* A step of the card that none of the service's variables can tell from   *)
(* standing still.                                                         *)
LEMMA ServiceStutters ==
  ASSUME rq' = rq, cq' = cq, split_return' = split_return, Cleaning' = Cleaning
  PROVE  UNCHANGED Service!vars
BY DEF Service!vars, Cleaning, Contents, Occupancy, SlotAt, Distance

(* Fetching the oldest clean virtine, or finding none. *)
LEMMA FetchImplements ==
  ASSUME WellFormed(cq), LockDiscipline, NEW c \in CPUs, ReadCqHead(c)
  PROVE  Service!Fetch \/ Service!Forget
<1>1. /\ cq' = PopHead(cq) /\ split_return' = HeadValue(cq)
      /\ rq' = rq /\ UNCHANGED <<thread, virtine_to_clean>>
  BY DEF ReadCqHead, threadVars
<1>2. Contents(rq)' = Contents(rq) /\ Cleaning' = Cleaning
  BY <1>1 DEF Cleaning, Contents, Occupancy, SlotAt, Distance
<1>3. CASE Contents(cq) = <<>>
  <2>1. HeadValue(cq) = Zero /\ cq' = cq
    BY <1>1, <1>3, PopHeadTakesFirst
  <2>2. Contents(cq)' = Contents(cq)
    BY <2>1 DEF Contents, Occupancy, SlotAt, Distance
  <2> QED
    BY <1>1, <1>2, <2>1, <2>2 DEF Service!Forget, Cleaning
<1>4. CASE Contents(cq) # <<>>
  <2>1. HeadValue(cq) = Head(Contents(cq)) /\ Contents(PopHead(cq)) = Tail(Contents(cq))
    BY <1>4, PopHeadTakesFirst
  <2>2. Contents(cq)' = Tail(Contents(cq))
    BY <1>1, <2>1
  <2> QED
    BY <1>1, <1>2, <1>4, <2>1, <2>2 DEF Service!Fetch, Cleaning
<1> QED
  BY <1>3, <1>4

(* Handing a virtine in, whether there is room for it or not. *)
LEMMA HandInImplements ==
  ASSUME WellFormed(rq), WholeAddresses, NEW c \in CPUs, WriteRqTailHi(c)
  PROVE  Service!HandIn(split_write') /\ split_write' \in Virtine
<1>1. split_write' \in Virtine /\ rq' = InsertTail(rq, split_write')
  BY DEF WriteRqTailHi, WholeAddresses
<1>2. cq' = cq /\ split_return' = split_return /\ UNCHANGED <<thread, virtine_to_clean>>
  BY DEF WriteRqTailHi, threadVars
<1>3. Contents(cq)' = Contents(cq) /\ Cleaning' = Cleaning
  BY <1>2 DEF Cleaning, Contents, Occupancy, SlotAt, Distance
<1>4. Contents(rq)' = IF Len(Contents(rq)) < NUM_POSSIBLE_VIRTINES
                      THEN Append(Contents(rq), split_write') ELSE Contents(rq)
  BY <1>1, InsertTailAppends
<1> QED
  BY <1>1, <1>2, <1>3, <1>4 DEF Service!HandIn, Cleaning

(* The thread takes the oldest dirty virtine, or ends its round. *)
LEMMA PopImplements ==
  ASSUME WellFormed(rq), ThreadPop
  PROVE  Service!BeginCleaning \/ UNCHANGED Service!vars
<1>1. /\ thread = "pop" /\ rq' = PopHead(rq) /\ virtine_to_clean' = HeadValue(rq)
      /\ thread' = IF HeadValue(rq) = Zero THEN "lock" ELSE "clean"
      /\ cq' = cq /\ split_return' = split_return
  BY DEF ThreadPop, splitVars
<1>2. Cleaning = Zero /\ Cleaning' = HeadValue(rq)
  BY <1>1 DEF Cleaning
<1>3. CASE Contents(rq) = <<>>
  <2>1. HeadValue(rq) = Zero /\ rq' = rq
    BY <1>1, <1>3, PopHeadTakesFirst
  <2> QED
    BY <1>1, <1>2, <2>1, ServiceStutters
<1>4. CASE Contents(rq) # <<>>
  <2>1. HeadValue(rq) = Head(Contents(rq)) /\ Contents(PopHead(rq)) = Tail(Contents(rq))
    BY <1>4, PopHeadTakesFirst
  <2>2. Contents(rq)' = Tail(Contents(rq))
    BY <1>1, <2>1
  <2>3. Contents(cq)' = Contents(cq)
    BY <1>1 DEF Contents, Occupancy, SlotAt, Distance
  <2> QED
    BY <1>1, <1>2, <1>4, <2>1, <2>2, <2>3 DEF Service!BeginCleaning, Cleaning
<1> QED
  BY <1>3, <1>4

(* A cleaned virtine is clean for the guest, or given up where CQ is full. *)
LEMMA CleanImplements ==
  ASSUME QueueInv, ThreadClean
  PROVE  Service!FinishCleaning
<1>1. /\ thread = "clean" /\ thread' = "flag"
      /\ cq' = InsertTail(cq, virtine_to_clean)
      /\ rq' = rq /\ split_return' = split_return
  BY DEF ThreadClean, splitVars
<1>2. virtine_to_clean \in Virtine /\ WellFormed(cq)
  BY <1>1 DEF QueueInv, CqWellFormed
<1>3. Cleaning = virtine_to_clean /\ Cleaning # Zero /\ Cleaning' = Zero
  BY <1>1, <1>2 DEF Cleaning, Virtine
<1>4. Contents(cq)' = IF Len(Contents(cq)) < NUM_POSSIBLE_VIRTINES
                      THEN Append(Contents(cq), virtine_to_clean) ELSE Contents(cq)
  BY <1>1, <1>2, InsertTailAppends
<1>5. Contents(rq)' = Contents(rq)
  BY <1>1 DEF Contents, Occupancy, SlotAt, Distance
<1> QED
  BY <1>1, <1>3, <1>4, <1>5 DEF Service!FinishCleaning, Cleaning

(* Fetching the high half makes split_return forget the address. *)
LEMMA ReadImplements ==
  ASSUME NEW c \in CPUs, ReadRegister(c)
  PROVE  Service!Forget \/ UNCHANGED Service!vars
<1>1. /\ rq' = rq /\ cq' = cq /\ UNCHANGED <<thread, virtine_to_clean>>
      /\ split_return' = Zero \/ split_return' = split_return
  BY DEF ReadRegister, queueVars, threadVars
<1>2. Contents(rq)' = Contents(rq) /\ Contents(cq)' = Contents(cq) /\ Cleaning' = Cleaning
  BY <1>1 DEF Cleaning, Contents, Occupancy, SlotAt, Distance
<1>3. CASE split_return' = Zero
  BY <1>1, <1>2, <1>3 DEF Service!Forget, Cleaning
<1>4. CASE split_return' = split_return
  BY <1>1, <1>2, <1>4, ServiceStutters
<1> QED
  BY <1>1, <1>3, <1>4

LEMMA ServiceInit == Init => Service!Init
<1> SUFFICES ASSUME Init PROVE Service!Init
  OBVIOUS
<1>1. Contents(EmptyQueue) = <<>>
  BY EmptyQueueWellFormed, ContentsType, EmptySeq
<1> QED
  BY <1>1 DEF Init, Service!Init

LEMMA ServiceStep ==
  ASSUME LockDiscipline, QueueInv, WellFormed(rq), WholeAddresses, [Next]_vars
  PROVE  [Service!Next]_(Service!vars)
<1> USE DEF queueVars, splitVars, threadVars
<1>1. ASSUME NEW c \in CPUs, MmioHandler(c)
      PROVE  [Service!Next]_(Service!vars)
  <2>1. CASE ReadRegister(c)
    BY <2>1, ReadImplements DEF Service!Next
  <2>2. CASE ReadCqHead(c)
    BY <2>2, FetchImplements DEF Service!Next, QueueInv, CqWellFormed
  <2>3. CASE WriteRqTailHi(c)
    BY <2>3, HandInImplements DEF Service!Next
  <2>4. CASE WriteRqTail(c) \/ WriteBatchFactor(c) \/ WriteDoorbell(c)
             \/ WriteSnapshot(c) \/ WriteRefused(c)
    BY <2>4, ServiceStutters DEF WriteRqTail, WriteBatchFactor, WriteDoorbell,
      WriteSnapshot, WriteRefused, Cleaning
  <2>5. CASE SignalDoorbell(c)
    BY <2>5, ServiceStutters DEF SignalDoorbell, CondSignal, Cleaning
  <2> QED
    BY <1>1, <2>1, <2>2, <2>3, <2>4, <2>5 DEF MmioHandler
<1>2. CASE ThreadPop
  BY <1>2, PopImplements DEF Service!Next
<1>3. CASE ThreadClean
  BY <1>3, CleanImplements DEF Service!Next
<1>4. CASE (ThreadStep /\ ~ThreadPop /\ ~ThreadClean) \/ SpuriousWakeup
  <2>1. /\ rq' = rq /\ cq' = cq /\ split_return' = split_return
        /\ thread # "clean" /\ thread' # "clean"
    BY <1>4 DEF ThreadStep, ThreadLock, ThreadCheck, ThreadSleep, ThreadStart,
      ThreadClearDoorbell, ThreadFlag, ThreadThreshold, ThreadIrqLock,
      ThreadNotify, SpuriousWakeup
  <2> QED
    BY <2>1, ServiceStutters DEF Cleaning
<1>5. ASSUME NEW c \in CPUs, NEW a \in HostAccesses, MmioEnter(c, a)
      PROVE  [Service!Next]_(Service!vars)
  BY <1>5, ServiceStutters DEF MmioEnter, Cleaning
<1>6. CASE UnplugBegin \/ UnplugStep \/ TakeInterrupt \/ UNCHANGED vars
  BY <1>6, ServiceStutters DEF UnplugBegin, UnplugStep, UnplugStop, UnplugSignal,
    UnplugJoin, CondSignal, TakeInterrupt, vars, Cleaning
<1> QED
  BY <1>1, <1>2, <1>3, <1>4, <1>5, <1>6 DEF Next

(* virtine_fpga.c 81-95 and 326-397: seen by such a guest, whatever the    *)
(* interleaving of handlers, thread and removal, virtines are cleaned and  *)
(* come back in the order they were handed in, once for each time, and get *)
(* lost only where one of the queues is full.                              *)
THEOREM CardImplementsService ==
  ASSUME HighHalves
  PROVE  Spec => ImplementsService
<1>1. Init => Service!Init
  BY ServiceInit
<1>2. TypeOK /\ LockDiscipline /\ QueueInv /\ ReadyInv /\ [Next]_vars
        => [Service!Next]_(Service!vars)
  BY ServiceStep, HighHalvesAreWhole DEF ReadyInv
<1>3. Spec => []ReadyInv
  BY HighHalves, ReadyInvariant
<1> QED
  BY <1>1, <1>2, <1>3, CardTypeOK, CardLockDiscipline, QueueInvariant, PTL
  DEF Spec, ImplementsService, Service!Spec
=============================================================================
