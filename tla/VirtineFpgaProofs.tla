-------------------------- MODULE VirtineFpgaProofs --------------------------
(***************************************************************************)
(* The card's safety, for a queue of any size, addresses of any width, any *)
(* number of CPUs, any batch factors and any register accesses a guest     *)
(* makes.                                                                  *)
(***************************************************************************)
EXTENDS VirtineFpga, RingQueueProofs

(* The parties that take locks are different ones, and the values that     *)
(* registers are read as are words.                                        *)
LEMMA CardConstants ==
  /\ Idle \in Access /\ Idle.op = "idle"
  /\ LowestBit \in Word /\ ZeroWord \in Word /\ AllOnes \in Word
  /\ \A a \in HostAccesses : a \in Access /\ a # Idle
BY BitsAssumption, HostAssumption
DEF Idle, Access, Register, LowestBit, Word, ZeroWord, AllOnes

(* Whatever a register is read as is a word.                               *)
LEMMA ReadValuesType ==
  ASSUME TypeOK, NEW r \in Register
  PROVE  ReadValues(r) \subseteq Word
<1>1. /\ rq.buffer[rq.head] \in Hwaddr
      /\ cq.buffer[0] \in Hwaddr
      /\ cq.buffer[cq.tail] \in Hwaddr
  BY QueueConstants DEF TypeOK, Queue
<1>2. \A h \in Hwaddr : h.lo \in Word /\ h.hi \in Word
  BY DEF Hwaddr
<1>3. BoolWord(is_card_processing) \in Word /\ BoolWord(doorbell) \in Word
  BY CardConstants DEF BoolWord
<1>4. snapshot_size \in Word /\ snapshot_addr \in Hwaddr /\ split_return \in Hwaddr
  BY DEF TypeOK
<1> QED
  BY <1>1, <1>2, <1>3, <1>4, CardConstants DEF ReadValues

(* A guest that writes BATCH_FACTOR_REG writes one of its batch factors.   *)
BatchWrites ==
  \A c \in CPUs : Writing(c, "BATCH_FACTOR") => vcpu[c].num \in BatchFactors

(* No handler, no step of the thread and no step of the removal leaves a   *)
(* variable of the card outside its type; the pointers of both queues stay *)
(* in their buffers whatever the guest writes.                             *)
LEMMA TypeStep ==
  TypeOK /\ BatchWrites /\ [Next]_vars => TypeOK' /\ BatchWrites'
<1> SUFFICES ASSUME TypeOK, BatchWrites, [Next]_vars
             PROVE  TypeOK' /\ BatchWrites'
  OBVIOUS
<1> USE DEF queueVars, flagVars, batchVars, snapshotVars, splitVars, threadVars,
            hostVars, msiVars, TypeOK
<1>0. ASSUME NEW c \in CPUs, vcpu' = [vcpu EXCEPT ![c] = Idle]
      PROVE  vcpu' \in [CPUs -> Access] /\ BatchWrites'
  BY <1>0, CardConstants DEF BatchWrites, Writing, Idle
<1>1. ASSUME NEW c \in CPUs, NEW a \in HostAccesses, MmioEnter(c, a)
      PROVE  TypeOK' /\ BatchWrites'
  <2>1. vcpu' = [vcpu EXCEPT ![c] = a] /\ a \in Access
    BY <1>1, CardConstants DEF MmioEnter
  <2>2. BatchWrites'
    BY <2>1, HostAssumption DEF BatchWrites, Writing
  <2> QED
    BY <1>1, <2>1, <2>2 DEF MmioEnter, Owner
<1>2. ASSUME NEW c \in CPUs, ReadRegister(c)
      PROVE  TypeOK' /\ BatchWrites'
  <2>1. vcpu[c].reg \in Register
    BY DEF Access
  <2>2. mmio_val' \in [CPUs -> Word]
    BY <1>2, <2>1, ReadValuesType DEF ReadRegister
  <2>3. split_return' \in Hwaddr
    BY <1>2, QueueConstants DEF ReadRegister
  <2> QED
    BY <1>0, <1>2, <2>2, <2>3 DEF ReadRegister, MmioReturn, Owner
<1>3. ASSUME NEW c \in CPUs, ReadCqHead(c)
      PROVE  TypeOK' /\ BatchWrites'
  <2>1. split_return' \in Hwaddr /\ cq' \in Queue
    BY <1>3, PopHeadType DEF ReadCqHead
  <2>2. mmio_val' \in [CPUs -> Word]
    BY <1>3, <2>1 DEF ReadCqHead, Hwaddr
  <2> QED
    BY <1>0, <1>3, <2>1, <2>2 DEF ReadCqHead, MmioReturn, Owner
<1>4. ASSUME NEW c \in CPUs, WriteRqTail(c)
      PROVE  TypeOK' /\ BatchWrites'
  <2>1. split_write' \in Hwaddr
    BY <1>4, CardConstants DEF WriteRqTail, Hwaddr, Access
  <2> QED
    BY <1>0, <1>4, <2>1 DEF WriteRqTail, MmioReturn, Owner
<1>5. ASSUME NEW c \in CPUs, WriteRqTailHi(c)
      PROVE  TypeOK' /\ BatchWrites'
  <2>1. split_write' \in Hwaddr
    BY <1>5 DEF WriteRqTailHi, Hwaddr, Access, Word
  <2>2. rq' \in Queue
    BY <1>5, <2>1, InsertTailType DEF WriteRqTailHi
  <2> QED
    BY <1>0, <1>5, <2>1, <2>2 DEF WriteRqTailHi, MmioReturn, Owner
<1>6. ASSUME NEW c \in CPUs, WriteBatchFactor(c)
      PROVE  TypeOK' /\ BatchWrites'
  BY <1>0, <1>6 DEF WriteBatchFactor, MmioReturn, Owner, BatchWrites
<1>7. ASSUME NEW c \in CPUs, WriteDoorbell(c)
      PROVE  TypeOK' /\ BatchWrites'
  <2>1. vcpu' \in [CPUs -> Access]
    BY <1>7 DEF WriteDoorbell, Access
  <2>2. BatchWrites'
    BY <1>7 DEF WriteDoorbell, BatchWrites, Writing, Access
  <2> QED
    BY <1>7, <2>1, <2>2 DEF WriteDoorbell
<1>8. ASSUME NEW c \in CPUs, SignalDoorbell(c)
      PROVE  TypeOK' /\ BatchWrites'
  BY <1>0, <1>8 DEF SignalDoorbell, CondSignal, MmioReturn, Owner, ThreadPC
<1>9. ASSUME NEW c \in CPUs, WriteSnapshot(c)
      PROVE  TypeOK' /\ BatchWrites'
  <2>1. vcpu[c].val \in Word
    BY DEF Access
  <2>2. snapshot_size' \in Word /\ snapshot_addr' \in Hwaddr
    BY <1>9, <2>1, CardConstants DEF WriteSnapshot, Hwaddr, Word
  <2> QED
    BY <1>0, <1>9, <2>2 DEF WriteSnapshot, MmioReturn, Owner
<1>10. ASSUME NEW c \in CPUs, WriteRefused(c)
       PROVE  TypeOK' /\ BatchWrites'
  BY <1>0, <1>10 DEF WriteRefused, MmioReturn, Owner
<1>11. CASE ThreadStep \/ SpuriousWakeup
  <2>1. BatchWrites'
    BY <1>11 DEF ThreadStep, ThreadLock, ThreadCheck, ThreadSleep, ThreadStart,
      ThreadClearDoorbell, ThreadPop, ThreadClean, ThreadFlag, ThreadThreshold,
      ThreadIrqLock, ThreadNotify, SpuriousWakeup, BatchWrites, Writing
  <2>2. CASE ThreadPop
    BY <2>1, <2>2, PopHeadType DEF ThreadPop, Owner, ThreadPC
  <2>3. CASE ThreadClean
    BY <2>1, <2>3, InsertTailType DEF ThreadClean, ThreadPC
  <2>4. CASE ThreadNotify
    BY <2>1, <2>4 DEF ThreadNotify, Owner, ThreadPC
  <2>5. CASE ThreadLock \/ ThreadCheck \/ ThreadSleep \/ SpuriousWakeup
    BY <2>1, <2>5 DEF ThreadLock, ThreadCheck, ThreadSleep, SpuriousWakeup,
      Owner, ThreadPC
  <2>6. CASE ThreadStart \/ ThreadClearDoorbell \/ ThreadFlag
    BY <2>1, <2>6 DEF ThreadStart, ThreadClearDoorbell, ThreadFlag, ThreadPC
  <2>7. CASE ThreadThreshold \/ ThreadIrqLock
    BY <2>1, <2>7 DEF ThreadThreshold, ThreadIrqLock, Owner, ThreadPC
  <2> QED
    BY <1>11, <2>2, <2>3, <2>4, <2>5, <2>6, <2>7 DEF ThreadStep
<1>12. CASE UnplugBegin \/ UnplugStep
  <2>1. BatchWrites'
    BY <1>12 DEF UnplugBegin, UnplugStep, UnplugStop, UnplugSignal, UnplugJoin,
      BatchWrites, Writing
  <2>2. CASE UnplugBegin
    BY <2>1, <2>2 DEF UnplugBegin, Owner, UnplugPC
  <2>3. CASE UnplugStop
    BY <2>1, <2>3 DEF UnplugStop, UnplugPC
  <2>4. CASE UnplugSignal
    BY <2>1, <2>4 DEF UnplugSignal, CondSignal, ThreadPC, UnplugPC
  <2>5. CASE UnplugJoin
    BY <2>1, <2>5 DEF UnplugJoin, Owner, UnplugPC
  <2> QED
    BY <1>12, <2>2, <2>3, <2>4, <2>5 DEF UnplugStep
<1>13. CASE TakeInterrupt \/ UNCHANGED vars
  BY <1>13 DEF TakeInterrupt, vars, BatchWrites, Writing
<1> QED
  BY <1>1, <1>2, <1>3, <1>4, <1>5, <1>6, <1>7, <1>8, <1>9, <1>10, <1>11, <1>12, <1>13
  DEF Next, MmioHandler

(* The state realize leaves has the types.                                 *)
LEMMA TypeInit == Init => TypeOK /\ BatchWrites
<1> SUFFICES ASSUME Init PROVE TypeOK /\ BatchWrites
  OBVIOUS
<1>1. vcpu \in [CPUs -> Access] /\ mmio_val \in [CPUs -> Word] /\ BatchWrites
  BY CardConstants DEF Init, BatchWrites, Writing
<1>2. snapshot_size \in Word /\ snapshot_addr \in Hwaddr
  BY SnapshotAssumption, QueueConstants DEF Init
<1>3. thread \in ThreadPC /\ unplug \in UnplugPC
  BY DEF Init, ThreadPC, UnplugPC
<1>4. rq \in Queue /\ cq \in Queue
  BY EmptyQueueType DEF Init
<1> QED
  BY <1>1, <1>2, <1>3, <1>4, QueueConstants DEF Init, TypeOK, Owner

(* Every run of the card keeps its types.                                  *)
THEOREM CardTypeOK == Spec => []TypeOK
<1>1. Init => TypeOK /\ BatchWrites
  BY TypeInit
<1>2. TypeOK /\ BatchWrites /\ [Next]_vars => (TypeOK /\ BatchWrites)'
  BY TypeStep
<1> QED
  BY <1>1, <1>2, PTL DEF Spec

-----------------------------------------------------------------------------
(* Locks. *)

(* A handler that returns gives the iothread lock back and nothing else.   *)
LEMMA HandlerReturns ==
  ASSUME TypeOK, LockDiscipline, NEW c \in CPUs, vcpu[c] # Idle, MmioReturn(c),
         thread' = thread \/ (thread = "waiting" /\ thread' = "woken"),
         UNCHANGED <<processing_lock, unplug>>
  PROVE  LockDiscipline'
<1>1. iothread_lock = c /\ iothread_lock' = NoOne /\ vcpu' = [vcpu EXCEPT ![c] = Idle]
  BY DEF LockDiscipline, MmioReturn
<1>2. \A d \in CPUs : vcpu'[d] = Idle
  BY <1>1 DEF LockDiscipline, TypeOK
<1>3. c # CleanupThread /\ c # MainLoop /\ NoOne \notin CPUs
  BY ActorsAssumption
<1>4. thread # "notify" /\ unplug \notin {"lock", "signal", "join"}
  BY <1>1, <1>3 DEF LockDiscipline
<1>5. processing_lock' = IF thread' \in InRound THEN CleanupThread ELSE NoOne
  BY DEF LockDiscipline, InRound
<1> QED
  BY <1>1, <1>2, <1>3, <1>4, <1>5, ActorsAssumption DEF LockDiscipline

(* Every step of every party keeps the lock discipline.                    *)
LEMMA LockStep ==
  TypeOK /\ LockDiscipline /\ [Next]_vars => LockDiscipline'
<1> SUFFICES ASSUME TypeOK, LockDiscipline, [Next]_vars
             PROVE  LockDiscipline'
  OBVIOUS
<1> USE DEF flagVars, threadVars, hostVars
<1>1. ASSUME NEW c \in CPUs, NEW a \in HostAccesses, MmioEnter(c, a)
      PROVE  LockDiscipline'
  <2>1. a # Idle
    BY CardConstants
  <2>2. /\ iothread_lock = NoOne /\ iothread_lock' = c
        /\ vcpu' = [vcpu EXCEPT ![c] = a]
        /\ UNCHANGED <<processing_lock, thread, unplug>>
    BY <1>1 DEF MmioEnter
  <2>3. \A d \in CPUs : vcpu[d] = Idle
    BY <2>2, ActorsAssumption DEF LockDiscipline
  <2>4. \A d \in CPUs : vcpu'[d] # Idle <=> d = c
    BY <2>1, <2>2, <2>3 DEF TypeOK
  <2> QED
    BY <2>2, <2>4, ActorsAssumption DEF LockDiscipline
<1>2. ASSUME NEW c \in CPUs, MmioHandler(c)
      PROVE  LockDiscipline'
  <2>1. vcpu[c] # Idle
    BY <1>2 DEF MmioHandler, ReadRegister, ReadCqHead, WriteRqTail, WriteRqTailHi,
      WriteBatchFactor, WriteDoorbell, SignalDoorbell, WriteSnapshot, WriteRefused,
      Reading, Writing, Idle
  <2>2. CASE WriteDoorbell(c)
    <3>1. vcpu' = [vcpu EXCEPT ![c].op = "signal"]
          /\ UNCHANGED <<processing_lock, iothread_lock, thread, unplug>>
      BY <2>2 DEF WriteDoorbell
    <3>2. vcpu'[c].op = "signal" /\ \A d \in CPUs \ {c} : vcpu'[d] = vcpu[d]
      BY <3>1 DEF TypeOK, Access
    <3>3. vcpu'[c] # Idle
      BY <3>2 DEF Idle
    <3> QED
      BY <2>1, <3>1, <3>2, <3>3 DEF LockDiscipline
  <2>3. CASE SignalDoorbell(c)
    BY <2>1, <2>3, HandlerReturns DEF SignalDoorbell, CondSignal
  <2>4. CASE ReadRegister(c) \/ ReadCqHead(c) \/ WriteRqTail(c) \/ WriteRqTailHi(c)
    BY <2>1, <2>4, HandlerReturns
    DEF ReadRegister, ReadCqHead, WriteRqTail, WriteRqTailHi
  <2>5. CASE WriteBatchFactor(c) \/ WriteSnapshot(c) \/ WriteRefused(c)
    BY <2>1, <2>5, HandlerReturns DEF WriteBatchFactor, WriteSnapshot, WriteRefused
  <2> QED
    BY <1>2, <2>2, <2>3, <2>4, <2>5 DEF MmioHandler
<1>3. CASE ThreadStep \/ SpuriousWakeup
  <2> USE DEF LockDiscipline, InRound
  <2>1. CASE ThreadLock \/ ThreadCheck \/ ThreadSleep \/ SpuriousWakeup
    BY <2>1 DEF ThreadLock, ThreadCheck, ThreadSleep, SpuriousWakeup
  <2>2. CASE ThreadStart \/ ThreadClearDoorbell \/ ThreadFlag
    BY <2>2 DEF ThreadStart, ThreadClearDoorbell, ThreadFlag
  <2>3. CASE ThreadPop
    BY <2>3 DEF ThreadPop
  <2>4. CASE ThreadClean
    BY <2>4 DEF ThreadClean
  <2>5. CASE ThreadThreshold
    BY <2>5 DEF ThreadThreshold
  <2>6. CASE ThreadIrqLock
    BY <2>6, ActorsAssumption DEF ThreadIrqLock
  <2>7. CASE ThreadNotify
    BY <2>7, ActorsAssumption DEF ThreadNotify
  <2> QED
    BY <1>3, <2>1, <2>2, <2>3, <2>4, <2>5, <2>6, <2>7 DEF ThreadStep
<1>4. CASE UnplugBegin \/ UnplugStep
  <2> USE DEF LockDiscipline, InRound
  <2>1. CASE UnplugBegin
    BY <2>1, ActorsAssumption DEF UnplugBegin
  <2>2. CASE UnplugStop
    BY <2>2, ActorsAssumption DEF UnplugStop
  <2>3. CASE UnplugSignal
    BY <2>3, ActorsAssumption DEF UnplugSignal, CondSignal
  <2>4. CASE UnplugJoin
    BY <2>4, ActorsAssumption DEF UnplugJoin
  <2> QED
    BY <1>4, <2>1, <2>2, <2>3, <2>4 DEF UnplugStep
<1>5. CASE TakeInterrupt \/ UNCHANGED vars
  BY <1>5 DEF TakeInterrupt, vars, LockDiscipline
<1> QED
  BY <1>1, <1>2, <1>3, <1>4, <1>5 DEF Next

(* Before the guest runs, every lock is free.                              *)
LEMMA LockInit == Init => LockDiscipline
BY ActorsAssumption DEF Init, LockDiscipline, InRound

(* The cleanup thread holds processing_lock through its whole round and    *)
(* nobody keeps it otherwise; handlers, interrupt and uninit exclude each  *)
(* other on the iothread lock.                                             *)
THEOREM CardLockDiscipline == Spec => []LockDiscipline
<1>1. TypeOK /\ LockDiscipline /\ [Next]_vars => LockDiscipline'
  BY LockStep
<1> QED
  BY <1>1, LockInit, CardTypeOK, PTL DEF Spec

-----------------------------------------------------------------------------
(* Removal. *)

(* The MSI capability is there until uninit starts, and when uninit has    *)
(* ended the thread has ended and no handler runs.                         *)
UninitInv ==
  /\ msi_ready <=> unplug = "plugged"
  /\ unplug \in UnplugPC
  /\ unplug = "gone" => thread = "exited" /\ \A c \in CPUs : vcpu[c] = Idle

(* An ended thread and a returned handler stay that way after uninit.      *)
LEMMA UninitStep ==
  LockDiscipline /\ UninitInv /\ [Next]_vars => UninitInv'
<1> SUFFICES ASSUME LockDiscipline, UninitInv, [Next]_vars
             PROVE  UninitInv'
  OBVIOUS
<1> USE DEF flagVars, threadVars, hostVars, msiVars
<1>1. ASSUME NEW c \in CPUs, NEW a \in HostAccesses, MmioEnter(c, a)
      PROVE  UninitInv'
  BY <1>1 DEF MmioEnter, UninitInv
<1>2. ASSUME NEW c \in CPUs, MmioHandler(c)
      PROVE  UninitInv'
  <2>1. vcpu[c] # Idle
    BY <1>2 DEF MmioHandler, ReadRegister, ReadCqHead, WriteRqTail, WriteRqTailHi,
      WriteBatchFactor, WriteDoorbell, SignalDoorbell, WriteSnapshot, WriteRefused,
      Reading, Writing, Idle
  <2>2. UNCHANGED <<msi_ready, unplug>>
    BY <1>2 DEF MmioHandler, ReadRegister, ReadCqHead, WriteRqTail, WriteRqTailHi,
      WriteBatchFactor, WriteDoorbell, SignalDoorbell, WriteSnapshot, WriteRefused
  <2>3. unplug # "gone"
    BY <2>1 DEF UninitInv
  <2> QED
    BY <2>2, <2>3 DEF UninitInv
<1>3. CASE ThreadStep \/ SpuriousWakeup
  <2>1. thread # "exited" /\ UNCHANGED <<msi_ready, unplug>>
    BY <1>3 DEF ThreadStep, ThreadLock, ThreadCheck, ThreadSleep, ThreadStart,
      ThreadClearDoorbell, ThreadPop, ThreadClean, ThreadFlag, ThreadThreshold,
      ThreadIrqLock, ThreadNotify, SpuriousWakeup
  <2> QED
    BY <2>1 DEF UninitInv
<1>4. CASE UnplugBegin \/ UnplugStop \/ UnplugSignal
  BY <1>4 DEF UnplugBegin, UnplugStop, UnplugSignal, UninitInv, UnplugPC
<1>5. CASE UnplugJoin
  <2>1. \A c \in CPUs : vcpu[c] = Idle
    BY <1>5, ActorsAssumption DEF UnplugJoin, LockDiscipline
  <2> QED
    BY <1>5, <2>1 DEF UnplugJoin, UninitInv, UnplugPC
<1>6. CASE TakeInterrupt \/ UNCHANGED vars
  BY <1>6 DEF TakeInterrupt, vars, UninitInv
<1> QED
  BY <1>1, <1>2, <1>3, <1>4, <1>5, <1>6 DEF Next, UnplugStep

(* Although msi_uninit comes first in uninit, the thread raises interrupts *)
(* only on an initialised MSI: it needs the iothread lock for it, which    *)
(* uninit holds until the thread has ended.                                *)
THEOREM CardNotifyOnlyWhileMsiReady == Spec => []NotifyOnlyWhileMsiReady
<1>1. Init => UninitInv
  BY DEF Init, UninitInv, UnplugPC
<1>2. LockDiscipline /\ UninitInv /\ [Next]_vars => UninitInv'
  BY UninitStep
<1>3. LockDiscipline /\ UninitInv => NotifyOnlyWhileMsiReady
  BY ActorsAssumption DEF LockDiscipline, UninitInv, UnplugPC, NotifyOnlyWhileMsiReady
<1> QED
  BY <1>1, <1>2, <1>3, CardLockDiscipline, PTL DEF Spec

(* Uninit destroys the lock and the condition variable when nobody uses    *)
(* them any more.                                                          *)
THEOREM CardUninitIsLast == Spec => []UninitIsLast
<1>1. Init => UninitInv
  BY DEF Init, UninitInv, UnplugPC
<1>2. LockDiscipline /\ UninitInv /\ [Next]_vars => UninitInv'
  BY UninitStep
<1>3. LockDiscipline /\ UninitInv => UninitIsLast
  BY DEF LockDiscipline, InRound, UninitInv, UninitIsLast
<1> QED
  BY <1>1, <1>2, <1>3, CardLockDiscipline, PTL DEF Spec

-----------------------------------------------------------------------------
(* Queues and batches. *)

(* The thread's places from the count of a cleaned virtine to the end of   *)
(* the interrupt that may follow it.                                       *)
Counted == {"flag", "threshold", "irq", "notify"}

(* The invariant behind the next theorems: CQ is well formed and receives  *)
(* only virtines, the count is below some batch factor except between a    *)
(* virtine and its interrupt, and until that interrupt CQ ends in it.      *)
QueueInv ==
  /\ CqWellFormed
  /\ thread \in {"clean"} \cup Counted => virtine_to_clean \in Virtine
  /\ \E n \in BatchFactors \cup {1} :
       IF thread \in Counted THEN num_virtines_cleaned_already <= n
       ELSE num_virtines_cleaned_already < n
  /\ thread \in Counted =>
       \/ Occupancy(cq) = NUM_POSSIBLE_VIRTINES
       \/ /\ Occupancy(cq) > 0
          /\ Contents(cq)[Occupancy(cq)] = virtine_to_clean

(* The steps that leave CQ, the count and the virtine alone.               *)
LEMMA QueueInvStable ==
  ASSUME QueueInv, UNCHANGED <<cq, num_virtines_cleaned_already, virtine_to_clean>>,
         (thread' \in Counted <=> thread \in Counted),
         thread' # "clean" \/ thread = "clean"
  PROVE  QueueInv'
BY DEF QueueInv, CqWellFormed, WellFormed, Distance, Occupancy, Contents, SlotAt

(* No step of the card breaks the queue invariant: between the thread's    *)
(* insertion and its interrupt, processing_lock keeps fetches out.         *)
LEMMA QueueStep ==
  TypeOK /\ LockDiscipline /\ QueueInv /\ [Next]_vars => QueueInv'
<1> SUFFICES ASSUME TypeOK, LockDiscipline, QueueInv, [Next]_vars
             PROVE  QueueInv'
  OBVIOUS
<1> USE DEF queueVars, flagVars, batchVars, snapshotVars, splitVars, threadVars,
            hostVars, msiVars
<1>0. num_virtines_cleaned_already \in Nat /\ batch_factor \in BatchFactors \cup {1}
      /\ BatchFactors \cup {1} \subseteq Nat
  BY HostAssumption DEF TypeOK
<1>1. ASSUME NEW c \in CPUs, NEW a \in HostAccesses, MmioEnter(c, a)
      PROVE  QueueInv'
  BY <1>1, QueueInvStable DEF MmioEnter
<1>2. ASSUME NEW c \in CPUs, ReadCqHead(c)
      PROVE  QueueInv'
  <2>1. thread \notin Counted /\ thread # "clean"
    BY <1>2, ActorsAssumption DEF ReadCqHead, LockDiscipline, InRound, Counted
  <2>2. cq' = PopHead(cq)
        /\ UNCHANGED <<thread, num_virtines_cleaned_already, virtine_to_clean>>
    BY <1>2 DEF ReadCqHead
  <2>3. WellFormed(cq')
    BY <2>2, WellFormedPreserved DEF QueueInv, CqWellFormed
  <2> QED
    BY <2>1, <2>2, <2>3 DEF QueueInv, CqWellFormed
<1>3. ASSUME NEW c \in CPUs, SignalDoorbell(c)
      PROVE  QueueInv'
  BY <1>3, QueueInvStable DEF SignalDoorbell, CondSignal, Counted
<1>4. ASSUME NEW c \in CPUs, MmioHandler(c), ~ReadCqHead(c), ~SignalDoorbell(c)
      PROVE  QueueInv'
  <2>1. UNCHANGED <<cq, num_virtines_cleaned_already, virtine_to_clean, thread>>
    BY <1>4 DEF MmioHandler, ReadRegister, WriteRqTail, WriteRqTailHi,
      WriteBatchFactor, WriteDoorbell, WriteSnapshot, WriteRefused
  <2> QED
    BY <2>1, QueueInvStable
<1>5. CASE ThreadPop
  <2>1. thread \notin Counted /\ thread' \notin Counted
    BY <1>5 DEF ThreadPop, Counted
  <2>2. thread' = "clean" => virtine_to_clean' \in Virtine
    BY <1>5, PopHeadType DEF ThreadPop, TypeOK, Virtine
  <2>3. UNCHANGED <<cq, num_virtines_cleaned_already>>
    BY <1>5 DEF ThreadPop
  <2> QED
    BY <2>1, <2>2, <2>3 DEF QueueInv, CqWellFormed
<1>6. CASE ThreadClean
  <2>1. /\ thread = "clean" /\ thread' = "flag"
        /\ num_virtines_cleaned_already' = num_virtines_cleaned_already + 1
        /\ cq' = InsertTail(cq, virtine_to_clean)
        /\ virtine_to_clean' = virtine_to_clean
    BY <1>6 DEF ThreadClean
  <2>2. virtine_to_clean \in Virtine /\ WellFormed(cq)
    BY <2>1 DEF QueueInv, CqWellFormed
  <2>3. WellFormed(cq')
    BY <2>1, <2>2, WellFormedPreserved
  <2>4. \E n \in BatchFactors \cup {1} : num_virtines_cleaned_already' <= n
    BY <2>1, <1>0 DEF QueueInv, Counted
  <2>5. Occupancy(cq) \in 0 .. NUM_POSSIBLE_VIRTINES
    BY <2>2, OccupancyType DEF WellFormed
  <2>6. \/ Occupancy(cq') = NUM_POSSIBLE_VIRTINES
        \/ /\ Occupancy(cq') > 0
           /\ Contents(cq')[Occupancy(cq')] = virtine_to_clean
    <3>1. CASE Occupancy(cq) < NUM_POSSIBLE_VIRTINES
      <4>1. Occupancy(cq') = Occupancy(cq) + 1
        BY <3>1, <2>1, <2>2, InsertTailEffect
      <4>2. Contents(cq') = Append(Contents(cq), virtine_to_clean)
        BY <3>1, <2>1, <2>2, InsertTailAppends, ContentsType
      <4>3. Contents(cq) \in Seq(Virtine) /\ Len(Contents(cq)) = Occupancy(cq)
        BY <2>2, ContentsType
      <4>4. Append(Contents(cq), virtine_to_clean)[Occupancy(cq) + 1]
              = virtine_to_clean
        BY <4>3, <2>2, AppendProperties
      <4> QED
        BY <4>1, <4>2, <4>4, <2>5
    <3>2. CASE ~(Occupancy(cq) < NUM_POSSIBLE_VIRTINES)
      <4>1. cq' = cq
        BY <3>2, <2>1, <2>2, ValueTests DEF InsertTail
      <4> QED
        BY <4>1, <3>2, <2>5, NumAssumption
    <3> QED
      BY <3>1, <3>2
  <2> QED
    BY <2>1, <2>2, <2>3, <2>4, <2>6 DEF QueueInv, CqWellFormed, Counted
<1>7. CASE ThreadThreshold
  <2>1. /\ thread = "threshold"
        /\ thread' = IF num_virtines_cleaned_already >= batch_factor
                     THEN "irq" ELSE "pop"
        /\ UNCHANGED <<cq, num_virtines_cleaned_already, virtine_to_clean>>
    BY <1>7 DEF ThreadThreshold
  <2>2. CASE num_virtines_cleaned_already >= batch_factor
    BY <2>1, <2>2, QueueInvStable DEF Counted
  <2>3. CASE ~(num_virtines_cleaned_already >= batch_factor)
    <3>1. num_virtines_cleaned_already < batch_factor
      BY <2>3, <1>0
    <3>2. thread' = "pop"
      BY <2>1, <2>3
    <3> QED
      BY <2>1, <3>1, <3>2, <1>0 DEF QueueInv, CqWellFormed, Counted
  <2> QED
    BY <2>2, <2>3
<1>8. CASE ThreadNotify
  <2>1. /\ thread' = "pop" /\ num_virtines_cleaned_already' = 0
        /\ UNCHANGED <<cq, virtine_to_clean>>
    BY <1>8 DEF ThreadNotify
  <2> QED
    BY <2>1, <1>0 DEF QueueInv, CqWellFormed, Counted
<1>9. CASE ThreadLock \/ ThreadCheck \/ ThreadSleep \/ SpuriousWakeup
           \/ ThreadStart \/ ThreadClearDoorbell \/ ThreadFlag \/ ThreadIrqLock
  <2>1. /\ UNCHANGED <<cq, num_virtines_cleaned_already, virtine_to_clean>>
        /\ thread' \in Counted <=> thread \in Counted
        /\ thread' # "clean"
    BY <1>9 DEF ThreadLock, ThreadCheck, ThreadSleep, SpuriousWakeup, ThreadStart,
      ThreadClearDoorbell, ThreadFlag, ThreadIrqLock, Counted
  <2> QED
    BY <2>1, QueueInvStable
<1>10. CASE UnplugBegin \/ UnplugStep
  <2>1. /\ UNCHANGED <<cq, num_virtines_cleaned_already, virtine_to_clean>>
        /\ thread' = thread \/ (thread = "waiting" /\ thread' = "woken")
    BY <1>10 DEF UnplugBegin, UnplugStep, UnplugStop, UnplugSignal, UnplugJoin,
      CondSignal
  <2> QED
    BY <2>1, QueueInvStable DEF Counted
<1>11. CASE TakeInterrupt \/ UNCHANGED vars
  BY <1>11, QueueInvStable DEF TakeInterrupt, vars
<1> QED
  BY <1>1, <1>2, <1>3, <1>4, <1>5, <1>6, <1>7, <1>8, <1>9, <1>10, <1>11
  DEF Next, MmioHandler, ThreadStep

(* The queue invariant in every state.                                     *)
LEMMA QueueInvariant == Spec => []QueueInv
<1>1. Init => QueueInv
  BY EmptyQueueWellFormed DEF Init, QueueInv, CqWellFormed, Counted
<1>2. TypeOK /\ LockDiscipline /\ QueueInv /\ [Next]_vars => QueueInv'
  BY QueueStep
<1> QED
  BY <1>1, <1>2, CardTypeOK, CardLockDiscipline, PTL DEF Spec

(* The complete queue has no hole, even if the guest hands in address 0.   *)
THEOREM CardCqWellFormed == Spec => []CqWellFormed
<1>1. QueueInv => CqWellFormed
  BY DEF QueueInv
<1> QED
  BY <1>1, QueueInvariant, PTL

(* The count of cleaned virtines stays within the batch factors written,   *)
(* whenever the guest writes them.                                         *)
THEOREM CardCleanedBound == Spec => []CleanedBound
<1>1. TypeOK /\ QueueInv => CleanedBound
  BY HostAssumption DEF TypeOK, QueueInv, CleanedBound
<1> QED
  BY <1>1, QueueInvariant, CardTypeOK, PTL

(* An interrupt never announces an empty queue.                            *)
THEOREM CardNotifyFindsWork == Spec => []NotifyFindsWork
<1>1. QueueInv => NotifyFindsWork
  BY DEF QueueInv, NotifyFindsWork, Counted
<1> QED
  BY <1>1, QueueInvariant, PTL
=============================================================================
