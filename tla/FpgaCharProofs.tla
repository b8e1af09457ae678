--------------------------- MODULE FpgaCharProofs ---------------------------
(***************************************************************************)
(* Driver and card together, for any number of processes, whatever they    *)
(* call, and a queue of any size.                                          *)
(***************************************************************************)
EXTENDS FpgaChar, CardServiceProofs, FiniteSetTheorems

LEMMA DriverConstants ==
  /\ CPUs = Processes \cup {Isr} /\ Isr \notin Processes
  /\ \A p \in Processes : Calls[p] \subseteq Call
  /\ \A v \in Virtines : v \in Virtine
BY DriverAssumption DEF DriverAssumption

(* The types of the driver's own variables; what a call still has to do    *)
(* are accesses that the card's guest may make.                            *)
DriverTypes ==
  /\ opened \subseteq Processes /\ filep \in Processes \cup {NoOne}
  /\ call \in [Processes -> Call \cup {NoCall}]
  /\ \A p \in Processes : call[p] \in Calls[p] \cup {NoCall}
  /\ todo \in [CPUs -> Seq(HostAccesses)]
  /\ low \in [CPUs -> Word]
  /\ isr \in {"idle", "fetch", "oops"}
  /\ clean_virtines \in Seq(Virtine)
  /\ given \subseteq Virtine

(* An address that an 8-byte read has put together is one. *)
LEMMA ResultType ==
  ASSUME TypeOK, DriverTypes, NEW c \in CPUs
  PROVE  Result(c) \in Hwaddr
BY DEF TypeOK, DriverTypes, Result, Hwaddr

LEMMA DriverTypesInit == DriverInit => DriverTypes
BY DriverConstants, CardConstants DEF DriverInit, DriverTypes

LEMMA DriverTypesStep ==
  ASSUME TypeOK, DriverTypes, [DriverNext]_allVars
  PROVE  DriverTypes'
<1> USE DEF DriverTypes
<1>1. ASSUME NEW p \in Processes, Open(p) \/ Release(p)
      PROVE  DriverTypes'
  BY <1>1 DEF Open, Release
<1>2. ASSUME NEW p \in Processes, BeginCall(p)
      PROVE  DriverTypes'
  <2>1. PICK a \in Calls[p] :
          /\ call' = [call EXCEPT ![p] = a]
          /\ todo' = [todo EXCEPT ![p] = AccessesOf(a)]
          /\ given' = IF a \in TestGiveVirtine THEN given \cup {a.virtine} ELSE given
    BY <1>2 DEF BeginCall
  <2>2. a \in Call /\ AccessesOf(a) \in Seq(HostAccesses)
    BY DriverConstants, GuestAssumption
  <2>3. a \in TestGiveVirtine => a.virtine \in Virtine
    BY DriverConstants DEF TestGiveVirtine, HandIn, PWrite
  <2>4. UNCHANGED <<opened, filep, low, isr, clean_virtines>>
    BY <1>2 DEF BeginCall
  <2> QED
    BY <2>1, <2>2, <2>3, <2>4
<1>3. ASSUME NEW p \in Processes, EndCall(p)
      PROVE  DriverTypes'
  BY <1>3 DEF EndCall
<1>4. ASSUME NEW c \in CPUs, NextAccess(c)
      PROVE  DriverTypes'
  <2>1. Tail(todo[c]) \in Seq(HostAccesses)
    BY <1>4 DEF NextAccess
  <2>2. mmio_val[c] \in Word /\ ZeroWord \in Word
    BY CardConstants DEF TypeOK
  <2> QED
    BY <1>4, <2>1, <2>2 DEF NextAccess
<1>5. CASE IsrEnter
  <2>1. isr' \in {"fetch", "oops"}
    BY <1>5 DEF IsrEnter
  <2>2. todo' \in [CPUs -> Seq(HostAccesses)]
    <3> DEFINE next == IF isr' = "fetch" THEN ReadBoth("CQ_HEAD") ELSE <<>>
    <3>1. todo' = [todo EXCEPT ![Isr] = next]
      BY <1>5 DEF IsrEnter
    <3>2. next \in Seq(HostAccesses)
      BY GuestAssumption
    <3> HIDE DEF next
    <3> QED
      BY <3>1, <3>2
  <2>3. UNCHANGED <<opened, filep, call, low, clean_virtines, given>>
    BY <1>5 DEF IsrEnter
  <2> QED
    BY <2>1, <2>2, <2>3
<1>6. CASE IsrNext
  <2>1. Isr \in CPUs
    BY DriverConstants
  <2>2. CASE Result(Isr) = Zero
    BY <1>6, <2>2 DEF IsrNext
  <2>3. CASE Result(Isr) # Zero
    <3>1. Result(Isr) \in Virtine
      BY <2>1, <2>3, ResultType DEF Virtine
    <3>2. /\ clean_virtines' = Append(clean_virtines, Result(Isr))
          /\ todo' = [todo EXCEPT ![Isr] = ReadBoth("CQ_HEAD")]
          /\ UNCHANGED <<opened, filep, call, low, isr, given>>
      BY <1>6, <2>3 DEF IsrNext
    <3>3. todo' \in [CPUs -> Seq(HostAccesses)]
      BY <3>2, GuestAssumption
    <3>4. clean_virtines' \in Seq(Virtine)
      BY <3>1, <3>2
    <3> QED
      BY <3>2, <3>3, <3>4
  <2> QED
    BY <2>2, <2>3
<1>7. CASE CardStep \/ UNCHANGED allVars
  BY <1>7 DEF CardStep, allVars, driverVars
<1> QED
  BY <1>1, <1>2, <1>3, <1>4, <1>5, <1>6, <1>7 DEF DriverNext

-----------------------------------------------------------------------------
(* The driver is one of the guests that the card's theorems are about. *)

LEMMA DriverStepIsCardStep ==
  ASSUME DriverTypes, [DriverNext]_allVars
  PROVE  [Next]_vars
<1>1. ASSUME NEW p \in Processes, Open(p) \/ Release(p) \/ BeginCall(p) \/ EndCall(p)
      PROVE  UNCHANGED vars
  BY <1>1 DEF Open, Release, BeginCall, EndCall, cardVars
<1>2. ASSUME NEW c \in CPUs, NextAccess(c)
      PROVE  Next
  <2>1. Head(todo[c]) \in HostAccesses
    BY <1>2 DEF NextAccess, DriverTypes
  <2> QED
    BY <1>2, <2>1 DEF NextAccess, Next
<1>3. CASE IsrEnter
  BY <1>3 DEF IsrEnter, Next
<1>4. CASE IsrNext
  BY <1>4 DEF IsrNext, cardVars
<1>5. CASE CardStep
  BY <1>5 DEF CardStep, Next
<1>6. CASE UNCHANGED allVars
  BY <1>6 DEF allVars, cardVars
<1> QED
  BY <1>1, <1>2, <1>3, <1>4, <1>5, <1>6 DEF DriverNext

(* chardev.c and fetch_clean_virtines only use the card as any guest may:  *)
(* what is proved of the card holds under the driver.                      *)
THEOREM DriverIsGuest == DriverSpec => Spec
<1>1. DriverInit => Init /\ DriverTypes
  BY DriverTypesInit DEF DriverInit
<1>2. TypeOK /\ BatchWrites /\ DriverTypes /\ [DriverNext]_allVars
        => [Next]_vars /\ (TypeOK /\ BatchWrites /\ DriverTypes)'
  BY DriverStepIsCardStep, DriverTypesStep, TypeStep
<1>3. Init => TypeOK /\ BatchWrites
  BY TypeInit
<1> QED
  BY <1>1, <1>2, <1>3, PTL DEF DriverSpec, Spec

LEMMA DriverTypesInvariant == DriverSpec => []DriverTypes
<1>1. TypeOK /\ DriverTypes /\ [DriverNext]_allVars => DriverTypes'
  BY DriverTypesStep
<1> QED
  BY <1>1, DriverTypesInit, DriverIsGuest, CardTypeOK, PTL DEF DriverSpec

(* The driver's variables keep their types: the handler keeps only         *)
(* addresses that are not 0, and given holds only virtines.                *)
THEOREM CharDriverTypeOK == DriverSpec => []DriverTypeOK
<1>1. TypeOK /\ DriverTypes => DriverTypeOK
  <2> SUFFICES ASSUME TypeOK, DriverTypes PROVE DriverTypeOK
    OBVIOUS
  <2>1. HostAccesses \subseteq Access
    BY HostAssumption
  <2>2. todo \in [CPUs -> Seq(Access)]
    <3> SUFFICES ASSUME NEW c \in CPUs PROVE todo[c] \in Seq(Access)
      BY DEF DriverTypes
    <3>1. todo[c] \in Seq(HostAccesses)
      BY DEF DriverTypes
    <3> QED
      BY <2>1, <3>1
  <2> QED
    BY <2>2 DEF DriverTypes, DriverTypeOK
<1> QED
  BY <1>1, DriverTypesInvariant, DriverIsGuest, CardTypeOK, PTL

-----------------------------------------------------------------------------
(* No clean virtine is stranded. *)

(* The two reads that fetch a virtine, and the accesses that are neither.  *)
ReadLow == Read("CQ_HEAD")
ReadHigh == Read("CQ_HEAD_HI")

Fetches(a) == a.op = "read" /\ a.reg \in {"CQ_HEAD", "CQ_HEAD_HI"}

OtherAccesses == {a \in HostAccesses : ~Fetches(a)}

(* The programs leave the complete queue to the interrupt handler. *)
OnlyHandlerFetches ==
  \A p \in Processes : \A a \in Calls[p] : AccessesOf(a) \in Seq(OtherAccesses)

ProgramsInv ==
  \A p \in Processes : todo[p] \in Seq(OtherAccesses) /\ ~Fetches(vcpu[p])

(* The handler's way through one 8-byte read.                              *)
BeforeLow == todo[Isr] = <<ReadLow, ReadHigh>> /\ vcpu[Isr] = Idle

InLow == todo[Isr] = <<ReadHigh>> /\ vcpu[Isr] = ReadLow

GotLow ==
  todo[Isr] = <<ReadHigh>> /\ vcpu[Isr] = Idle /\ mmio_val[Isr] = split_return.lo

InHigh == todo[Isr] = <<>> /\ vcpu[Isr] = ReadHigh /\ low[Isr] = split_return.lo

HandlerInv ==
  /\ isr # "fetch" => Done(Isr)
  /\ isr = "fetch" => BeforeLow \/ InLow \/ GotLow \/ InHigh \/ Done(Isr)

(* The handler has found the queue empty, and may not know it yet.         *)
FoundNone ==
  /\ isr = "fetch"
  /\ \/ (GotLow \/ InHigh) /\ split_return = Zero
     \/ Done(Isr) /\ Result(Isr) = Zero

BatchInv ==
  ~msi /\ (isr = "idle" \/ FoundNone) => Occupancy(cq) <= num_virtines_cleaned_already

LEMMA FetchAccesses ==
  /\ ReadBoth("CQ_HEAD") = <<ReadLow, ReadHigh>>
  /\ ReadLow # ReadHigh /\ ReadLow # Idle /\ ReadHigh # Idle
  /\ ~Fetches(Idle) /\ Fetches(ReadLow) /\ Fetches(ReadHigh)
<1>1. NextRegister["CQ_HEAD"] = "CQ_HEAD_HI"
  BY DEF NextRegister, Register
<1> QED
  BY <1>1 DEF ReadBoth, ReadLow, ReadHigh, Read, Idle, Fetches

(* What the handler's progress depends on. *)
handlerVars ==
  <<isr, todo[Isr], vcpu[Isr], mmio_val[Isr], low[Isr], split_return>>

LEMMA HandlerStands ==
  ASSUME HandlerInv, UNCHANGED handlerVars
  PROVE  HandlerInv' /\ (FoundNone' <=> FoundNone)
BY DEF HandlerInv, FoundNone, handlerVars, BeforeLow, InLow, GotLow, InHigh, Done, Result

LEMMA BatchStands ==
  ASSUME HandlerInv, BatchInv, UNCHANGED <<handlerVars, cq, num_virtines_cleaned_already>>,
         msi' = msi
  PROVE  HandlerInv' /\ BatchInv'
<1>1. HandlerInv' /\ (FoundNone' <=> FoundNone) /\ isr' = isr
  BY HandlerStands DEF handlerVars
<1>2. Occupancy(cq)' = Occupancy(cq)
  BY DEF Occupancy, Distance
<1> QED
  BY <1>1, <1>2 DEF BatchInv

(* A program's accesses pass the handler by. *)
LEMMA ProgramLeaves ==
  ASSUME TypeOK, ProgramsInv, NEW p \in Processes, MmioHandler(p), UNCHANGED driverVars
  PROVE  UNCHANGED <<handlerVars, cq, num_virtines_cleaned_already, msi>>
<1>1. p # Isr /\ p \in CPUs /\ Isr \in CPUs
  BY DriverConstants
<1>2. ~ReadCqHead(p) /\ (ReadRegister(p) => vcpu[p].reg # "CQ_HEAD_HI")
  BY DEF ProgramsInv, Fetches, ReadCqHead, ReadRegister, Reading
<1> USE DEF queueVars, flagVars, batchVars, splitVars, msiVars
<1>3. UNCHANGED <<split_return, cq, num_virtines_cleaned_already, msi>>
  BY <1>2 DEF MmioHandler, ReadRegister, WriteRqTail, WriteRqTailHi, WriteBatchFactor,
    WriteDoorbell, SignalDoorbell, WriteSnapshot, WriteRefused
<1>4. vcpu'[Isr] = vcpu[Isr] /\ mmio_val'[Isr] = mmio_val[Isr]
  BY <1>1, <1>2 DEF TypeOK, MmioHandler, ReadRegister, WriteRqTail, WriteRqTailHi,
    WriteBatchFactor, WriteDoorbell, SignalDoorbell, WriteSnapshot, WriteRefused, MmioReturn
<1> QED
  BY <1>3, <1>4 DEF driverVars, handlerVars

LEMMA ProgramHandler ==
  ASSUME TypeOK, ProgramsInv, HandlerInv, BatchInv, NEW p \in Processes,
         MmioHandler(p), UNCHANGED driverVars
  PROVE  ProgramsInv' /\ HandlerInv' /\ BatchInv'
<1>1. p \in CPUs
  BY DriverConstants
<1>2. vcpu' = [vcpu EXCEPT ![p] = Idle] \/ vcpu' = [vcpu EXCEPT ![p].op = "signal"]
  BY DEF MmioHandler, ReadRegister, ReadCqHead, WriteRqTail, WriteRqTailHi,
    WriteBatchFactor, WriteDoorbell, SignalDoorbell, WriteSnapshot, WriteRefused, MmioReturn
<1>3. \A q \in Processes : ~Fetches(vcpu'[q])
  BY <1>1, <1>2, DriverConstants, FetchAccesses DEF TypeOK, Access, ProgramsInv, Fetches
<1>4. ProgramsInv'
  BY <1>3 DEF driverVars, ProgramsInv, Fetches
<1> QED
  BY <1>4, ProgramLeaves, BatchStands

(* The handler's first read pops a virtine, or 0, and keeps its high half  *)
(* in split_return ...                                                     *)
LEMMA LowRead ==
  ASSUME TypeOK, InLow, MmioHandler(Isr), UNCHANGED driverVars
  PROVE  /\ split_return' = HeadValue(cq) /\ cq' = PopHead(cq)
         /\ vcpu' = [vcpu EXCEPT ![Isr] = Idle] /\ GotLow'
         /\ UNCHANGED <<rq, batchVars, threadVars, msi>>
<1>0. Isr \in CPUs
  BY DriverConstants
<1>1. vcpu[Isr].op = "read" /\ vcpu[Isr].reg = "CQ_HEAD"
  BY DEF InLow, ReadLow, Read
<1>2. ReadCqHead(Isr)
  BY <1>1 DEF MmioHandler, ReadRegister, WriteRqTail, WriteRqTailHi,
    WriteBatchFactor, WriteDoorbell, SignalDoorbell, WriteSnapshot, WriteRefused,
    Writing
<1>3. /\ split_return' = HeadValue(cq) /\ cq' = PopHead(cq)
      /\ mmio_val' = [mmio_val EXCEPT ![Isr] = split_return'.lo]
      /\ vcpu' = [vcpu EXCEPT ![Isr] = Idle]
      /\ UNCHANGED <<rq, batchVars, threadVars, msi>>
  BY <1>2 DEF ReadCqHead, MmioReturn, msiVars
<1>4. mmio_val'[Isr] = split_return'.lo /\ vcpu'[Isr] = Idle
  BY <1>0, <1>3 DEF TypeOK
<1>5. todo'[Isr] = <<ReadHigh>>
  BY DEF InLow, driverVars
<1> QED
  BY <1>3, <1>4, <1>5 DEF GotLow

(* ... and the second returns that half: together they are the address     *)
(* that the first one popped.                                              *)
LEMMA HighRead ==
  ASSUME TypeOK, InHigh, MmioHandler(Isr), UNCHANGED driverVars
  PROVE  /\ vcpu' = [vcpu EXCEPT ![Isr] = Idle] /\ Done(Isr)'
         /\ Result(Isr)' = split_return
         /\ UNCHANGED <<rq, cq, batchVars, threadVars, msi>>
<1>0. Isr \in CPUs
  BY DriverConstants
<1>1. vcpu[Isr].op = "read" /\ vcpu[Isr].reg = "CQ_HEAD_HI"
  BY DEF InHigh, ReadHigh, Read
<1>2. ReadRegister(Isr)
  BY <1>1 DEF MmioHandler, ReadCqHead, WriteRqTail, WriteRqTailHi,
    WriteBatchFactor, WriteDoorbell, SignalDoorbell, WriteSnapshot, WriteRefused,
    Reading, Writing
<1>3. /\ mmio_val' = [mmio_val EXCEPT ![Isr] = split_return.hi]
      /\ vcpu' = [vcpu EXCEPT ![Isr] = Idle]
      /\ UNCHANGED <<rq, cq, batchVars, threadVars, msi>>
  BY <1>1, <1>2 DEF ReadRegister, ReadValues, MmioReturn, msiVars, queueVars
<1>4. mmio_val'[Isr] = split_return.hi /\ vcpu'[Isr] = Idle
  BY <1>0, <1>3 DEF TypeOK
<1>5. todo'[Isr] = <<>> /\ low'[Isr] = split_return.lo
  BY DEF InHigh, driverVars
<1>6. split_return \in Hwaddr
  BY DEF TypeOK
<1>7. Result(Isr)' = split_return
  BY <1>4, <1>5, <1>6 DEF Result, Hwaddr
<1> QED
  BY <1>3, <1>4, <1>5, <1>7 DEF Done

(* The handler's own accesses: a read that finds the queue empty leaves    *)
(* nothing that was not cleaned after the last interrupt, and the address  *)
(* put together is 0 only then.                                            *)
LEMMA HandlerHandler ==
  ASSUME TypeOK, DriverTypes, LockDiscipline, QueueInv, ProgramsInv, HandlerInv, BatchInv,
         MmioHandler(Isr), UNCHANGED driverVars
  PROVE  ProgramsInv' /\ HandlerInv' /\ BatchInv'
<1>1. Isr \in CPUs /\ Isr \notin Processes /\ Processes \subseteq CPUs
  BY DriverConstants
<1>2. vcpu[Isr] # Idle
  BY DEF MmioHandler, ReadRegister, ReadCqHead, WriteRqTail, WriteRqTailHi,
    WriteBatchFactor, WriteDoorbell, SignalDoorbell, WriteSnapshot, WriteRefused,
    Reading, Writing, Idle
<1>3. isr = "fetch" /\ isr' = "fetch" /\ (InLow \/ InHigh)
  BY <1>2 DEF HandlerInv, Done, BeforeLow, GotLow, driverVars
<1>4. num_virtines_cleaned_already \in Nat
  BY DEF TypeOK
<1>5. ASSUME vcpu' = [vcpu EXCEPT ![Isr] = Idle]
      PROVE  ProgramsInv'
  BY <1>1, <1>5 DEF TypeOK, ProgramsInv, driverVars, Fetches
<1>6. CASE InLow
  <2>1. /\ split_return' = HeadValue(cq) /\ cq' = PopHead(cq)
        /\ vcpu' = [vcpu EXCEPT ![Isr] = Idle] /\ GotLow'
        /\ UNCHANGED <<num_virtines_cleaned_already, msi>>
    BY <1>6, LowRead DEF batchVars
  <2>2. ~Done(Isr)'
    BY <2>1 DEF GotLow, Done
  <2>3. HeadValue(cq) = Zero => Occupancy(cq)' = 0
    <3> SUFFICES ASSUME HeadValue(cq) = Zero PROVE Occupancy(cq') = 0
      OBVIOUS
    <3>1. WellFormed(cq)
      BY DEF QueueInv, CqWellFormed
    <3>2. Occupancy(cq) = 0
      BY <3>1, ValueTests
    <3>3. cq' = cq
      BY <2>1, <3>1, <3>2, ValueTests DEF PopHead
    <3> QED
      BY <3>2, <3>3
  <2>4. BatchInv'
    BY <1>3, <1>4, <2>1, <2>2, <2>3 DEF BatchInv, FoundNone
  <2> QED
    BY <1>3, <1>5, <2>1, <2>4 DEF HandlerInv
<1>7. CASE InHigh
  <2>1. /\ vcpu' = [vcpu EXCEPT ![Isr] = Idle] /\ Done(Isr)'
        /\ Result(Isr)' = split_return
        /\ UNCHANGED <<cq, num_virtines_cleaned_already, msi>>
    BY <1>7, HighRead DEF batchVars
  <2>2. FoundNone' => FoundNone
    BY <1>3, <1>7, <2>1, FetchAccesses DEF FoundNone, InHigh, GotLow, Done
  <2>3. Occupancy(cq)' = Occupancy(cq)
    BY <2>1 DEF Occupancy, Distance
  <2>4. BatchInv'
    BY <1>3, <2>1, <2>2, <2>3 DEF BatchInv
  <2> QED
    BY <1>3, <1>5, <2>1, <2>4 DEF HandlerInv
<1> QED
  BY <1>3, <1>6, <1>7

LEMMA ThreadLeaves ==
  ASSUME UNCHANGED driverVars, ThreadStep \/ SpuriousWakeup
  PROVE  UNCHANGED <<handlerVars, vcpu>>
BY DEF handlerVars, driverVars, ThreadStep, ThreadLock, ThreadCheck, ThreadSleep,
  ThreadStart, ThreadClearDoorbell, ThreadPop, ThreadClean, ThreadFlag,
  ThreadThreshold, ThreadIrqLock, ThreadNotify, SpuriousWakeup, splitVars, hostVars

(* The thread's steps: each virtine that enters the queue is counted, and  *)
(* the count is reset only with an interrupt.                              *)
LEMMA ThreadBatch ==
  ASSUME TypeOK, QueueInv, HandlerInv, BatchInv, UNCHANGED driverVars,
         ThreadStep \/ SpuriousWakeup
  PROVE  HandlerInv' /\ BatchInv'
<1> USE DEF queueVars, flagVars, batchVars, splitVars, hostVars, msiVars
<1>1. UNCHANGED handlerVars
  BY ThreadLeaves
<1>2. HandlerInv' /\ (FoundNone' <=> FoundNone) /\ isr' = isr
  BY <1>1, HandlerStands DEF handlerVars
<1>3. CASE ThreadClean
  <2>1. /\ cq' = InsertTail(cq, virtine_to_clean) /\ thread = "clean" /\ msi' = msi
        /\ num_virtines_cleaned_already' = num_virtines_cleaned_already + 1
    BY <1>3 DEF ThreadClean
  <2>2. WellFormed(cq) /\ virtine_to_clean \in Virtine
    BY <2>1 DEF QueueInv, CqWellFormed
  <2>3. Occupancy(cq) \in Nat /\ num_virtines_cleaned_already \in Nat
    BY <2>2, OccupancyType, NumAssumption DEF WellFormed, TypeOK
  <2>4. Occupancy(cq') \in {Occupancy(cq), Occupancy(cq) + 1}
    <3>1. CASE Occupancy(cq) < NUM_POSSIBLE_VIRTINES
      BY <2>1, <2>2, <3>1, InsertTailEffect
    <3>2. CASE ~(Occupancy(cq) < NUM_POSSIBLE_VIRTINES)
      BY <2>1, <2>2, <3>2, ValueTests DEF InsertTail
    <3> QED
      BY <3>1, <3>2
  <2>5. Occupancy(cq) <= num_virtines_cleaned_already
          => Occupancy(cq') <= num_virtines_cleaned_already + 1
    BY <2>3, <2>4
  <2> QED
    BY <1>2, <2>1, <2>5 DEF BatchInv
<1>4. CASE ThreadNotify
  BY <1>2, <1>4 DEF ThreadNotify, BatchInv
<1>5. CASE ~ThreadClean /\ ~ThreadNotify
  <2>1. UNCHANGED <<cq, num_virtines_cleaned_already, msi>>
    BY <1>5 DEF ThreadStep, ThreadLock, ThreadCheck, ThreadSleep, ThreadStart,
      ThreadClearDoorbell, ThreadPop, ThreadFlag, ThreadThreshold, ThreadIrqLock,
      SpuriousWakeup
  <2> QED
    BY <1>1, <2>1, BatchStands
<1> QED
  BY <1>3, <1>4, <1>5

LEMMA StrandedStep ==
  ASSUME OnlyHandlerFetches, TypeOK, DriverTypes, LockDiscipline, QueueInv,
         ProgramsInv, HandlerInv, BatchInv, [DriverNext]_allVars
  PROVE  ProgramsInv' /\ HandlerInv' /\ BatchInv'
<1>0. Isr \in CPUs /\ Isr \notin Processes /\ Processes \subseteq CPUs
  BY DriverConstants
<1> USE DEF queueVars, batchVars, splitVars, hostVars, msiVars
<1>1. ASSUME NEW p \in Processes, Open(p) \/ Release(p) \/ BeginCall(p) \/ EndCall(p)
      PROVE  ProgramsInv' /\ HandlerInv' /\ BatchInv'
  <2>1. UNCHANGED <<isr, low, vars>>
    BY <1>1 DEF Open, Release, BeginCall, EndCall, cardVars
  <2>2. \/ todo' = todo
        \/ \E a \in Calls[p] : todo' = [todo EXCEPT ![p] = AccessesOf(a)]
    BY <1>1 DEF Open, Release, BeginCall, EndCall
  <2>3. todo'[Isr] = todo[Isr]
    BY <1>0, <2>2 DEF DriverTypes
  <2>4. ProgramsInv'
    <3>1. \A q \in Processes : todo'[q] \in Seq(OtherAccesses)
      BY <1>0, <2>2, OnlyHandlerFetches DEF ProgramsInv, OnlyHandlerFetches, DriverTypes
    <3>2. vcpu' = vcpu
      BY <2>1 DEF vars
    <3> QED
      BY <3>1, <3>2 DEF ProgramsInv, Fetches
  <2>5. UNCHANGED <<handlerVars, cq, num_virtines_cleaned_already>> /\ msi' = msi
    BY <2>1, <2>3 DEF vars, handlerVars
  <2> QED
    BY <2>4, <2>5, BatchStands
<1>2. ASSUME NEW p \in Processes, NextAccess(p)
      PROVE  ProgramsInv' /\ HandlerInv' /\ BatchInv'
  <2>1. /\ todo[p] # <<>> /\ vcpu' = [vcpu EXCEPT ![p] = Head(todo[p])]
        /\ todo' = [todo EXCEPT ![p] = Tail(@)]
        /\ \E w : low' = [low EXCEPT ![p] = w]
        /\ UNCHANGED <<isr, mmio_val, split_return, cq, num_virtines_cleaned_already, msi>>
    BY <1>2 DEF NextAccess, MmioEnter
  <2>2. Head(todo[p]) \in OtherAccesses /\ Tail(todo[p]) \in Seq(OtherAccesses)
    BY <2>1 DEF ProgramsInv
  <2>3. ProgramsInv'
    BY <1>0, <2>1, <2>2 DEF ProgramsInv, OtherAccesses, Fetches, DriverTypes, TypeOK
  <2>4. UNCHANGED handlerVars
    BY <1>0, <2>1 DEF handlerVars, DriverTypes, TypeOK
  <2> QED
    BY <2>1, <2>3, <2>4, BatchStands
<1>3. CASE NextAccess(Isr)
  <2>1. /\ todo[Isr] # <<>> /\ vcpu[Isr] = Idle
        /\ vcpu' = [vcpu EXCEPT ![Isr] = Head(todo[Isr])]
        /\ todo' = [todo EXCEPT ![Isr] = Tail(@)]
        /\ low' = [low EXCEPT ![Isr] =
              IF Len(todo[Isr]) = 1 /\ Head(todo[Isr]).op = "read"
              THEN mmio_val[Isr] ELSE ZeroWord]
        /\ UNCHANGED <<isr, mmio_val, split_return, cq, num_virtines_cleaned_already, msi>>
    BY <1>3 DEF NextAccess, MmioEnter
  <2>2. vcpu'[Isr] = Head(todo[Isr]) /\ todo'[Isr] = Tail(todo[Isr])
    BY <1>0, <2>1 DEF DriverTypes, TypeOK
  <2>3. ProgramsInv'
    BY <1>0, <2>1 DEF ProgramsInv, Fetches, DriverTypes, TypeOK
  <2>4. Occupancy(cq)' = Occupancy(cq)
    BY <2>1 DEF Occupancy, Distance
  <2>5. isr = "fetch" /\ (BeforeLow \/ GotLow)
    BY <2>1, FetchAccesses DEF HandlerInv, Done, InLow, InHigh
  <2>6. CASE BeforeLow
    <3>1. InLow'
      BY <2>2, <2>6 DEF BeforeLow, InLow
    <3>2. ~FoundNone'
      BY <3>1, FetchAccesses DEF FoundNone, InLow, GotLow, InHigh, Done
    <3> QED
      BY <2>1, <2>3, <2>5, <3>1, <3>2 DEF HandlerInv, BatchInv
  <2>7. CASE GotLow
    <3>1. Head(todo[Isr]) = ReadHigh /\ Tail(todo[Isr]) = <<>> /\ Len(todo[Isr]) = 1
      BY <2>7 DEF GotLow
    <3>2. low'[Isr] = mmio_val[Isr]
      BY <1>0, <2>1, <3>1 DEF DriverTypes, ReadHigh, Read
    <3>3. InHigh'
      BY <2>1, <2>2, <2>7, <3>1, <3>2 DEF GotLow, InHigh
    <3>4. FoundNone' => FoundNone
      BY <2>1, <2>5, <2>7, <3>3, FetchAccesses DEF FoundNone, InHigh, Done
    <3> QED
      BY <2>1, <2>3, <2>4, <2>5, <3>3, <3>4 DEF HandlerInv, BatchInv
  <2> QED
    BY <2>5, <2>6, <2>7
<1>4. CASE IsrEnter
  <2>1. /\ isr = "idle" /\ isr' \in {"fetch", "oops"}
        /\ UNCHANGED <<vcpu, low>>
    BY <1>4 DEF IsrEnter, TakeInterrupt
  <2>2. vcpu[Isr] = Idle
    BY <2>1 DEF HandlerInv, Done
  <2> DEFINE next == IF isr' = "fetch" THEN ReadBoth("CQ_HEAD") ELSE <<>>
  <2>3. todo' = [todo EXCEPT ![Isr] = next]
    BY <1>4 DEF IsrEnter
  <2>4. todo'[Isr] = next /\ \A p \in Processes : todo'[p] = todo[p]
    BY <1>0, <2>3 DEF DriverTypes
  <2>5. ProgramsInv'
    BY <2>1, <2>4 DEF ProgramsInv, Fetches
  <2>6. CASE isr' = "fetch"
    <3>1. BeforeLow'
      BY <2>1, <2>2, <2>4, <2>6, FetchAccesses DEF BeforeLow
    <3>2. ~FoundNone'
      BY <3>1 DEF FoundNone, BeforeLow, GotLow, InHigh, Done
    <3> QED
      BY <2>5, <2>6, <3>1, <3>2 DEF HandlerInv, BatchInv
  <2>7. CASE isr' = "oops"
    BY <2>1, <2>2, <2>4, <2>5, <2>7 DEF HandlerInv, BatchInv, FoundNone, Done
  <2> QED
    BY <2>1, <2>6, <2>7
<1>5. CASE IsrNext
  <2>1. isr = "fetch" /\ Done(Isr) /\ UNCHANGED <<low, vars>>
    BY <1>5 DEF IsrNext, cardVars
  <2>2. UNCHANGED <<vcpu, mmio_val, cq, num_virtines_cleaned_already, msi>>
    BY <2>1 DEF vars
  <2>3. Occupancy(cq)' = Occupancy(cq)
    BY <2>2 DEF Occupancy, Distance
  <2>4. CASE Result(Isr) = Zero
    <3>1. isr' = "idle" /\ todo' = todo
      BY <1>5, <2>4 DEF IsrNext
    <3>2. ProgramsInv' /\ HandlerInv'
      BY <2>1, <2>2, <3>1 DEF ProgramsInv, HandlerInv, Fetches, Done
    <3>3. FoundNone
      BY <2>1, <2>4 DEF FoundNone
    <3> QED
      BY <2>2, <2>3, <3>2, <3>3 DEF BatchInv
  <2>5. CASE Result(Isr) # Zero
    <3>1. isr' = "fetch" /\ todo' = [todo EXCEPT ![Isr] = ReadBoth("CQ_HEAD")]
      BY <1>5, <2>1, <2>5 DEF IsrNext
    <3>2. BeforeLow' /\ ProgramsInv'
      BY <1>0, <2>1, <2>2, <3>1, FetchAccesses
      DEF BeforeLow, Done, DriverTypes, ProgramsInv, Fetches
    <3>3. ~FoundNone'
      BY <3>2 DEF FoundNone, BeforeLow, GotLow, InHigh, Done
    <3> QED
      BY <3>1, <3>2, <3>3 DEF HandlerInv, BatchInv
  <2> QED
    BY <2>4, <2>5
<1>6. CASE CardStep
  <2>1. UNCHANGED driverVars
    BY <1>6 DEF CardStep
  <2>2. CASE ThreadStep \/ SpuriousWakeup
    <3>1. vcpu' = vcpu
      BY <2>1, <2>2, ThreadLeaves
    <3>2. ProgramsInv'
      BY <2>1, <3>1 DEF ProgramsInv, Fetches, driverVars
    <3> QED
      BY <2>1, <2>2, <3>2, ThreadBatch
  <2>3. ASSUME NEW c \in CPUs, MmioHandler(c)
        PROVE  ProgramsInv' /\ HandlerInv' /\ BatchInv'
    <3>1. CASE c \in Processes
      BY <2>1, <2>3, <3>1, ProgramHandler
    <3>2. CASE c = Isr
      BY <2>1, <2>3, <3>2, HandlerHandler
    <3> QED
      BY <3>1, <3>2, DriverConstants
  <2> QED
    BY <1>6, <2>2, <2>3 DEF CardStep
<1>7. CASE UNCHANGED allVars
  <2>1. UNCHANGED <<handlerVars, cq, num_virtines_cleaned_already>> /\ msi' = msi
    BY <1>7 DEF allVars, driverVars, cardVars, vars, handlerVars
  <2>2. ProgramsInv'
    BY <1>7 DEF allVars, driverVars, cardVars, vars, ProgramsInv, Fetches
  <2> QED
    BY <2>1, <2>2, BatchStands
<1> QED
  BY <1>1, <1>2, <1>3, <1>4, <1>5, <1>6, <1>7, DriverConstants DEF DriverNext

LEMMA HandlerInvariant ==
  ASSUME OnlyHandlerFetches
  PROVE  DriverSpec => [](ProgramsInv /\ HandlerInv /\ BatchInv)
<1>1. DriverInit => ProgramsInv /\ HandlerInv /\ BatchInv
  <2> SUFFICES ASSUME DriverInit PROVE ProgramsInv /\ HandlerInv /\ BatchInv
    OBVIOUS
  <2>1. \A c \in CPUs : todo[c] = <<>> /\ vcpu[c] = Idle
    BY DEF DriverInit, Init
  <2>2. isr = "idle" /\ Occupancy(cq) = 0 /\ num_virtines_cleaned_already = 0
    BY EmptyQueueWellFormed DEF DriverInit, Init
  <2>3. ProgramsInv
    <3>1. <<>> \in Seq(OtherAccesses)
      OBVIOUS
    <3> QED
      BY <2>1, <3>1, DriverConstants, FetchAccesses DEF ProgramsInv
  <2>4. HandlerInv
    BY <2>1, <2>2, DriverConstants DEF HandlerInv, Done
  <2>5. BatchInv
    BY <2>2 DEF BatchInv
  <2> QED
    BY <2>3, <2>4, <2>5
<1>2. TypeOK /\ DriverTypes /\ LockDiscipline /\ QueueInv
        /\ ProgramsInv /\ HandlerInv /\ BatchInv /\ [DriverNext]_allVars
        => ProgramsInv' /\ HandlerInv' /\ BatchInv'
  BY OnlyHandlerFetches, StrandedStep
<1> QED
  BY <1>1, <1>2, DriverTypesInvariant, DriverIsGuest, CardTypeOK,
     CardLockDiscipline, QueueInvariant, PTL
  DEF DriverSpec

(* fpga_char_main.c 205-237 against virtine_fpga.c 372-392: as long as the *)
(* programs do not fetch, the handler's loop and the card's batches leave  *)
(* no clean virtine behind, for every queue size and batch factor and any  *)
(* calls of any number of programs.                                        *)
THEOREM CharNoStrandedCompletion ==
  ASSUME OnlyHandlerFetches
  PROVE  DriverSpec => []NoStrandedCompletion
<1>1. BatchInv => NoStrandedCompletion
  BY DEF BatchInv, NoStrandedCompletion
<1>2. DriverSpec => [](ProgramsInv /\ HandlerInv /\ BatchInv)
  BY OnlyHandlerFetches, HandlerInvariant
<1> QED
  BY <1>1, <1>2, PTL

-----------------------------------------------------------------------------
(* What a call and the accesses of one CPU may do to each other. *)

(* A handler's step ends the access or leaves its second half, the signal. *)
LEMMA HandlerEnds ==
  ASSUME NEW c, MmioHandler(c)
  PROVE  \/ vcpu' = [vcpu EXCEPT ![c] = Idle]
         \/ vcpu' = [vcpu EXCEPT ![c].op = "signal"]
BY DEF MmioHandler, ReadRegister, ReadCqHead, WriteRqTail, WriteRqTailHi,
  WriteBatchFactor, WriteDoorbell, SignalDoorbell, WriteSnapshot, WriteRefused, MmioReturn

(* The steps of a program's own call; no other step touches the call.      *)
OwnStep(p) ==
  \/ BeginCall(p) \/ EndCall(p) \/ NextAccess(p)
  \/ MmioHandler(p) /\ UNCHANGED driverVars

LEMMA OthersStep ==
  ASSUME TypeOK, DriverTypes, [DriverNext]_allVars, NEW p \in Processes, ~OwnStep(p)
  PROVE  UNCHANGED <<call[p], todo[p], vcpu[p]>>
<1>0. p \in CPUs /\ p # Isr
  BY DriverConstants
<1> USE DEF DriverTypes, TypeOK
<1>1. ASSUME NEW q \in Processes, Open(q) \/ Release(q)
      PROVE  UNCHANGED <<call, todo, vcpu>>
  BY <1>1 DEF Open, Release, cardVars, vars, hostVars
<1>2. ASSUME NEW q \in Processes, BeginCall(q) \/ EndCall(q)
      PROVE  UNCHANGED <<call[p], todo[p], vcpu[p]>>
  <2>1. q # p
    BY <1>2 DEF OwnStep
  <2>2. vcpu' = vcpu /\ \E a : call' = [call EXCEPT ![q] = a]
    BY <1>2 DEF BeginCall, EndCall, cardVars, vars, hostVars
  <2>3. todo' = todo \/ \E t : todo' = [todo EXCEPT ![q] = t]
    BY <1>2 DEF BeginCall, EndCall
  <2> QED
    BY <1>0, <2>1, <2>2, <2>3
<1>3. ASSUME NEW c \in CPUs, NextAccess(c)
      PROVE  UNCHANGED <<call[p], todo[p], vcpu[p]>>
  <2>1. c # p
    BY <1>3 DEF OwnStep
  <2> QED
    BY <1>3, <2>1 DEF NextAccess, MmioEnter
<1>4. CASE IsrEnter
  BY <1>0, <1>4 DEF IsrEnter, TakeInterrupt, hostVars
<1>5. CASE IsrNext
  BY <1>0, <1>5 DEF IsrNext, cardVars, vars, hostVars
<1>6. CASE CardStep
  <2>1. UNCHANGED <<call, todo>>
    BY <1>6 DEF CardStep, driverVars
  <2>2. ASSUME NEW c \in CPUs, MmioHandler(c)
        PROVE  vcpu'[p] = vcpu[p]
    <3>1. c # p
      BY <1>6, <2>2 DEF OwnStep, CardStep
    <3> QED
      BY <1>0, <2>2, <3>1, HandlerEnds
  <2>3. ASSUME ThreadStep \/ SpuriousWakeup
        PROVE  vcpu' = vcpu
    BY <2>3 DEF ThreadStep, ThreadLock, ThreadCheck, ThreadSleep, ThreadStart,
      ThreadClearDoorbell, ThreadPop, ThreadClean, ThreadFlag, ThreadThreshold,
      ThreadIrqLock, ThreadNotify, SpuriousWakeup, hostVars
  <2> QED
    BY <1>6, <2>1, <2>2, <2>3 DEF CardStep
<1>7. CASE UNCHANGED allVars
  BY <1>7 DEF allVars, driverVars, cardVars, vars, hostVars
<1> QED
  BY <1>1, <1>2, <1>3, <1>4, <1>5, <1>6, <1>7 DEF DriverNext

(* Between two calls a program accesses nothing.                           *)
RestInv == \A p \in Processes : call[p] = NoCall => Done(p)

LEMMA RestInvariant == DriverSpec => []RestInv
<1>1. DriverInit => RestInv
  BY DriverConstants DEF DriverInit, Init, RestInv, Done
<1>2. TypeOK /\ DriverTypes /\ RestInv /\ [DriverNext]_allVars => RestInv'
  <2> SUFFICES ASSUME TypeOK, DriverTypes, RestInv, [DriverNext]_allVars,
                      NEW p \in Processes, call'[p] = NoCall
               PROVE  Done(p)'
    BY DEF RestInv
  <2>0. p \in CPUs
    BY DriverConstants
  <2>1. CASE ~OwnStep(p)
    BY <2>1, OthersStep DEF RestInv, Done
  <2>2. CASE EndCall(p)
    BY <2>2 DEF EndCall, Done, cardVars, vars, hostVars
  <2>3. CASE BeginCall(p)
    <3>1. \A a \in Call : a # NoCall
      BY DEF Call, TestGiveVirtine, TestIoctls, TestAddrs, HandIn, PWrite, PRead,
        RingDoorbell, ModifyBatchFactor, GetMaxNumVirtines, SetSnapshot, NoCall
    <3>2. PICK a \in Calls[p] : call' = [call EXCEPT ![p] = a]
      BY <2>3 DEF BeginCall
    <3> QED
      BY <3>1, <3>2, DriverConstants DEF DriverTypes
  <2>4. CASE NextAccess(p)
    BY <2>4 DEF NextAccess, RestInv, Done
  <2>5. CASE MmioHandler(p) /\ UNCHANGED driverVars
    <3>1. vcpu[p] = Idle /\ call[p] = NoCall
      BY <2>5 DEF RestInv, Done, driverVars
    <3> QED
      BY <2>5, <3>1 DEF MmioHandler, ReadRegister, ReadCqHead, WriteRqTail,
        WriteRqTailHi, WriteBatchFactor, WriteDoorbell, SignalDoorbell, WriteSnapshot,
        WriteRefused, Reading, Writing, Idle
  <2> QED
    BY <2>1, <2>2, <2>3, <2>4, <2>5 DEF OwnStep
<1> QED
  BY <1>1, <1>2, DriverTypesInvariant, DriverIsGuest, CardTypeOK, PTL DEF DriverSpec

(* A CPU whose calls stay within a set of accesses stays within it.        *)
LEMMA QuietStep ==
  ASSUME TypeOK, DriverTypes, [DriverNext]_allVars,
         NEW S \in SUBSET Access, Idle \in S,
         \A a \in S : [a EXCEPT !.op = "signal"] \in S,
         ReadBoth("CQ_HEAD") \in Seq(S),
         NEW c \in CPUs, todo[c] \in Seq(S), vcpu[c] \in S,
         c \in Processes =>
           \A a \in Calls[c] : call'[c] = a => AccessesOf(a) \in Seq(S)
  PROVE  todo'[c] \in Seq(S) /\ vcpu'[c] \in S
<1> USE DEF DriverTypes, TypeOK
<1>1. ASSUME MmioHandler(c)
      PROVE  vcpu'[c] \in S
  BY <1>1, HandlerEnds
<1>2. ASSUME NextAccess(c)
      PROVE  todo'[c] \in Seq(S) /\ vcpu'[c] \in S
  <2>1. /\ todo[c] # <<>> /\ vcpu'[c] = Head(todo[c]) /\ todo'[c] = Tail(todo[c])
    BY <1>2 DEF NextAccess, MmioEnter
  <2> QED
    BY <2>1
<1>3. CASE c \in Processes
  <2>1. CASE ~OwnStep(c)
    BY <1>3, <2>1, OthersStep
  <2>2. CASE BeginCall(c)
    <3>1. PICK a \in Calls[c] :
            call' = [call EXCEPT ![c] = a] /\ todo' = [todo EXCEPT ![c] = AccessesOf(a)]
      BY <2>2 DEF BeginCall
    <3>2. call'[c] = a /\ todo'[c] = AccessesOf(a)
      BY <1>3, <3>1
    <3>3. AccessesOf(a) \in Seq(S)
      BY <1>3, <3>2
    <3> QED
      BY <2>2, <3>2, <3>3 DEF BeginCall, cardVars, vars, hostVars
  <2>3. CASE EndCall(c)
    BY <2>3 DEF EndCall, cardVars, vars, hostVars
  <2> QED
    BY <1>1, <1>2, <2>1, <2>2, <2>3 DEF OwnStep, driverVars
<1>4. CASE c = Isr
  <2>0. \A p \in Processes : p # c
    BY <1>4, DriverConstants
  <2>1. ASSUME NEW p \in Processes, Open(p) \/ Release(p) \/ BeginCall(p) \/ EndCall(p)
        PROVE  todo'[c] = todo[c] /\ vcpu' = vcpu
    BY <2>0, <2>1 DEF Open, Release, BeginCall, EndCall, cardVars, vars, hostVars
  <2>2. ASSUME NEW d \in CPUs, d # c, NextAccess(d)
        PROVE  todo'[c] = todo[c] /\ vcpu'[c] = vcpu[c]
    BY <2>2 DEF NextAccess, MmioEnter
  <2>3. CASE IsrEnter
    <3> DEFINE next == IF isr' = "fetch" THEN ReadBoth("CQ_HEAD") ELSE <<>>
    <3>1. todo' = [todo EXCEPT ![Isr] = next] /\ vcpu' = vcpu
      BY <2>3 DEF IsrEnter, TakeInterrupt, hostVars
    <3>2. next \in Seq(S)
      OBVIOUS
    <3> HIDE DEF next
    <3> QED
      BY <1>4, <3>1, <3>2
  <2>4. CASE IsrNext
    <3>1. vcpu' = vcpu /\ (todo' = todo \/ todo' = [todo EXCEPT ![Isr] = ReadBoth("CQ_HEAD")])
      BY <2>4 DEF IsrNext, cardVars, vars, hostVars
    <3> QED
      BY <1>4, <3>1
  <2>5. CASE CardStep
    <3>1. ASSUME NEW d \in CPUs, d # c, MmioHandler(d)
          PROVE  vcpu'[c] = vcpu[c]
      BY <3>1, HandlerEnds
    <3>2. ASSUME ThreadStep \/ SpuriousWakeup
          PROVE  vcpu' = vcpu
      BY <3>2 DEF ThreadStep, ThreadLock, ThreadCheck, ThreadSleep, ThreadStart,
        ThreadClearDoorbell, ThreadPop, ThreadClean, ThreadFlag, ThreadThreshold,
        ThreadIrqLock, ThreadNotify, SpuriousWakeup, hostVars
    <3> QED
      BY <1>1, <2>5, <3>1, <3>2 DEF CardStep, driverVars
  <2>6. CASE UNCHANGED allVars
    BY <2>6 DEF allVars, driverVars, cardVars, vars, hostVars
  <2> QED
    BY <1>2, <2>1, <2>2, <2>3, <2>4, <2>5, <2>6 DEF DriverNext
<1> QED
  BY <1>3, <1>4, DriverConstants

-----------------------------------------------------------------------------
(* The snapshot. *)

SetsSnapshot(a) ==
  a.op = "write" /\ a.reg \in {"SNAPSHOT_SIZE", "SNAPSHOT_ADDR", "SNAPSHOT_ADDR_HI"}

LeavesSnapshot == {a \in Access : ~SetsSnapshot(a)}

(* One program sets snapshots, and all of them by the ioctl.               *)
OneSetter ==
  /\ \A p, q \in Processes : \A a \in Calls[p], d \in Calls[q] :
       a.name = "SET_SNAPSHOT" /\ d.name = "SET_SNAPSHOT" => p = q
  /\ \A p \in Processes : \A a \in Calls[p] :
       a.name # "SET_SNAPSHOT" => AccessesOf(a) \in Seq(LeavesSnapshot)

Setting(c) == c \in Processes /\ call[c].name = "SET_SNAPSHOT"

(* The four writes of the ioctl, and what the card has after each.         *)
SizeLow(s) == Write("SNAPSHOT_SIZE", s.size.lo)
SizeHigh(s) == Write("OTHER", s.size.hi)
AddrLow(s) == Write("SNAPSHOT_ADDR", s.addr.lo)
AddrHigh(s) == Write("SNAPSHOT_ADDR_HI", s.addr.hi)

HasSize(s) == snapshot_size = s.size.lo

HasLow(s) == HasSize(s) /\ snapshot_addr = [hi |-> ZeroWord, lo |-> s.addr.lo]

HasAll(s) == HasSize(s) /\ snapshot_addr = s.addr

Setter(p, s) ==
  \/ /\ todo[p] = <<SizeLow(s), SizeHigh(s), AddrLow(s), AddrHigh(s)>>
     /\ vcpu[p] = Idle
  \/ /\ todo[p] = <<SizeHigh(s), AddrLow(s), AddrHigh(s)>>
     /\ vcpu[p] = SizeLow(s) \/ (vcpu[p] = Idle /\ HasSize(s))
  \/ /\ todo[p] = <<AddrLow(s), AddrHigh(s)>>
     /\ vcpu[p] \in {SizeHigh(s), Idle} /\ HasSize(s)
  \/ /\ todo[p] = <<AddrHigh(s)>>
     /\ (vcpu[p] = AddrLow(s) /\ HasSize(s)) \/ (vcpu[p] = Idle /\ HasLow(s))
  \/ /\ todo[p] = <<>>
     /\ (vcpu[p] = AddrHigh(s) /\ HasLow(s)) \/ (vcpu[p] = Idle /\ HasAll(s))

Whole ==
  \/ \E s \in Snapshots : HasAll(s)
  \/ snapshot_size = CleanStateSize /\ snapshot_addr = CleanState

SnapshotInv ==
  /\ \A c \in CPUs : ~Setting(c) =>
       todo[c] \in Seq(LeavesSnapshot) /\ vcpu[c] \in LeavesSnapshot
  /\ \A p \in Processes : Setting(p) => Setter(p, call[p].snapshot)
  /\ (\A p \in Processes : ~Setting(p)) => Whole

LEMMA SnapshotAccesses ==
  /\ Idle \in LeavesSnapshot /\ LeavesSnapshot \in SUBSET Access
  /\ \A a \in LeavesSnapshot : [a EXCEPT !.op = "signal"] \in LeavesSnapshot
  /\ ReadBoth("CQ_HEAD") \in Seq(LeavesSnapshot)
  /\ NoCall.name # "SET_SNAPSHOT"
<1>1. ReadLow \in LeavesSnapshot /\ ReadHigh \in LeavesSnapshot
  BY CardConstants DEF ReadLow, ReadHigh, Read, LeavesSnapshot, SetsSnapshot, Access, Register
<1>2. Idle \in LeavesSnapshot
  BY CardConstants DEF LeavesSnapshot, SetsSnapshot
<1>3. \A a \in LeavesSnapshot : [a EXCEPT !.op = "signal"] \in LeavesSnapshot
  BY DEF LeavesSnapshot, SetsSnapshot, Access
<1>4. ReadBoth("CQ_HEAD") \in Seq(LeavesSnapshot)
  <2>1. <<ReadLow, ReadHigh>> \in Seq(LeavesSnapshot)
    BY <1>1
  <2> QED
    BY <2>1, FetchAccesses
<1> QED
  BY <1>2, <1>3, <1>4 DEF LeavesSnapshot, NoCall

(* Two 8-byte writes in a row.                                             *)
LEMMA TwoPairs ==
  ASSUME NEW x, NEW y, NEW z, NEW w
  PROVE  <<x, y>> \o <<z, w>> = <<x, y, z, w>>
<1> DEFINE S == {x, y, z, w}
<1>1. <<x, y>> \in Seq(S) /\ <<z, w>> \in Seq(S) /\ <<x, y, z, w>> \in Seq(S)
  OBVIOUS
<1>2. /\ <<x, y>> \o <<z, w>> \in Seq(S)
      /\ Len(<<x, y>> \o <<z, w>>) = 4
      /\ \A i \in 1 .. 4 : (<<x, y>> \o <<z, w>>)[i] =
           IF i <= 2 THEN <<x, y>>[i] ELSE <<z, w>>[i - 2]
  <2>1. Len(<<x, y>>) = 2 /\ Len(<<z, w>>) = 2
    OBVIOUS
  <2> HIDE DEF S
  <2> QED
    BY <1>1, <2>1, ConcatProperties
<1>3. \A i \in 1 .. 4 : (<<x, y>> \o <<z, w>>)[i] = <<x, y, z, w>>[i]
  BY <1>2
<1>4. Len(<<x, y, z, w>>) = 4
  OBVIOUS
<1> HIDE DEF S
<1> QED
  BY <1>1, <1>2, <1>3, <1>4, SeqEqual

LEMMA SetSnapshotCall ==
  ASSUME NEW a \in Call, a.name = "SET_SNAPSHOT"
  PROVE  /\ a.snapshot \in Snapshots
         /\ AccessesOf(a) = <<SizeLow(a.snapshot), SizeHigh(a.snapshot),
                              AddrLow(a.snapshot), AddrHigh(a.snapshot)>>
<1>1. PICK s \in Snapshots : a = SetSnapshot(s)
  BY DEF Call, TestGiveVirtine, TestIoctls, TestAddrs, HandIn, PWrite, PRead,
    RingDoorbell, ModifyBatchFactor, GetMaxNumVirtines, SetSnapshot
<1>2. a.snapshot = s
  BY <1>1 DEF SetSnapshot
<1>3. AccessesOf(a) =
        WriteBoth("SNAPSHOT_SIZE", s.size) \o WriteBoth("SNAPSHOT_ADDR", s.addr)
  BY <1>1 DEF AccessesOf, SetSnapshot
<1>4. NextRegister["SNAPSHOT_SIZE"] = "OTHER"
      /\ NextRegister["SNAPSHOT_ADDR"] = "SNAPSHOT_ADDR_HI"
  BY DEF NextRegister, Register
<1>5. /\ WriteBoth("SNAPSHOT_SIZE", s.size) = <<SizeLow(s), SizeHigh(s)>>
      /\ WriteBoth("SNAPSHOT_ADDR", s.addr) = <<AddrLow(s), AddrHigh(s)>>
  BY <1>4 DEF WriteBoth, SizeLow, SizeHigh, AddrLow, AddrHigh
<1> QED
  BY <1>2, <1>3, <1>5, TwoPairs

(* What each of the four writes does to the card's snapshot.               *)
LEMMA SnapshotWrites ==
  ASSUME TypeOK, NEW p \in CPUs, NEW s \in Snapshots, MmioHandler(p),
         vcpu[p] \in {SizeLow(s), SizeHigh(s), AddrLow(s), AddrHigh(s)}
  PROVE  /\ vcpu'[p] = Idle
         /\ vcpu[p] = SizeLow(s) => HasSize(s)'
         /\ vcpu[p] = SizeHigh(s) => UNCHANGED snapshotVars
         /\ vcpu[p] = AddrLow(s) /\ HasSize(s) => HasLow(s)'
         /\ vcpu[p] = AddrHigh(s) /\ HasLow(s) => HasAll(s)'
<1>0. s.size.lo \in Word /\ s.addr \in Hwaddr
  BY DriverAssumption DEF DriverAssumption, Hwaddr
<1> USE DEF TypeOK, snapshotVars
<1>1. vcpu[p].op = "write" /\ vcpu[p].reg \in {"SNAPSHOT_SIZE", "OTHER", "SNAPSHOT_ADDR",
        "SNAPSHOT_ADDR_HI"}
  BY DEF SizeLow, SizeHigh, AddrLow, AddrHigh, Write
<1>2. WriteSnapshot(p) \/ WriteRefused(p)
  BY <1>1 DEF MmioHandler, ReadRegister, ReadCqHead, WriteRqTail, WriteRqTailHi,
    WriteBatchFactor, WriteDoorbell, SignalDoorbell, Reading, Writing
<1>3. vcpu'[p] = Idle
  BY <1>2 DEF WriteSnapshot, WriteRefused, MmioReturn
<1>4. CASE vcpu[p] = SizeLow(s)
  BY <1>2, <1>3, <1>4 DEF WriteSnapshot, WriteRefused, Writing, SizeLow, SizeHigh,
    AddrLow, AddrHigh, Write, HasSize
<1>5. CASE vcpu[p] = SizeHigh(s)
  BY <1>2, <1>3, <1>5 DEF WriteSnapshot, WriteRefused, Writing, SizeLow, SizeHigh,
    AddrLow, AddrHigh, Write
<1>6. CASE vcpu[p] = AddrLow(s)
  BY <1>2, <1>3, <1>6 DEF WriteSnapshot, WriteRefused, Writing, SizeLow, SizeHigh,
    AddrLow, AddrHigh, Write, HasSize, HasLow
<1>7. CASE vcpu[p] = AddrHigh(s)
  <2>1. snapshot_addr' = [snapshot_addr EXCEPT !.hi = s.addr.hi \cup @]
        /\ snapshot_size' = snapshot_size
    BY <1>2, <1>7 DEF WriteSnapshot, WriteRefused, Writing, AddrHigh, Write
  <2>2. HasLow(s) => HasAll(s)'
    BY <1>0, <2>1 DEF HasLow, HasSize, HasAll, Hwaddr, ZeroWord, Word
  <2>3. vcpu[p] # SizeLow(s) /\ vcpu[p] # SizeHigh(s) /\ vcpu[p] # AddrLow(s)
    BY <1>7 DEF SizeLow, SizeHigh, AddrLow, AddrHigh, Write
  <2> QED
    BY <1>3, <2>2, <2>3
<1> QED
  BY <1>4, <1>5, <1>6, <1>7

(* Only a register write of SET_SNAPSHOT changes the snapshot.             *)
LEMMA SnapshotStands ==
  ASSUME TypeOK, DriverTypes, SnapshotInv, [DriverNext]_allVars, ~UNCHANGED snapshotVars
  PROVE  \E p \in Processes : Setting(p) /\ MmioHandler(p) /\ UNCHANGED driverVars
<1>1. [DriverNext]_allVars => UNCHANGED snapshotVars \/ CardStep
  <2>1. ASSUME NEW p \in Processes, Open(p) \/ Release(p) \/ BeginCall(p) \/ EndCall(p)
        PROVE  UNCHANGED snapshotVars
    BY <2>1 DEF Open, Release, BeginCall, EndCall, cardVars, vars
  <2>2. ASSUME NEW c \in CPUs, NextAccess(c)
        PROVE  UNCHANGED snapshotVars
    BY <2>2 DEF NextAccess, MmioEnter
  <2>3. ASSUME IsrEnter \/ IsrNext \/ UNCHANGED allVars
        PROVE  UNCHANGED snapshotVars
    BY <2>3 DEF IsrEnter, TakeInterrupt, IsrNext, allVars, cardVars, vars
  <2> QED
    BY <2>1, <2>2, <2>3 DEF DriverNext
<1>2. ~(ThreadStep \/ SpuriousWakeup)
  BY DEF ThreadStep, ThreadLock, ThreadCheck, ThreadSleep,
    ThreadStart, ThreadClearDoorbell, ThreadPop, ThreadClean, ThreadFlag,
    ThreadThreshold, ThreadIrqLock, ThreadNotify, SpuriousWakeup
<1>3. PICK c \in CPUs : MmioHandler(c)
  BY <1>1, <1>2 DEF CardStep
<1>4. WriteSnapshot(c)
  BY <1>3 DEF MmioHandler, ReadRegister, ReadCqHead, WriteRqTail, WriteRqTailHi,
    WriteBatchFactor, WriteDoorbell, SignalDoorbell, WriteRefused
<1>5. SetsSnapshot(vcpu[c])
  BY <1>4 DEF WriteSnapshot, Writing, SetsSnapshot
<1>6. Setting(c)
  BY <1>5 DEF SnapshotInv, LeavesSnapshot
<1> QED
  BY <1>1, <1>3, <1>6 DEF Setting, CardStep

(* The setter's own steps.                                                 *)
LEMMA SetterStep ==
  ASSUME TypeOK, DriverTypes, RestInv, SnapshotInv, NEW p \in Processes, OwnStep(p),
         Setting(p)', NEW s \in Snapshots, s = call'[p].snapshot
  PROVE  Setter(p, s)'
<1>0. p \in CPUs /\ \A q \in Processes : Calls[q] \subseteq Call
  BY DriverConstants
<1>1. CASE BeginCall(p)
  <2>1. PICK a \in Calls[p] :
          call' = [call EXCEPT ![p] = a] /\ todo' = [todo EXCEPT ![p] = AccessesOf(a)]
    BY <1>1 DEF BeginCall
  <2>2. call'[p] = a /\ todo'[p] = AccessesOf(a)
    BY <1>0, <2>1 DEF DriverTypes
  <2>3. todo'[p] = <<SizeLow(s), SizeHigh(s), AddrLow(s), AddrHigh(s)>>
    BY <1>0, <2>2, SetSnapshotCall DEF Setting
  <2>4. vcpu'[p] = Idle
    BY <1>1 DEF BeginCall, RestInv, Done, cardVars, vars, hostVars
  <2> QED
    BY <2>3, <2>4 DEF Setter
<1>2. CASE EndCall(p)
  BY <1>2, SnapshotAccesses DEF EndCall, Setting, DriverTypes
<1>3. ASSUME call' = call
      PROVE  Setter(p, s)
  BY <1>3 DEF Setting, SnapshotInv
<1>4. \A a \in {SizeLow(s), SizeHigh(s), AddrLow(s), AddrHigh(s)} : a # Idle
  BY DEF SizeLow, SizeHigh, AddrLow, AddrHigh, Write, Idle
<1>5. CASE NextAccess(p)
  <2>1. /\ todo[p] # <<>> /\ vcpu[p] = Idle
        /\ vcpu'[p] = Head(todo[p]) /\ todo'[p] = Tail(todo[p])
        /\ UNCHANGED <<call, snapshot_size, snapshot_addr>>
    BY <1>0, <1>5 DEF NextAccess, MmioEnter, DriverTypes, TypeOK, snapshotVars
  <2>2. CASE todo[p] = <<SizeLow(s), SizeHigh(s), AddrLow(s), AddrHigh(s)>>
    <3>1. vcpu'[p] = SizeLow(s) /\ todo'[p] = <<SizeHigh(s), AddrLow(s), AddrHigh(s)>>
      BY <2>1, <2>2
    <3> QED
      BY <3>1 DEF Setter
  <2>3. CASE todo[p] = <<SizeHigh(s), AddrLow(s), AddrHigh(s)>> /\ HasSize(s)
    <3>1. vcpu'[p] = SizeHigh(s) /\ todo'[p] = <<AddrLow(s), AddrHigh(s)>>
      BY <2>1, <2>3
    <3> QED
      BY <2>1, <2>3, <3>1 DEF Setter, HasSize
  <2>4. CASE todo[p] = <<AddrLow(s), AddrHigh(s)>> /\ HasSize(s)
    <3>1. vcpu'[p] = AddrLow(s) /\ todo'[p] = <<AddrHigh(s)>>
      BY <2>1, <2>4
    <3> QED
      BY <2>1, <2>4, <3>1 DEF Setter, HasSize
  <2>5. CASE todo[p] = <<AddrHigh(s)>> /\ HasLow(s)
    <3>1. vcpu'[p] = AddrHigh(s) /\ todo'[p] = <<>>
      BY <2>1, <2>5
    <3> QED
      BY <2>1, <2>5, <3>1 DEF Setter, HasSize, HasLow
  <2> QED
    BY <1>3, <1>4, <2>1, <2>2, <2>3, <2>4, <2>5 DEF Setter
<1>6. CASE MmioHandler(p) /\ UNCHANGED driverVars
  <2>1. Setter(p, s) /\ UNCHANGED todo
    BY <1>3, <1>6 DEF driverVars
  <2>2. vcpu[p] # Idle
    BY <1>6 DEF MmioHandler, ReadRegister, ReadCqHead, WriteRqTail, WriteRqTailHi,
      WriteBatchFactor, WriteDoorbell, SignalDoorbell, WriteSnapshot, WriteRefused,
      Reading, Writing, Idle
  <2>3. vcpu[p] \in {SizeLow(s), SizeHigh(s), AddrLow(s), AddrHigh(s)}
    BY <2>1, <2>2 DEF Setter
  <2>4. /\ vcpu'[p] = Idle
        /\ vcpu[p] = SizeLow(s) => HasSize(s)'
        /\ vcpu[p] = SizeHigh(s) => UNCHANGED snapshotVars
        /\ vcpu[p] = AddrLow(s) /\ HasSize(s) => HasLow(s)'
        /\ vcpu[p] = AddrHigh(s) /\ HasLow(s) => HasAll(s)'
    BY <1>0, <1>6, <2>3, SnapshotWrites
  <2>5. UNCHANGED snapshotVars /\ HasSize(s) => HasSize(s)'
    BY DEF snapshotVars, HasSize
  <2> QED
    BY <2>1, <2>2, <2>4, <2>5 DEF Setter
<1> QED
  BY <1>1, <1>2, <1>5, <1>6 DEF OwnStep

LEMMA SnapshotStep ==
  ASSUME OneSetter, TypeOK, DriverTypes, RestInv, SnapshotInv, [DriverNext]_allVars
  PROVE  SnapshotInv'
<1>0. /\ Processes \subseteq CPUs /\ NoCall.name # "SET_SNAPSHOT"
      /\ \A p \in Processes : Calls[p] \subseteq Call
  BY DriverConstants, SnapshotAccesses
<1>1. DriverTypes'
  BY DriverTypesStep
<1>2. ASSUME NEW p \in Processes, Setting(p) \/ Setting(p)', NEW q \in Processes,
             Setting(q) \/ Setting(q)'
      PROVE  p = q
  <2>1. /\ \E a \in Calls[p] : a.name = "SET_SNAPSHOT"
        /\ \E d \in Calls[q] : d.name = "SET_SNAPSHOT"
    BY <1>0, <1>1, <1>2 DEF Setting, DriverTypes
  <2> QED
    BY <2>1 DEF OneSetter
<1>3. ASSUME NEW p \in Processes, Setting(p), ~Setting(p)'
      PROVE  EndCall(p)
  <2>1. OwnStep(p)
    BY <1>3, OthersStep DEF Setting
  <2>2. ~BeginCall(p) /\ ~NextAccess(p) /\ ~UNCHANGED driverVars
    BY <1>0, <1>3 DEF BeginCall, NextAccess, driverVars, Setting
  <2> QED
    BY <2>1, <2>2 DEF OwnStep
<1>4. ASSUME NEW c \in CPUs, ~Setting(c)'
      PROVE  todo'[c] \in Seq(LeavesSnapshot) /\ vcpu'[c] \in LeavesSnapshot
  <2>1. CASE Setting(c)
    <3>1. EndCall(c)
      BY <1>3, <1>4, <2>1 DEF Setting
    <3>2. todo'[c] = <<>> /\ vcpu'[c] = Idle
      BY <3>1 DEF EndCall, Done, cardVars, vars, hostVars
    <3>3. <<>> \in Seq(LeavesSnapshot)
      OBVIOUS
    <3> QED
      BY <3>2, <3>3, SnapshotAccesses
  <2>2. CASE ~Setting(c)
    <3>1. todo[c] \in Seq(LeavesSnapshot) /\ vcpu[c] \in LeavesSnapshot
      BY <2>2 DEF SnapshotInv
    <3>2. c \in Processes =>
            \A a \in Calls[c] : call'[c] = a => AccessesOf(a) \in Seq(LeavesSnapshot)
      BY <1>4 DEF Setting, OneSetter
    <3> QED
      BY <3>1, <3>2, QuietStep, SnapshotAccesses
  <2> QED
    BY <2>1, <2>2
<1>5. ASSUME NEW p \in Processes, Setting(p)'
      PROVE  Setter(p, call[p].snapshot)'
  <2>1. PICK s \in Snapshots : s = call'[p].snapshot
    BY <1>0, <1>1, <1>5, SetSnapshotCall DEF Setting, DriverTypes
  <2>2. Setter(p, s)'
    <3>1. CASE OwnStep(p)
      BY <1>5, <2>1, <3>1, SetterStep
    <3>2. CASE ~OwnStep(p)
      <4>1. UNCHANGED <<call[p], todo[p], vcpu[p]>>
        BY <3>2, OthersStep
      <4>2. UNCHANGED snapshotVars
        BY <1>2, <1>5, <3>2, SnapshotStands DEF OwnStep
      <4>3. Setter(p, s)
        BY <1>5, <2>1, <4>1 DEF Setting, SnapshotInv
      <4> QED
        BY <4>1, <4>2, <4>3 DEF Setter, HasSize, HasLow, HasAll, snapshotVars
    <3> QED
      BY <3>1, <3>2
  <2> QED
    BY <2>1, <2>2 DEF Setter, HasSize, HasLow, HasAll
<1>6. ASSUME \A p \in Processes : ~Setting(p)'
      PROVE  Whole'
  <2>1. UNCHANGED snapshotVars
    <3> SUFFICES ASSUME ~UNCHANGED snapshotVars PROVE FALSE
      OBVIOUS
    <3>1. PICK p \in Processes : Setting(p) /\ UNCHANGED driverVars
      BY SnapshotStands
    <3> QED
      BY <1>6, <3>1 DEF Setting, driverVars
  <2>2. Whole
    <3>1. CASE \A p \in Processes : ~Setting(p)
      BY <3>1 DEF SnapshotInv
    <3>2. ASSUME NEW p \in Processes, Setting(p)
          PROVE  Whole
      <4>1. EndCall(p)
        BY <1>3, <1>6, <3>2
      <4>2. PICK s \in Snapshots : s = call[p].snapshot
        BY <1>0, <3>2, SetSnapshotCall DEF Setting, DriverTypes
      <4>3. Setter(p, s) /\ todo[p] = <<>> /\ vcpu[p] = Idle
        BY <3>2, <4>1, <4>2 DEF EndCall, Done, SnapshotInv
      <4>4. AddrHigh(s) # Idle
        BY DEF AddrHigh, Write, Idle
      <4>5. HasAll(s)
        BY <4>3, <4>4 DEF Setter
      <4> QED
        BY <4>2, <4>5 DEF Whole
    <3> QED
      BY <3>1, <3>2
  <2> QED
    BY <2>1, <2>2 DEF Whole, HasAll, HasSize, snapshotVars
<1> QED
  BY <1>4, <1>5, <1>6 DEF SnapshotInv

(* fpga_char_main.c 150-168 against virtine_fpga.c 247-268: with one       *)
(* program that sets snapshots, the card never cleans a virtine with half  *)
(* of one, whatever the other programs do; a snapshot being set just then  *)
(* is the exception.                                                       *)
THEOREM CharSnapshotWhole ==
  ASSUME OneSetter
  PROVE  DriverSpec => []SnapshotWhole
<1>1. DriverInit => SnapshotInv
  <2> SUFFICES ASSUME DriverInit PROVE SnapshotInv
    OBVIOUS
  <2>1. \A c \in CPUs : todo[c] = <<>> /\ vcpu[c] = Idle
    BY DEF DriverInit, Init
  <2>2. \A p \in Processes : ~Setting(p)
    BY SnapshotAccesses DEF DriverInit, Setting
  <2>3. Whole
    BY DEF DriverInit, Init, Whole
  <2>4. <<>> \in Seq(LeavesSnapshot)
    OBVIOUS
  <2> QED
    BY <2>1, <2>2, <2>3, <2>4, SnapshotAccesses DEF SnapshotInv
<1>2. TypeOK /\ DriverTypes /\ RestInv /\ SnapshotInv /\ [DriverNext]_allVars => SnapshotInv'
  BY OneSetter, SnapshotStep
<1>3. SnapshotInv => SnapshotWhole
  <2> SUFFICES ASSUME SnapshotInv, \A p \in Processes : call[p].name # "SET_SNAPSHOT"
               PROVE  [size |-> snapshot_size, addr |-> snapshot_addr] \in
                        {[size |-> s.size.lo, addr |-> s.addr] : s \in Snapshots}
                        \cup {[size |-> CleanStateSize, addr |-> CleanState]}
    BY DEF SnapshotWhole
  <2>1. Whole
    BY DEF SnapshotInv, Setting
  <2> QED
    BY <2>1 DEF Whole, HasAll, HasSize
<1> QED
  BY <1>1, <1>2, <1>3, DriverTypesInvariant, RestInvariant, DriverIsGuest, CardTypeOK, PTL
  DEF DriverSpec

-----------------------------------------------------------------------------
(* The program that hands virtines in. *)

HandsIn(a) == a.op = "write" /\ a.reg \in {"RQ_TAIL", "RQ_TAIL_HI"}

LeavesRq == {a \in Access : ~HandsIn(a)}

(* One program writes the ready queue's register, and only whole addresses *)
(* of its virtines: split_write is shared by all.                          *)
OneWriter ==
  /\ \A p, q \in Processes : \A a \in Calls[p], d \in Calls[q] :
       a \in TestGiveVirtine /\ d \in TestGiveVirtine => p = q
  /\ \A p \in Processes : \A a \in Calls[p] :
       a \notin TestGiveVirtine => AccessesOf(a) \in Seq(LeavesRq)

Handing(c) == c \in Processes /\ call[c] \in TestGiveVirtine

GiveLow(v) == Write("RQ_TAIL", v.lo)
GiveHigh(v) == Write("RQ_TAIL_HI", v.hi)

HasHalf(v) == split_write = [hi |-> ZeroWord, lo |-> v.lo]

Writer(p, v) ==
  \/ todo[p] = <<GiveLow(v), GiveHigh(v)>> /\ vcpu[p] = Idle
  \/ /\ todo[p] = <<GiveHigh(v)>>
     /\ vcpu[p] = GiveLow(v) \/ (vcpu[p] = Idle /\ HasHalf(v))
  \/ /\ todo[p] = <<>>
     /\ (vcpu[p] = GiveHigh(v) /\ HasHalf(v)) \/ vcpu[p] = Idle

WriterInv ==
  /\ \A c \in CPUs : ~Handing(c) => todo[c] \in Seq(LeavesRq) /\ vcpu[c] \in LeavesRq
  /\ \A p \in Processes : Handing(p) => Writer(p, call[p].virtine)

LEMMA RqAccesses ==
  /\ Idle \in LeavesRq /\ LeavesRq \in SUBSET Access
  /\ \A a \in LeavesRq : [a EXCEPT !.op = "signal"] \in LeavesRq
  /\ ReadBoth("CQ_HEAD") \in Seq(LeavesRq)
  /\ NoCall \notin TestGiveVirtine
<1>1. ReadLow \in LeavesRq /\ ReadHigh \in LeavesRq
  BY CardConstants DEF ReadLow, ReadHigh, Read, LeavesRq, HandsIn, Access, Register
<1>2. Idle \in LeavesRq
  BY CardConstants DEF LeavesRq, HandsIn
<1>3. \A a \in LeavesRq : [a EXCEPT !.op = "signal"] \in LeavesRq
  BY DEF LeavesRq, HandsIn, Access
<1>4. ReadBoth("CQ_HEAD") \in Seq(LeavesRq)
  <2>1. <<ReadLow, ReadHigh>> \in Seq(LeavesRq)
    BY <1>1
  <2> QED
    BY <2>1, FetchAccesses
<1>5. NoCall \notin TestGiveVirtine
  BY DEF NoCall, TestGiveVirtine, HandIn, PWrite
<1> QED
  BY <1>2, <1>3, <1>4, <1>5 DEF LeavesRq

LEMMA HandInCall ==
  ASSUME NEW a \in TestGiveVirtine
  PROVE  /\ a.virtine \in Virtines /\ a.virtine \in Virtine
         /\ AccessesOf(a) = <<GiveLow(a.virtine), GiveHigh(a.virtine)>>
         /\ a = HandIn(a.virtine)
<1>1. PICK v \in Virtines : a = HandIn(v)
  BY DEF TestGiveVirtine
<1>2. a.virtine = v
  BY <1>1 DEF HandIn, PWrite
<1>3. NextRegister["RQ_TAIL"] = "RQ_TAIL_HI"
  BY DEF NextRegister, Register
<1>4. AccessesOf(a) = WriteBoth("RQ_TAIL", v)
  BY <1>1 DEF AccessesOf, HandIn, PWrite
<1> QED
  BY <1>1, <1>2, <1>3, <1>4, DriverConstants DEF WriteBoth, GiveLow, GiveHigh

(* The two writes of a pwrite: the second inserts the whole address.       *)
LEMMA GiveWrites ==
  ASSUME TypeOK, NEW p \in CPUs, NEW v \in Hwaddr, MmioHandler(p),
         vcpu[p] \in {GiveLow(v), GiveHigh(v)}
  PROVE  /\ vcpu'[p] = Idle
         /\ vcpu[p] = GiveLow(v) => HasHalf(v)' /\ rq' = rq
         /\ vcpu[p] = GiveHigh(v) /\ HasHalf(v) => rq' = InsertTail(rq, v)
         /\ UNCHANGED <<cq, threadVars, split_return>>
<1> USE DEF TypeOK, queueVars
<1>1. vcpu[p].op = "write" /\ vcpu[p].reg \in {"RQ_TAIL", "RQ_TAIL_HI"}
  BY DEF GiveLow, GiveHigh, Write
<1>2. WriteRqTail(p) \/ WriteRqTailHi(p)
  BY <1>1 DEF MmioHandler, ReadRegister, ReadCqHead, WriteBatchFactor, WriteDoorbell,
    SignalDoorbell, WriteSnapshot, WriteRefused, Reading, Writing
<1>3. vcpu'[p] = Idle /\ UNCHANGED <<cq, threadVars, split_return>>
  BY <1>2 DEF WriteRqTail, WriteRqTailHi, MmioReturn
<1>4. CASE vcpu[p] = GiveLow(v)
  BY <1>2, <1>3, <1>4 DEF WriteRqTail, WriteRqTailHi, Writing, GiveLow, GiveHigh, Write,
    HasHalf
<1>5. CASE vcpu[p] = GiveHigh(v)
  <2>1. /\ split_write' = [split_write EXCEPT !.hi = v.hi \cup @]
        /\ rq' = InsertTail(rq, split_write')
    BY <1>2, <1>5 DEF WriteRqTail, WriteRqTailHi, Writing, GiveHigh, Write
  <2>2. HasHalf(v) => split_write' = v
    BY <2>1 DEF HasHalf, Hwaddr, ZeroWord, Word
  <2>3. vcpu[p] # GiveLow(v)
    BY <1>5 DEF GiveLow, GiveHigh, Write
  <2> QED
    BY <1>3, <2>1, <2>2, <2>3
<1> QED
  BY <1>4, <1>5

(* Only the writes of HandIn change split_write and insert.                *)
LEMMA HandInStands ==
  ASSUME TypeOK, DriverTypes, WriterInv, [DriverNext]_allVars, split_write' # split_write
  PROVE  \E p \in Processes : Handing(p) /\ MmioHandler(p) /\ UNCHANGED driverVars
<1> USE DEF splitVars
<1>1. [DriverNext]_allVars => split_write' = split_write \/ CardStep
  <2>1. ASSUME NEW p \in Processes, Open(p) \/ Release(p) \/ BeginCall(p) \/ EndCall(p)
        PROVE  split_write' = split_write
    BY <2>1 DEF Open, Release, BeginCall, EndCall, cardVars, vars
  <2>2. ASSUME NEW c \in CPUs, NextAccess(c)
        PROVE  split_write' = split_write
    BY <2>2 DEF NextAccess, MmioEnter
  <2>3. ASSUME IsrEnter \/ IsrNext \/ UNCHANGED allVars
        PROVE  split_write' = split_write
    BY <2>3 DEF IsrEnter, TakeInterrupt, IsrNext, allVars, cardVars, vars
  <2> QED
    BY <2>1, <2>2, <2>3 DEF DriverNext
<1>2. ~(ThreadStep \/ SpuriousWakeup)
  BY DEF ThreadStep, ThreadLock, ThreadCheck, ThreadSleep,
    ThreadStart, ThreadClearDoorbell, ThreadPop, ThreadClean, ThreadFlag,
    ThreadThreshold, ThreadIrqLock, ThreadNotify, SpuriousWakeup
<1>3. PICK c \in CPUs : MmioHandler(c)
  BY <1>1, <1>2 DEF CardStep
<1>4. WriteRqTail(c) \/ WriteRqTailHi(c)
  BY <1>3 DEF MmioHandler, ReadRegister, ReadCqHead,
    WriteBatchFactor, WriteDoorbell, SignalDoorbell, WriteSnapshot, WriteRefused
<1>5. HandsIn(vcpu[c])
  BY <1>4 DEF WriteRqTail, WriteRqTailHi, Writing, HandsIn
<1>6. Handing(c)
  BY <1>5 DEF WriterInv, LeavesRq
<1> QED
  BY <1>1, <1>3, <1>6 DEF Handing, CardStep

LEMMA WriterStep ==
  ASSUME TypeOK, DriverTypes, RestInv, WriterInv, NEW p \in Processes, OwnStep(p),
         Handing(p)', NEW v \in Virtines, v = call'[p].virtine
  PROVE  Writer(p, v)'
<1>0. p \in CPUs /\ v \in Hwaddr
  BY DriverConstants DEF Virtine
<1>1. CASE BeginCall(p)
  <2>1. PICK a \in Calls[p] :
          call' = [call EXCEPT ![p] = a] /\ todo' = [todo EXCEPT ![p] = AccessesOf(a)]
    BY <1>1 DEF BeginCall
  <2>2. call'[p] = a /\ todo'[p] = AccessesOf(a)
    BY <1>0, <2>1 DEF DriverTypes
  <2>3. todo'[p] = <<GiveLow(v), GiveHigh(v)>>
    BY <2>2, HandInCall DEF Handing
  <2>4. vcpu'[p] = Idle
    BY <1>1 DEF BeginCall, RestInv, Done, cardVars, vars, hostVars
  <2> QED
    BY <2>3, <2>4 DEF Writer
<1>2. CASE EndCall(p)
  BY <1>2, RqAccesses DEF EndCall, Handing, DriverTypes
<1>3. ASSUME call' = call
      PROVE  Writer(p, v)
  BY <1>3 DEF Handing, WriterInv
<1>4. GiveLow(v) # Idle /\ GiveHigh(v) # Idle
  BY DEF GiveLow, GiveHigh, Write, Idle
<1>5. CASE NextAccess(p)
  <2>1. /\ todo[p] # <<>> /\ vcpu[p] = Idle
        /\ vcpu'[p] = Head(todo[p]) /\ todo'[p] = Tail(todo[p])
        /\ UNCHANGED <<call, split_write>>
    BY <1>0, <1>5 DEF NextAccess, MmioEnter, DriverTypes, TypeOK, splitVars
  <2>2. CASE todo[p] = <<GiveLow(v), GiveHigh(v)>>
    <3>1. vcpu'[p] = GiveLow(v) /\ todo'[p] = <<GiveHigh(v)>>
      BY <2>1, <2>2
    <3> QED
      BY <3>1 DEF Writer
  <2>3. CASE todo[p] = <<GiveHigh(v)>> /\ HasHalf(v)
    <3>1. vcpu'[p] = GiveHigh(v) /\ todo'[p] = <<>>
      BY <2>1, <2>3
    <3> QED
      BY <2>1, <2>3, <3>1 DEF Writer, HasHalf
  <2> QED
    BY <1>3, <1>4, <2>1, <2>2, <2>3 DEF Writer
<1>6. CASE MmioHandler(p) /\ UNCHANGED driverVars
  <2>1. Writer(p, v) /\ UNCHANGED todo
    BY <1>3, <1>6 DEF driverVars
  <2>2. vcpu[p] # Idle
    BY <1>6 DEF MmioHandler, ReadRegister, ReadCqHead, WriteRqTail, WriteRqTailHi,
      WriteBatchFactor, WriteDoorbell, SignalDoorbell, WriteSnapshot, WriteRefused,
      Reading, Writing, Idle
  <2>3. vcpu[p] \in {GiveLow(v), GiveHigh(v)}
    BY <2>1, <2>2 DEF Writer
  <2>4. vcpu'[p] = Idle /\ (vcpu[p] = GiveLow(v) => HasHalf(v)')
    BY <1>0, <1>6, <2>3, GiveWrites
  <2> QED
    BY <2>1, <2>2, <2>4 DEF Writer
<1> QED
  BY <1>1, <1>2, <1>5, <1>6 DEF OwnStep

(* Nobody else writes split_write between the two halves of an address.    *)
LEMMA WriterInvStep ==
  ASSUME OneWriter, TypeOK, DriverTypes, RestInv, WriterInv, [DriverNext]_allVars
  PROVE  WriterInv'
<1>0. Processes \subseteq CPUs /\ NoCall \notin TestGiveVirtine
  BY DriverConstants, RqAccesses
<1>1. DriverTypes'
  BY DriverTypesStep
<1>2. ASSUME NEW p \in Processes, Handing(p) \/ Handing(p)', NEW q \in Processes,
             Handing(q) \/ Handing(q)'
      PROVE  p = q
  <2>1. /\ \E a \in Calls[p] : a \in TestGiveVirtine
        /\ \E d \in Calls[q] : d \in TestGiveVirtine
    BY <1>0, <1>1, <1>2 DEF Handing, DriverTypes
  <2> QED
    BY <2>1 DEF OneWriter
<1>3. ASSUME NEW p \in Processes, Handing(p), ~Handing(p)'
      PROVE  EndCall(p)
  <2>1. OwnStep(p)
    BY <1>3, OthersStep DEF Handing
  <2>2. ~BeginCall(p) /\ ~NextAccess(p) /\ ~UNCHANGED driverVars
    BY <1>0, <1>3 DEF BeginCall, NextAccess, driverVars, Handing
  <2> QED
    BY <2>1, <2>2 DEF OwnStep
<1>4. ASSUME NEW c \in CPUs, ~Handing(c)'
      PROVE  todo'[c] \in Seq(LeavesRq) /\ vcpu'[c] \in LeavesRq
  <2>1. CASE Handing(c)
    <3>1. EndCall(c)
      BY <1>3, <1>4, <2>1 DEF Handing
    <3>2. todo'[c] = <<>> /\ vcpu'[c] = Idle
      BY <3>1 DEF EndCall, Done, cardVars, vars, hostVars
    <3>3. <<>> \in Seq(LeavesRq)
      OBVIOUS
    <3> QED
      BY <3>2, <3>3, RqAccesses
  <2>2. CASE ~Handing(c)
    <3>1. todo[c] \in Seq(LeavesRq) /\ vcpu[c] \in LeavesRq
      BY <2>2 DEF WriterInv
    <3>2. c \in Processes =>
            \A a \in Calls[c] : call'[c] = a => AccessesOf(a) \in Seq(LeavesRq)
      BY <1>4 DEF Handing, OneWriter
    <3> QED
      BY <3>1, <3>2, QuietStep, RqAccesses
  <2> QED
    BY <2>1, <2>2
<1>5. ASSUME NEW p \in Processes, Handing(p)'
      PROVE  Writer(p, call[p].virtine)'
  <2>1. PICK v \in Virtines : v = call'[p].virtine
    BY <1>5, HandInCall DEF Handing
  <2>2. Writer(p, v)'
    <3>1. CASE OwnStep(p)
      BY <1>5, <2>1, <3>1, WriterStep
    <3>2. CASE ~OwnStep(p)
      <4>1. UNCHANGED <<call[p], todo[p], vcpu[p]>>
        BY <3>2, OthersStep
      <4>2. split_write' = split_write
        BY <1>2, <1>5, <3>2, HandInStands DEF OwnStep
      <4>3. Writer(p, v)
        BY <1>5, <2>1, <4>1 DEF Handing, WriterInv
      <4> QED
        BY <4>1, <4>2, <4>3 DEF Writer, HasHalf
    <3> QED
      BY <3>1, <3>2
  <2> QED
    BY <2>1, <2>2 DEF Writer, HasHalf
<1> QED
  BY <1>4, <1>5 DEF WriterInv

(* Its second write completes an address of a virtine, whatever the other  *)
(* programs and the handler do in between.                                 *)
LEMMA WriterIsWhole ==
  ASSUME TypeOK, DriverTypes, WriterInv
  PROVE  WholeAddresses
<1> SUFFICES ASSUME NEW p \in CPUs, WriteRqTailHi(p)
             PROVE  split_write' \in Virtine
  BY DEF WholeAddresses
<1>1. /\ vcpu[p].op = "write" /\ vcpu[p].reg = "RQ_TAIL_HI"
      /\ split_write' = [split_write EXCEPT !.hi = vcpu[p].val \cup @]
  BY DEF WriteRqTailHi, Writing
<1>2. Handing(p)
  BY <1>1 DEF WriterInv, LeavesRq, HandsIn
<1>3. PICK v \in Virtines : v = call[p].virtine /\ v \in Virtine
  BY <1>2, HandInCall DEF Handing
<1>4. Writer(p, v)
  BY <1>2, <1>3 DEF WriterInv, Handing
<1>5. vcpu[p] # Idle /\ vcpu[p] # GiveLow(v)
  BY <1>1 DEF Idle, GiveLow, Write
<1>6. vcpu[p] = GiveHigh(v) /\ HasHalf(v)
  BY <1>4, <1>5 DEF Writer
<1>7. split_write' = v
  BY <1>1, <1>3, <1>6 DEF GiveHigh, Write, HasHalf, Virtine, Hwaddr, ZeroWord, Word
<1> QED
  BY <1>3, <1>7

LEMMA WriterInit == DriverInit => WriterInv /\ WellFormed(rq)
<1> SUFFICES ASSUME DriverInit PROVE WriterInv /\ WellFormed(rq)
  OBVIOUS
<1>1. \A c \in CPUs : todo[c] = <<>> /\ vcpu[c] = Idle
  BY DEF DriverInit, Init
<1>2. \A p \in Processes : call[p] = NoCall
  BY DEF DriverInit
<1>3. <<>> \in Seq(LeavesRq)
  OBVIOUS
<1>4. WriterInv
  BY <1>1, <1>2, <1>3, RqAccesses DEF WriterInv, Handing
<1>5. WellFormed(rq)
  BY EmptyQueueWellFormed DEF DriverInit, Init
<1> QED
  BY <1>4, <1>5

(* chardev.c 182-320 on virtine_fpga.c 129-397: with one program that      *)
(* hands virtines in, also ones below 4 GB, the card under the driver is   *)
(* the cleanup service for whatever the other programs do, readers of the  *)
(* complete queue included: in order, once for each time, and none lost    *)
(* but where a queue is full.                                              *)
THEOREM CharImplementsService ==
  ASSUME OneWriter
  PROVE  DriverSpec => ImplementsService
<1>1. DriverInit => Service!Init
  BY ServiceInit DEF DriverInit
<1>2. TypeOK /\ DriverTypes /\ RestInv /\ WriterInv /\ WellFormed(rq) /\ [DriverNext]_allVars
        => WriterInv' /\ WellFormed(rq)'
  <2> SUFFICES ASSUME TypeOK, DriverTypes, RestInv, WriterInv, WellFormed(rq),
                      [DriverNext]_allVars
               PROVE  WriterInv' /\ WellFormed(rq)'
    OBVIOUS
  <2>1. WriterInv'
    BY OneWriter, WriterInvStep
  <2>2. WellFormed(rq')
    BY WriterIsWhole, DriverStepIsCardStep, ReadyQueueStep
  <2> QED
    BY <2>1, <2>2 DEF WellFormed, Distance, Occupancy
<1>3. TypeOK /\ DriverTypes /\ LockDiscipline /\ QueueInv /\ WriterInv /\ WellFormed(rq)
        /\ [DriverNext]_allVars => [Service!Next]_(Service!vars)
  BY WriterIsWhole, DriverStepIsCardStep, ServiceStep
<1> QED
  BY <1>1, <1>2, <1>3, WriterInit, DriverTypesInvariant, RestInvariant, DriverIsGuest,
     CardTypeOK, CardLockDiscipline, QueueInvariant, PTL
  DEF DriverSpec, ImplementsService, Service!Spec

-----------------------------------------------------------------------------
(* Where the virtines are. *)

(* No more virtines exist than a queue has room for.                       *)
VirtinesFit ==
  IsFiniteSet(Virtines) /\ Cardinality(Virtines) <= NUM_POSSIBLE_VIRTINES

(* The places that can hold one: a slot of either queue, a pwrite under    *)
(* way, the thread's local variable, the handler's read and its array.     *)
RqSlot(s) == <<"rq", s>>
CqSlot(s) == <<"cq", s>>
InCall(p) == <<"call", p>>
InThread == <<"thread", 0>>
InHandler == <<"handler", 0>>
InArray(i) == <<"array", i>>

Place ==
  {RqSlot(s) : s \in Slots} \cup {CqSlot(s) : s \in Slots}
  \cup {InCall(p) : p \in Processes} \cup {InThread, InHandler}
  \cup {InArray(i) : i \in Nat}

CallHolds(p) == IF call[p] \in TestGiveVirtine /\ ~Done(p) THEN call[p].virtine ELSE Zero

ThreadHolds == IF thread = "clean" THEN virtine_to_clean ELSE Zero

HandlerHolds ==
  IF isr # "fetch" THEN Zero
  ELSE IF Done(Isr) THEN Result(Isr)
  ELSE IF (Len(todo[Isr]) = 1 /\ vcpu[Isr] = Idle) \/ Reading(Isr, "CQ_HEAD_HI")
  THEN split_return
  ELSE Zero

ArrayHolds(i) == IF i \in DOMAIN clean_virtines THEN clean_virtines[i] ELSE Zero

Held ==
  [x \in Place |->
     CASE x[1] = "rq"      -> rq.buffer[x[2]]
       [] x[1] = "cq"      -> cq.buffer[x[2]]
       [] x[1] = "call"    -> CallHolds(x[2])
       [] x[1] = "thread"  -> ThreadHolds
       [] x[1] = "handler" -> HandlerHolds
       [] OTHER            -> ArrayHolds(x[2])]

HeldAt ==
  /\ \A s \in Slots : Held[RqSlot(s)] = rq.buffer[s] /\ Held[CqSlot(s)] = cq.buffer[s]
  /\ \A p \in Processes : Held[InCall(p)] = CallHolds(p)
  /\ Held[InThread] = ThreadHolds /\ Held[InHandler] = HandlerHolds
  /\ \A i \in Nat : Held[InArray(i)] = ArrayHolds(i)

LEMMA HeldNow == HeldAt
BY DEF HeldAt, Held, Place, RqSlot, CqSlot, InCall, InThread, InHandler, InArray

LEMMA HeldNext == HeldAt'
BY HeldNow, PTL

(* Two places are different ones.                                          *)
LEMMA Places ==
  /\ \A s, t \in Slots : /\ RqSlot(s) = RqSlot(t) => s = t
                         /\ CqSlot(s) = CqSlot(t) => s = t
                         /\ RqSlot(s) # CqSlot(t)
  /\ \A p, q \in Processes : InCall(p) = InCall(q) => p = q
  /\ \A i, j \in Nat : InArray(i) = InArray(j) => i = j
  /\ \A s \in Slots : \A p \in Processes : RqSlot(s) # InCall(p) /\ CqSlot(s) # InCall(p)
  /\ \A s \in Slots : /\ RqSlot(s) # InThread /\ RqSlot(s) # InHandler
                      /\ CqSlot(s) # InThread /\ CqSlot(s) # InHandler
  /\ \A s \in Slots : \A i \in Nat : RqSlot(s) # InArray(i) /\ CqSlot(s) # InArray(i)
  /\ \A p \in Processes : InCall(p) # InThread /\ InCall(p) # InHandler
  /\ \A p \in Processes : \A i \in Nat : InCall(p) # InArray(i)
  /\ \A i \in Nat : InThread # InArray(i) /\ InHandler # InArray(i)
  /\ InThread # InHandler
BY DEF RqSlot, CqSlot, InCall, InThread, InHandler, InArray

LEMMA IsPlace ==
  /\ \A s \in Slots : RqSlot(s) \in Place /\ CqSlot(s) \in Place
  /\ \A p \in Processes : InCall(p) \in Place
  /\ InThread \in Place /\ InHandler \in Place
  /\ \A i \in Nat : InArray(i) \in Place
BY DEF Place

LEMMA PlaceCases ==
  ASSUME NEW x \in Place
  PROVE  \/ \E s \in Slots : x = RqSlot(s) \/ x = CqSlot(s)
         \/ \E p \in Processes : x = InCall(p)
         \/ x = InThread \/ x = InHandler
         \/ \E i \in Nat : x = InArray(i)
BY DEF Place

(* No virtine is in two places, and those that are in one are the set S.   *)
Once(H, S) ==
  /\ \A x, y \in Place : H[x] = H[y] /\ H[x] # Zero => x = y
  /\ \A x \in Place : H[x] # Zero => H[x] \in S
  /\ \A v \in S : v # Zero /\ \E x \in Place : H[x] = v

(* A virtine goes from one place to a free one ...                         *)
LEMMA Moved ==
  ASSUME NEW H, NEW G, NEW S, Once(H, S), NEW x \in Place, NEW y \in Place, x # y,
         H[y] = Zero, G[x] = Zero, G[y] = H[x],
         \A z \in Place : z # x /\ z # y => G[z] = H[z]
  PROVE  Once(G, S)
BY DEF Once

(* ... stays where it is ...                                               *)
LEMMA Stayed ==
  ASSUME NEW H, NEW G, NEW S, Once(H, S), \A z \in Place : G[z] = H[z]
  PROVE  Once(G, S)
BY DEF Once

(* ... or is handed in.                                                    *)
LEMMA Appeared ==
  ASSUME NEW H, NEW G, NEW S, Once(H, S), NEW x \in Place, NEW v, v # Zero, v \notin S,
         H[x] = Zero, G[x] = v, \A z \in Place : z # x => G[z] = H[z]
  PROVE  Once(G, S \cup {v})
BY DEF Once

(* What comes back leaves all of its places.                               *)
LEMMA Vanished ==
  ASSUME NEW H, NEW G, NEW S, Once(H, S), NEW P \in SUBSET Place,
         \A x \in P : G[x] = Zero, \A z \in Place : z \notin P => G[z] = H[z]
  PROVE  Once(G, S \ {H[x] : x \in P})
<1>1. \A x, y \in Place : G[x] = G[y] /\ G[x] # Zero => x = y
  BY DEF Once
<1>2. ASSUME NEW x \in Place, G[x] # Zero
      PROVE  G[x] \in S \ {H[y] : y \in P}
  BY <1>2 DEF Once
<1>3. ASSUME NEW v \in S \ {H[x] : x \in P}
      PROVE  v # Zero /\ \E x \in Place : G[x] = v
  BY <1>3 DEF Once
<1> QED
  BY <1>1, <1>2, <1>3 DEF Once

(* Beside a virtine that is elsewhere, a queue has a free slot.            *)
LEMMA Room ==
  ASSUME VirtinesFit, NEW H, NEW S, S \subseteq Virtines, Once(H, S),
         NEW f \in [Slots -> Place], \A s, t \in Slots : f[s] = f[t] => s = t,
         NEW x \in Place, \A s \in Slots : f[s] # x, H[x] # Zero
  PROVE  \E s \in Slots : H[f[s]] = Zero
<1> SUFFICES ASSUME \A s \in Slots : H[f[s]] # Zero PROVE FALSE
  OBVIOUS
<1> DEFINE N == NUM_POSSIBLE_VIRTINES
           g == [i \in 0 .. N |-> IF i = N THEN H[x] ELSE H[f[i]]]
<1>0. N \in Nat /\ Slots = 0 .. N - 1
  BY NumAssumption DEF Slots
<1>1. ASSUME NEW i \in 0 .. N, i # N
      PROVE  i \in Slots
  BY <1>0, <1>1
<1>2. g \in [0 .. N -> Virtines]
  <2> SUFFICES ASSUME NEW i \in 0 .. N PROVE g[i] \in Virtines
    OBVIOUS
  <2>1. CASE i = N
    BY <2>1 DEF Once
  <2>2. CASE i # N
    <3>1. f[i] \in Place /\ H[f[i]] # Zero
      BY <1>1, <2>2
    <3> QED
      BY <2>2, <3>1 DEF Once
  <2> QED
    BY <2>1, <2>2
<1>3. IsFiniteSet(0 .. N) /\ Cardinality(0 .. N) = N + 1
  BY <1>0, FS_Interval
<1>4. Cardinality(Virtines) \in Nat
  BY FS_CardinalityType DEF VirtinesFit
<1>5. Cardinality(Virtines) < Cardinality(0 .. N)
  BY <1>0, <1>3, <1>4 DEF VirtinesFit
<1> HIDE DEF N, g
<1>6. PICK i, j \in 0 .. N : i # j /\ g[i] = g[j]
  <2>1. IsFiniteSet(Virtines) /\ IsFiniteSet(0 .. N)
    BY <1>3 DEF VirtinesFit
  <2> QED
    BY ONLY <1>2, <1>5, <2>1, FS_PigeonHole
<1> USE DEF N, g
<1>7. CASE i = N
  <2>1. j \in Slots /\ f[j] \in Place /\ H[f[j]] = H[x]
    BY <1>1, <1>6, <1>7
  <2> QED
    BY <2>1 DEF Once
<1>8. CASE j = N
  <2>1. i \in Slots /\ f[i] \in Place /\ H[f[i]] = H[x]
    BY <1>1, <1>6, <1>8
  <2> QED
    BY <2>1 DEF Once
<1>9. CASE i # N /\ j # N
  <2>1. i \in Slots /\ j \in Slots /\ H[f[i]] = H[f[j]] /\ H[f[i]] # Zero
    BY <1>1, <1>6, <1>9
  <2> QED
    BY <1>6, <2>1 DEF Once
<1> QED
  BY <1>7, <1>8, <1>9

(* A queue with a free slot is not full.                                   *)
LEMMA NotFull ==
  ASSUME NEW q, WellFormed(q), NEW s \in Slots, q.buffer[s] = Zero
  PROVE  Occupancy(q) < NUM_POSSIBLE_VIRTINES
<1>1. q \in Queue /\ ~(Distance(q, s) < Occupancy(q))
  BY DEF WellFormed
<1>2. Distance(q, s) \in Slots /\ Occupancy(q) \in 0 .. NUM_POSSIBLE_VIRTINES
  BY <1>1, OccupancyType
<1> QED
  BY <1>1, <1>2, NumAssumption DEF Slots

(* insert_tail and pop_head, as what happens to the slots.                 *)
LEMMA InsertMoves ==
  ASSUME NEW q, WellFormed(q), NEW v \in Virtine, NEW s \in Slots, q.buffer[s] = Zero
  PROVE  /\ q.tail \in Slots /\ q.buffer[q.tail] = Zero
         /\ InsertTail(q, v).buffer[q.tail] = v
         /\ \A t \in Slots : t # q.tail => InsertTail(q, v).buffer[t] = q.buffer[t]
         /\ WellFormed(InsertTail(q, v))
<1>1. Occupancy(q) < NUM_POSSIBLE_VIRTINES /\ q.buffer \in [Slots -> Hwaddr]
  BY NotFull DEF WellFormed, Queue
<1>2. /\ q.tail \in Slots /\ Distance(q, q.tail) = Occupancy(q)
      /\ InsertTail(q, v).buffer = [q.buffer EXCEPT ![q.tail] = v]
      /\ WellFormed(InsertTail(q, v))
  BY <1>1, InsertTailEffect
<1>3. q.buffer[q.tail] = Zero
  <2>1. Occupancy(q) \in Int
    BY OccupancyType, NumAssumption DEF WellFormed
  <2>2. ~(Distance(q, q.tail) < Occupancy(q))
    BY <1>2, <2>1
  <2> QED
    BY <1>2, <2>2 DEF WellFormed
<1> QED
  BY <1>1, <1>2, <1>3

LEMMA PopMoves ==
  ASSUME NEW q, WellFormed(q)
  PROVE  /\ HeadValue(q) = Zero => PopHead(q) = q
         /\ HeadValue(q) # Zero =>
              /\ q.head \in Slots /\ HeadValue(q) = q.buffer[q.head]
              /\ PopHead(q).buffer[q.head] = Zero
              /\ \A t \in Slots : t # q.head => PopHead(q).buffer[t] = q.buffer[t]
         /\ WellFormed(PopHead(q))
<1>1. q.buffer \in [Slots -> Hwaddr]
  BY DEF WellFormed, Queue
<1>2. CASE HeadValue(q) = Zero
  <2>1. Occupancy(q) = 0 /\ ~CanPop(q)
    BY <1>2, ValueTests
  <2> QED
    BY <1>2, <2>1 DEF PopHead
<1>3. CASE HeadValue(q) # Zero
  <2>1. Occupancy(q) > 0
    <3>1. Occupancy(q) \in 0 .. NUM_POSSIBLE_VIRTINES /\ Occupancy(q) # 0
      BY <1>3, ValueTests, OccupancyType DEF WellFormed
    <3> QED
      BY <3>1, NumAssumption
  <2>2. /\ q.head \in Slots
        /\ PopHead(q).buffer = [q.buffer EXCEPT ![q.head] = Zero]
        /\ WellFormed(PopHead(q))
    BY <2>1, PopHeadEffect
  <2> QED
    BY <1>1, <1>3, <2>2 DEF HeadValue
<1> QED
  BY <1>2, <1>3

(* What the handler holds, by where it is in its read.                     *)
HandlerHoldsAt ==
  /\ isr # "fetch" \/ BeforeLow \/ InLow => HandlerHolds = Zero
  /\ isr = "fetch" /\ (GotLow \/ InHigh) => HandlerHolds = split_return
  /\ isr = "fetch" /\ Done(Isr) => HandlerHolds = Result(Isr)

LEMMA HandlerHoldsNow == HandlerHoldsAt
<1>1. /\ ReadLow.reg # "CQ_HEAD_HI" /\ Idle.reg # "CQ_HEAD_HI"
      /\ ReadHigh.op = "read" /\ ReadHigh.reg = "CQ_HEAD_HI"
  BY DEF ReadLow, ReadHigh, Read, Idle
<1>2. <<ReadHigh>> # <<>> /\ Len(<<ReadHigh>>) = 1
  OBVIOUS
<1>3. <<ReadLow, ReadHigh>> # <<>> /\ Len(<<ReadLow, ReadHigh>>) # 1
  OBVIOUS
<1>4. isr # "fetch" => HandlerHolds = Zero
  BY DEF HandlerHolds
<1>5. isr = "fetch" /\ BeforeLow => HandlerHolds = Zero
  BY <1>1, <1>3 DEF HandlerHolds, BeforeLow, Done, Reading
<1>6. isr = "fetch" /\ InLow => HandlerHolds = Zero
  BY <1>1, <1>2, FetchAccesses DEF HandlerHolds, InLow, Done, Reading
<1>7. isr = "fetch" /\ GotLow => HandlerHolds = split_return
  BY <1>2 DEF HandlerHolds, GotLow, Done
<1>8. isr = "fetch" /\ InHigh => HandlerHolds = split_return
  BY <1>1, FetchAccesses DEF HandlerHolds, InHigh, Done, Reading
<1>9. isr = "fetch" /\ Done(Isr) => HandlerHolds = Result(Isr)
  BY DEF HandlerHolds
<1> QED
  BY <1>4, <1>5, <1>6, <1>7, <1>8, <1>9 DEF HandlerHoldsAt

LEMMA HandlerHoldsNext == HandlerHoldsAt'
BY HandlerHoldsNow, PTL

(* Every virtine that is given is in one place, and no other one is in any.*)
FlowInv == Once(Held, given) /\ given \subseteq Virtines /\ WellFormed(rq)

LEMMA FlowStands ==
  ASSUME FlowInv, UNCHANGED <<rq, cq, clean_virtines, given>>,
         \A p \in Processes : CallHolds(p)' = CallHolds(p),
         ThreadHolds' = ThreadHolds, HandlerHolds' = HandlerHolds
  PROVE  FlowInv'
<1>1. \A i \in Nat : ArrayHolds(i)' = ArrayHolds(i)
  BY DEF ArrayHolds
<1>2. \A x \in Place : Held'[x] = Held[x]
  BY <1>1, HeldNow, HeldNext, PlaceCases DEF HeldAt
<1>3. Once(Held, given)'
  <2>1. Once(Held, given)
    BY DEF FlowInv
  <2>2. Once(Held', given)
    BY <1>2, <2>1, Stayed
  <2> QED
    BY <2>2
<1>4. WellFormed(rq')
  BY DEF FlowInv
<1> QED
  BY <1>3, <1>4 DEF FlowInv

(* A call that begins hands its virtine in; one that ends has handed its   *)
(* virtine to the card before, and fetches none.                           *)
LEMMA CallFlow ==
  ASSUME OnlyHandlerFetches, TypeOK, DriverTypes, RestInv, FlowInv, NEW p \in Processes,
         Open(p) \/ Release(p) \/ BeginCall(p) \/ EndCall(p)
  PROVE  FlowInv'
<1>0. p \in CPUs /\ Isr \in CPUs /\ p # Isr /\ Processes \subseteq CPUs
  BY DriverConstants
<1>1. UNCHANGED <<isr, low, clean_virtines, rq, cq, thread, virtine_to_clean, split_return,
                  vcpu, mmio_val>>
  BY DEF Open, Release, BeginCall, EndCall, cardVars, vars, queueVars, threadVars,
    splitVars, hostVars
<1>2. /\ todo' = todo \/ \E t : todo' = [todo EXCEPT ![p] = t]
      /\ call' = call \/ \E a : call' = [call EXCEPT ![p] = a]
  BY DEF Open, Release, BeginCall, EndCall
<1>3. /\ todo'[Isr] = todo[Isr]
      /\ \A q \in Processes : q # p => todo'[q] = todo[q] /\ call'[q] = call[q]
  BY <1>0, <1>2 DEF DriverTypes
<1>4. ThreadHolds' = ThreadHolds /\ HandlerHolds' = HandlerHolds
  BY <1>1, <1>3 DEF ThreadHolds, HandlerHolds, Done, Result, Reading
<1>5. \A q \in Processes : q # p => CallHolds(q)' = CallHolds(q)
  BY <1>1, <1>3 DEF CallHolds, Done
<1>6. CASE Open(p) \/ Release(p)
  <2>1. UNCHANGED <<call, todo, given>>
    BY <1>6 DEF Open, Release
  <2>2. CallHolds(p)' = CallHolds(p)
    BY <1>1, <2>1 DEF CallHolds, Done
  <2> QED
    BY <1>1, <1>4, <1>5, <2>1, <2>2, FlowStands
<1>7. CASE BeginCall(p)
  <2>1. PICK a \in Calls[p] :
          /\ a \in TestGiveVirtine => a.virtine \notin given
          /\ call' = [call EXCEPT ![p] = a]
          /\ todo' = [todo EXCEPT ![p] = AccessesOf(a)]
          /\ given' = IF a \in TestGiveVirtine THEN given \cup {a.virtine} ELSE given
    BY <1>7 DEF BeginCall
  <2>2. call'[p] = a /\ todo'[p] = AccessesOf(a)
    BY <1>0, <2>1 DEF DriverTypes
  <2>3. CallHolds(p) = Zero
    BY <1>7 DEF BeginCall, RestInv, CallHolds
  <2>4. CASE a \notin TestGiveVirtine
    <3>1. CallHolds(p)' = Zero /\ given' = given
      BY <2>1, <2>2, <2>4 DEF CallHolds
    <3> QED
      BY <1>1, <1>4, <1>5, <2>3, <3>1, FlowStands
  <2>5. CASE a \in TestGiveVirtine
    <3> DEFINE v == a.virtine
    <3>1. v \in Virtines /\ v # Zero /\ v \notin given /\ given' = given \cup {v}
      BY <2>1, <2>5, HandInCall DEF Virtine
    <3>2. todo'[p] # <<>>
      <4>1. todo'[p] = <<GiveLow(v), GiveHigh(v)>>
        BY <2>2, <2>5, HandInCall
      <4> QED
        BY <4>1
    <3>3. CallHolds(p)' = v
      BY <2>2, <2>5, <3>2 DEF CallHolds, Done
    <3> HIDE DEF v
    <3>4. Held[InCall(p)] = Zero /\ Held'[InCall(p)] = v
      BY <2>3, <3>3, HeldNow, HeldNext DEF HeldAt
    <3>5. \A i \in Nat : ArrayHolds(i)' = ArrayHolds(i)
      BY <1>1 DEF ArrayHolds
    <3>6. \A z \in Place : z # InCall(p) => Held'[z] = Held[z]
      BY <1>1, <1>4, <1>5, <3>5, HeldNow, HeldNext, PlaceCases DEF HeldAt
    <3>7. InCall(p) \in Place /\ Once(Held, given)
      BY IsPlace DEF FlowInv
    <3>8. Once(Held', given')
      BY <3>1, <3>4, <3>6, <3>7, Appeared
    <3> QED
      BY <1>1, <3>1, <3>8 DEF FlowInv, Once
  <2> QED
    BY <2>4, <2>5
<1>8. CASE EndCall(p)
  <2>1. Done(p) /\ call'[p] = NoCall
    BY <1>8 DEF EndCall, DriverTypes
  <2>2. CallHolds(p) = Zero /\ CallHolds(p)' = Zero
    BY <2>1, RqAccesses DEF CallHolds
  <2>3. given' = given
    <3> SUFFICES ASSUME call[p] = Fetch PROVE FALSE
      BY <1>8 DEF EndCall
    <3>1. Fetch \in Calls[p]
      <4>1. Fetch # NoCall
        BY DEF Fetch, PRead, NoCall
      <4> QED
        BY <4>1 DEF DriverTypes
    <3>2. AccessesOf(Fetch) = <<ReadLow, ReadHigh>>
      BY FetchAccesses DEF AccessesOf, Fetch, PRead
    <3>3. <<ReadLow, ReadHigh>> \in Seq(OtherAccesses)
      BY <3>1, <3>2, OnlyHandlerFetches DEF OnlyHandlerFetches
    <3>4. ReadLow \in OtherAccesses
      BY <3>3
    <3> QED
      BY <3>4, FetchAccesses DEF OtherAccesses
  <2> QED
    BY <1>1, <1>4, <1>5, <2>2, <2>3, FlowStands
<1> QED
  BY <1>6, <1>7, <1>8

(* Entering a register's handler moves nothing.                            *)
LEMMA AccessFlow ==
  ASSUME TypeOK, DriverTypes, HandlerInv, FlowInv, NEW c \in CPUs, NextAccess(c)
  PROVE  FlowInv'
<1>0. Isr \in CPUs /\ Processes \subseteq CPUs
  BY DriverConstants
<1>1. /\ todo[c] # <<>> /\ vcpu[c] = Idle /\ Head(todo[c]) # Idle
      /\ vcpu' = [vcpu EXCEPT ![c] = Head(todo[c])]
      /\ todo' = [todo EXCEPT ![c] = Tail(@)]
      /\ low' = [low EXCEPT ![c] =
           IF Len(todo[c]) = 1 /\ Head(todo[c]).op = "read" THEN mmio_val[c] ELSE ZeroWord]
      /\ UNCHANGED <<call, isr, clean_virtines, given, rq, cq, thread, virtine_to_clean,
                     split_return, mmio_val>>
  <2>1. Head(todo[c]) # Idle
    <3>1. Head(todo[c]) \in HostAccesses
      BY DEF NextAccess, DriverTypes
    <3> QED
      BY <3>1, CardConstants
  <2> QED
    BY <2>1 DEF NextAccess, MmioEnter, queueVars, threadVars, splitVars
<1>2. \A p \in Processes : CallHolds(p)' = CallHolds(p)
  <2> SUFFICES ASSUME NEW p \in Processes PROVE CallHolds(p)' = CallHolds(p)
    OBVIOUS
  <2>1. CASE p = c
    <3>1. ~Done(p) /\ ~Done(p)'
      BY <1>1, <2>1 DEF Done, TypeOK
    <3> QED
      BY <1>1, <3>1 DEF CallHolds
  <2>2. CASE p # c
    BY <1>0, <1>1, <2>2 DEF CallHolds, Done, TypeOK, DriverTypes
  <2> QED
    BY <2>1, <2>2
<1>3. HandlerHolds' = HandlerHolds
  <2>1. CASE c # Isr
    <3>1. UNCHANGED <<isr, todo[Isr], vcpu[Isr], mmio_val[Isr], low[Isr], split_return>>
      BY <1>0, <1>1, <2>1 DEF TypeOK, DriverTypes
    <3> QED
      BY <3>1 DEF HandlerHolds, Done, Result, Reading
  <2>2. CASE c = Isr
    <3>1. isr = "fetch" /\ (BeforeLow \/ GotLow)
      BY <1>1, <2>2, FetchAccesses DEF HandlerInv, Done, InLow, InHigh
    <3>2. vcpu'[Isr] = Head(todo[Isr]) /\ todo'[Isr] = Tail(todo[Isr])
      BY <1>1, <2>2 DEF TypeOK, DriverTypes
    <3>3. CASE BeforeLow
      <4>1. InLow'
        BY <3>2, <3>3 DEF BeforeLow, InLow
      <4> QED
        BY <3>3, <4>1, HandlerHoldsNow, HandlerHoldsNext DEF HandlerHoldsAt
    <3>4. CASE GotLow
      <4>1. Head(todo[Isr]) = ReadHigh /\ Tail(todo[Isr]) = <<>> /\ Len(todo[Isr]) = 1
        BY <3>4 DEF GotLow
      <4>2. low'[Isr] = mmio_val[Isr]
        BY <1>0, <1>1, <2>2, <4>1 DEF DriverTypes, ReadHigh, Read
      <4>3. InHigh'
        BY <1>1, <3>2, <3>4, <4>1, <4>2 DEF GotLow, InHigh
      <4> QED
        BY <1>1, <3>1, <3>4, <4>3, HandlerHoldsNow, HandlerHoldsNext DEF HandlerHoldsAt
    <3> QED
      BY <3>1, <3>3, <3>4
  <2> QED
    BY <2>1, <2>2
<1>4. ThreadHolds' = ThreadHolds
  BY <1>1 DEF ThreadHolds
<1> QED
  BY <1>1, <1>2, <1>3, <1>4, FlowStands

(* The handler keeps what it fetched, and gives all of it back at the end. *)
LEMMA IsrFlow ==
  ASSUME TypeOK, DriverTypes, HandlerInv, FlowInv, IsrEnter \/ IsrNext
  PROVE  FlowInv'
<1>0. Isr \in CPUs /\ \A p \in Processes : p # Isr /\ p \in CPUs
  BY DriverConstants
<1>1. UNCHANGED <<call, low, rq, cq, thread, virtine_to_clean, split_return, vcpu, mmio_val>>
  BY DEF IsrEnter, IsrNext, TakeInterrupt, cardVars, vars, queueVars, threadVars,
    splitVars, hostVars
<1>2. todo' = todo \/ \E t : todo' = [todo EXCEPT ![Isr] = t]
  BY DEF IsrEnter, IsrNext
<1>3. \A p \in Processes : CallHolds(p)' = CallHolds(p)
  <2>1. \A p \in Processes : todo'[p] = todo[p]
    BY <1>0, <1>2 DEF DriverTypes
  <2> QED
    BY <1>1, <2>1 DEF CallHolds, Done
<1>4. ThreadHolds' = ThreadHolds
  BY <1>1 DEF ThreadHolds
<1>5. CASE IsrEnter
  <2>1. isr = "idle" /\ vcpu[Isr] = Idle /\ UNCHANGED <<clean_virtines, given>>
    BY <1>5 DEF IsrEnter, HandlerInv, Done
  <2> DEFINE next == IF isr' = "fetch" THEN ReadBoth("CQ_HEAD") ELSE <<>>
  <2>2. todo' = [todo EXCEPT ![Isr] = next]
    BY <1>5 DEF IsrEnter
  <2>3. todo'[Isr] = next
    BY <1>0, <2>2 DEF DriverTypes
  <2>4. isr' # "fetch" \/ BeforeLow'
    BY <1>1, <2>1, <2>3, FetchAccesses DEF BeforeLow
  <2>5. HandlerHolds = Zero /\ HandlerHolds' = Zero
    BY <2>1, <2>4, HandlerHoldsNow, HandlerHoldsNext DEF HandlerHoldsAt
  <2> QED
    BY <1>1, <1>3, <1>4, <2>1, <2>5, FlowStands
<1>6. CASE IsrNext
  <2>1. isr = "fetch" /\ Done(Isr) /\ HandlerHolds = Result(Isr)
    BY <1>6, HandlerHoldsNow DEF IsrNext, HandlerHoldsAt
  <2>2. CASE Result(Isr) = Zero
    <3>1. /\ isr' = "idle" /\ clean_virtines' = <<>>
          /\ given' = given \ {clean_virtines[i] : i \in DOMAIN clean_virtines}
      BY <1>6, <2>2 DEF IsrNext
    <3>2. HandlerHolds' = HandlerHolds
      BY <2>1, <2>2, <3>1, HandlerHoldsNext DEF HandlerHoldsAt
    <3> DEFINE P == {InArray(i) : i \in Nat}
    <3>3. P \in SUBSET Place
      BY IsPlace
    <3>4. \A x \in P : Held'[x] = Zero
      <4>1. \A i \in Nat : ArrayHolds(i)' = Zero
        BY <3>1 DEF ArrayHolds
      <4> QED
        BY <4>1, HeldNext DEF HeldAt
    <3>5. \A z \in Place : z \notin P => Held'[z] = Held[z]
      BY <1>1, <1>3, <1>4, <3>2, HeldNow, HeldNext, PlaceCases DEF HeldAt
    <3>6. given \ {Held[x] : x \in P} = given'
      <4>1. {Held[x] : x \in P} = {ArrayHolds(i) : i \in Nat}
        BY HeldNow DEF HeldAt
      <4>2. DOMAIN clean_virtines \subseteq Nat
        BY DEF DriverTypes
      <4>3. Zero \notin given
        BY DEF FlowInv, Once
      <4> QED
        BY <3>1, <4>1, <4>2, <4>3 DEF ArrayHolds
    <3> HIDE DEF P
    <3>7. Once(Held', given')
      <4>1. Once(Held, given)
        BY DEF FlowInv
      <4> QED
        BY <3>3, <3>4, <3>5, <3>6, <4>1, Vanished
    <3> QED
      BY <1>1, <3>1, <3>7 DEF FlowInv, Once
  <2>3. CASE Result(Isr) # Zero
    <3>0. PICK n \in Nat : n = Len(clean_virtines) + 1
      BY DEF DriverTypes
    <3>1. /\ clean_virtines' = Append(clean_virtines, Result(Isr))
          /\ todo' = [todo EXCEPT ![Isr] = ReadBoth("CQ_HEAD")]
          /\ isr' = isr /\ given' = given
      BY <1>6, <2>3 DEF IsrNext
    <3>2. BeforeLow'
      BY <1>0, <1>1, <2>1, <3>1, FetchAccesses DEF BeforeLow, Done, DriverTypes
    <3>3. HandlerHolds' = Zero
      BY <3>2, HandlerHoldsNext DEF HandlerHoldsAt
    <3>4. /\ n \notin DOMAIN clean_virtines
          /\ DOMAIN clean_virtines' = DOMAIN clean_virtines \cup {n}
          /\ clean_virtines'[n] = Result(Isr)
          /\ \A i \in DOMAIN clean_virtines : clean_virtines'[i] = clean_virtines[i]
      BY <3>0, <3>1 DEF DriverTypes
    <3>5. /\ ArrayHolds(n) = Zero /\ ArrayHolds(n)' = Result(Isr)
          /\ \A i \in Nat : i # n => ArrayHolds(i)' = ArrayHolds(i)
      BY <3>4 DEF ArrayHolds
    <3>6. InHandler \in Place /\ InArray(n) \in Place /\ InHandler # InArray(n)
      BY <3>4, IsPlace, Places
    <3>7. /\ Held[InArray(n)] = Zero /\ Held'[InHandler] = Zero
          /\ Held'[InArray(n)] = Held[InHandler]
      BY <2>1, <3>3, <3>4, <3>5, HeldNow, HeldNext DEF HeldAt
    <3>8. \A z \in Place : z # InHandler /\ z # InArray(n) => Held'[z] = Held[z]
      BY <1>1, <1>3, <1>4, <3>5, HeldNow, HeldNext, PlaceCases DEF HeldAt
    <3>9. Once(Held', given)
      <4>1. Once(Held, given)
        BY DEF FlowInv
      <4> QED
        BY <3>6, <3>7, <3>8, <4>1, Moved
    <3> QED
      BY <1>1, <3>1, <3>9 DEF FlowInv, Once
  <2> QED
    BY <2>2, <2>3
<1> QED
  BY <1>5, <1>6

(* The handler's reads: a virtine leaves the complete queue whole.         *)
LEMMA ReadFlow ==
  ASSUME TypeOK, DriverTypes, QueueInv, HandlerInv, FlowInv,
         MmioHandler(Isr), UNCHANGED driverVars
  PROVE  FlowInv'
<1>0. Isr \in CPUs /\ \A p \in Processes : p # Isr /\ p \in CPUs
  BY DriverConstants
<1>1. vcpu[Isr] # Idle
  BY DEF MmioHandler, ReadRegister, ReadCqHead, WriteRqTail, WriteRqTailHi,
    WriteBatchFactor, WriteDoorbell, SignalDoorbell, WriteSnapshot, WriteRefused,
    Reading, Writing, Idle
<1>2. isr = "fetch" /\ isr' = "fetch" /\ (InLow \/ InHigh)
  BY <1>1 DEF HandlerInv, Done, BeforeLow, GotLow, driverVars
<1>3. UNCHANGED <<rq, threadVars, clean_virtines, given, call, todo>>
      /\ vcpu' = [vcpu EXCEPT ![Isr] = Idle]
  BY <1>2, LowRead, HighRead DEF driverVars
<1>4. ThreadHolds' = ThreadHolds
  BY <1>3 DEF ThreadHolds, threadVars
<1>5. \A p \in Processes : CallHolds(p)' = CallHolds(p)
  BY <1>0, <1>3 DEF CallHolds, Done, TypeOK
<1>6. CASE InHigh
  <2>1. Done(Isr)' /\ Result(Isr)' = split_return /\ cq' = cq
    BY <1>6, HighRead
  <2>2. HandlerHolds' = HandlerHolds
    BY <1>2, <1>6, <2>1, HandlerHoldsNow, HandlerHoldsNext DEF HandlerHoldsAt
  <2> QED
    BY <1>3, <1>4, <1>5, <2>1, <2>2, FlowStands
<1>7. CASE InLow
  <2>1. split_return' = HeadValue(cq) /\ cq' = PopHead(cq) /\ GotLow'
    BY <1>7, LowRead
  <2>2. HandlerHolds = Zero /\ HandlerHolds' = HeadValue(cq)
    BY <1>2, <1>7, <2>1, HandlerHoldsNow, HandlerHoldsNext DEF HandlerHoldsAt
  <2>3. WellFormed(cq)
    BY DEF QueueInv, CqWellFormed
  <2>4. CASE HeadValue(cq) = Zero
    <3>1. cq' = cq
      BY <2>1, <2>3, <2>4, PopMoves
    <3> QED
      BY <1>3, <1>4, <1>5, <2>2, <2>4, <3>1, FlowStands
  <2>5. CASE HeadValue(cq) # Zero
    <3> DEFINE h == cq.head
    <3>1. /\ h \in Slots /\ HeadValue(cq) = cq.buffer[h] /\ cq'.buffer[h] = Zero
          /\ \A t \in Slots : t # h => cq'.buffer[t] = cq.buffer[t]
      BY <2>1, <2>3, <2>5, PopMoves
    <3> HIDE DEF h
    <3>2. /\ CqSlot(h) \in Place /\ InHandler \in Place /\ CqSlot(h) # InHandler
          /\ Held[InHandler] = Zero /\ Held'[CqSlot(h)] = Zero
          /\ Held'[InHandler] = Held[CqSlot(h)]
      BY <2>2, <3>1, IsPlace, Places, HeldNow, HeldNext DEF HeldAt
    <3>3. \A i \in Nat : ArrayHolds(i)' = ArrayHolds(i)
      BY <1>3 DEF ArrayHolds
    <3>4. \A z \in Place : z # CqSlot(h) /\ z # InHandler => Held'[z] = Held[z]
      BY <1>3, <1>4, <1>5, <3>1, <3>3, HeldNow, HeldNext, PlaceCases DEF HeldAt
    <3>5. Once(Held', given)
      <4>1. Once(Held, given)
        BY DEF FlowInv
      <4> QED
        BY <3>2, <3>4, <4>1, Moved
    <3> QED
      BY <1>3, <3>5 DEF FlowInv, Once
  <2> QED
    BY <2>4, <2>5
<1> QED
  BY <1>2, <1>6, <1>7

(* A program's register access: the second write of a pwrite puts its      *)
(* virtine into the ready queue, which has room for it.                    *)
LEMMA WriteFlow ==
  ASSUME VirtinesFit, TypeOK, DriverTypes, QueueInv, ProgramsInv, WriterInv, FlowInv,
         NEW p \in Processes, MmioHandler(p), UNCHANGED driverVars
  PROVE  FlowInv'
<1>0. p \in CPUs /\ p # Isr /\ Processes \subseteq CPUs
  BY DriverConstants
<1>1. UNCHANGED <<call, todo, isr, clean_virtines, given, cq, handlerVars>>
  BY ProgramLeaves DEF driverVars
<1>2. HandlerHolds' = HandlerHolds
  BY <1>1 DEF HandlerHolds, handlerVars, Done, Result, Reading
<1>3. ThreadHolds' = ThreadHolds
  <2>1. \/ UNCHANGED threadVars
        \/ virtine_to_clean' = virtine_to_clean /\ thread = "waiting" /\ thread' = "woken"
    BY DEF MmioHandler, ReadRegister, ReadCqHead, WriteRqTail, WriteRqTailHi,
      WriteBatchFactor, WriteDoorbell, SignalDoorbell, CondSignal, WriteSnapshot,
      WriteRefused, threadVars
  <2> QED
    BY <2>1 DEF ThreadHolds, threadVars
<1>4. \A q \in Processes : q # p => vcpu'[q] = vcpu[q]
  BY <1>0, HandlerEnds DEF TypeOK
<1>5. \A q \in Processes : q # p => CallHolds(q)' = CallHolds(q)
  BY <1>1, <1>4 DEF CallHolds, Done
<1>6. vcpu[p] # Idle
  BY DEF MmioHandler, ReadRegister, ReadCqHead, WriteRqTail, WriteRqTailHi,
    WriteBatchFactor, WriteDoorbell, SignalDoorbell, WriteSnapshot, WriteRefused,
    Reading, Writing, Idle
<1>7. CASE ~Handing(p)
  <2>1. ~HandsIn(vcpu[p])
    BY <1>0, <1>7 DEF WriterInv, LeavesRq
  <2>2. rq' = rq
    BY <2>1 DEF MmioHandler, ReadRegister, ReadCqHead, WriteRqTail, WriteRqTailHi,
      WriteBatchFactor, WriteDoorbell, SignalDoorbell, WriteSnapshot, WriteRefused,
      HandsIn, Writing, queueVars
  <2>3. CallHolds(p)' = CallHolds(p)
    BY <1>1, <1>7 DEF CallHolds, Handing
  <2> QED
    BY <1>1, <1>2, <1>3, <1>5, <2>2, <2>3, FlowStands
<1>8. CASE Handing(p)
  <2>1. PICK v \in Virtines : v = call[p].virtine
    BY <1>8, HandInCall DEF Handing
  <2>2. v \in Virtine /\ v \in Hwaddr /\ Writer(p, v)
    BY <1>8, <2>1, DriverConstants DEF WriterInv, Virtine
  <2>3. vcpu[p] \in {GiveLow(v), GiveHigh(v)} /\ vcpu'[p] = Idle
    BY <1>0, <1>6, <2>2, GiveWrites DEF Writer
  <2>4. CASE todo[p] # <<>>
    <3>1. vcpu[p] = GiveLow(v)
      BY <1>6, <2>2, <2>4 DEF Writer
    <3>2. rq' = rq
      BY <1>0, <2>2, <2>3, <3>1, GiveWrites
    <3>3. CallHolds(p)' = CallHolds(p)
      BY <1>1, <2>4 DEF CallHolds, Done
    <3> QED
      BY <1>1, <1>2, <1>3, <1>5, <3>2, <3>3, FlowStands
  <2>5. CASE todo[p] = <<>>
    <3>1. vcpu[p] = GiveHigh(v) /\ HasHalf(v)
      <4>1. <<GiveLow(v), GiveHigh(v)>> # <<>> /\ <<GiveHigh(v)>> # <<>>
        OBVIOUS
      <4> QED
        BY <1>6, <2>2, <2>5, <4>1 DEF Writer
    <3>2. rq' = InsertTail(rq, v)
      BY <1>0, <2>2, <2>3, <3>1, GiveWrites
    <3>3. CallHolds(p) = v /\ CallHolds(p)' = Zero
      BY <1>1, <1>6, <1>8, <2>1, <2>3, <2>5 DEF CallHolds, Done, Handing
    <3>4. InCall(p) \in Place /\ Held[InCall(p)] = v /\ v # Zero
      BY <2>2, <3>3, IsPlace, HeldNow DEF HeldAt, Virtine
    <3>5. PICK s \in Slots : rq.buffer[s] = Zero
      <4> DEFINE f == [s \in Slots |-> RqSlot(s)]
      <4>1. f \in [Slots -> Place]
        BY IsPlace
      <4>2. \A s, t \in Slots : f[s] = f[t] => s = t
        BY Places
      <4>3. \A s \in Slots : f[s] # InCall(p) /\ Held[f[s]] = rq.buffer[s]
        BY Places, HeldNow DEF HeldAt
      <4>4. Once(Held, given) /\ given \subseteq Virtines
        BY DEF FlowInv
      <4> HIDE DEF f
      <4>5. \E s \in Slots : Held[f[s]] = Zero
        BY <3>4, <4>1, <4>2, <4>3, <4>4, VirtinesFit, Room
      <4> QED
        BY <4>3, <4>5
    <3>6. PICK t \in Slots :
            /\ rq.buffer[t] = Zero /\ rq'.buffer[t] = v
            /\ \A z \in Slots : z # t => rq'.buffer[z] = rq.buffer[z]
      BY <2>2, <3>2, <3>5, InsertMoves DEF FlowInv
    <3>7. WellFormed(rq')
      BY <2>2, <3>2, <3>5, InsertMoves DEF FlowInv
    <3>8. /\ RqSlot(t) \in Place /\ InCall(p) # RqSlot(t)
          /\ Held[RqSlot(t)] = Zero /\ Held'[InCall(p)] = Zero
          /\ Held'[RqSlot(t)] = Held[InCall(p)]
      BY <3>3, <3>4, <3>6, IsPlace, Places, HeldNow, HeldNext DEF HeldAt
    <3>9. \A i \in Nat : ArrayHolds(i)' = ArrayHolds(i)
      BY <1>1 DEF ArrayHolds
    <3>10. \A z \in Place : z # InCall(p) /\ z # RqSlot(t) => Held'[z] = Held[z]
      BY <1>1, <1>2, <1>3, <1>5, <3>6, <3>9, HeldNow, HeldNext, PlaceCases DEF HeldAt
    <3>11. Once(Held', given)
      <4>1. Once(Held, given)
        BY DEF FlowInv
      <4> QED
        BY <3>4, <3>8, <3>10, <4>1, Moved
    <3> QED
      BY <1>1, <3>7, <3>11 DEF FlowInv, Once
  <2> QED
    BY <2>4, <2>5
<1> QED
  BY <1>7, <1>8

(* The thread takes a virtine out of the ready queue and puts it into the  *)
(* complete queue, which has room for it.                                  *)
LEMMA ThreadFlow ==
  ASSUME VirtinesFit, TypeOK, QueueInv, FlowInv, UNCHANGED driverVars,
         ThreadStep \/ SpuriousWakeup
  PROVE  FlowInv'
<1>1. UNCHANGED <<call, todo, isr, clean_virtines, given, vcpu, handlerVars>>
  BY ThreadLeaves DEF driverVars
<1>2. HandlerHolds' = HandlerHolds
  BY <1>1 DEF HandlerHolds, handlerVars, Done, Result, Reading
<1>3. \A p \in Processes : CallHolds(p)' = CallHolds(p)
  BY <1>1 DEF CallHolds, Done
<1>4. \A i \in Nat : ArrayHolds(i)' = ArrayHolds(i)
  BY <1>1 DEF ArrayHolds
<1>5. Once(Held, given) /\ given \subseteq Virtines /\ WellFormed(rq) /\ WellFormed(cq)
  BY DEF FlowInv, QueueInv, CqWellFormed
<1>6. CASE ThreadPop
  <2>1. /\ thread = "pop" /\ virtine_to_clean' = HeadValue(rq) /\ rq' = PopHead(rq)
        /\ thread' = IF HeadValue(rq) = Zero THEN "lock" ELSE "clean"
        /\ cq' = cq
    BY <1>6 DEF ThreadPop
  <2>2. ThreadHolds = Zero /\ ThreadHolds' = HeadValue(rq)
    BY <2>1 DEF ThreadHolds
  <2>3. CASE HeadValue(rq) = Zero
    <3>1. rq' = rq
      BY <1>5, <2>1, <2>3, PopMoves
    <3> QED
      BY <1>1, <1>2, <1>3, <2>1, <2>2, <2>3, <3>1, FlowStands
  <2>4. CASE HeadValue(rq) # Zero
    <3>1. PICK h \in Slots :
            /\ HeadValue(rq) = rq.buffer[h] /\ rq'.buffer[h] = Zero
            /\ \A t \in Slots : t # h => rq'.buffer[t] = rq.buffer[t]
      BY <1>5, <2>1, <2>4, PopMoves
    <3>2. WellFormed(rq')
      BY <1>5, <2>1, PopMoves
    <3>3. /\ RqSlot(h) \in Place /\ InThread \in Place /\ RqSlot(h) # InThread
          /\ Held[InThread] = Zero /\ Held'[RqSlot(h)] = Zero
          /\ Held'[InThread] = Held[RqSlot(h)]
      BY <2>2, <3>1, IsPlace, Places, HeldNow, HeldNext DEF HeldAt
    <3>4. \A z \in Place : z # RqSlot(h) /\ z # InThread => Held'[z] = Held[z]
      BY <1>2, <1>3, <1>4, <2>1, <3>1, HeldNow, HeldNext, PlaceCases DEF HeldAt
    <3>5. Once(Held', given)
      BY <1>5, <3>3, <3>4, Moved
    <3> QED
      BY <1>1, <1>5, <3>2, <3>5 DEF FlowInv, Once
  <2> QED
    BY <2>3, <2>4
<1>7. CASE ThreadClean
  <2>1. /\ thread = "clean" /\ thread' = "flag" /\ cq' = InsertTail(cq, virtine_to_clean)
        /\ rq' = rq
    BY <1>7 DEF ThreadClean
  <2>2. PICK v \in Virtine : v = virtine_to_clean
    BY <2>1 DEF QueueInv
  <2>3. ThreadHolds = v /\ ThreadHolds' = Zero /\ v # Zero
    BY <2>1, <2>2 DEF ThreadHolds, Virtine
  <2>4. InThread \in Place /\ Held[InThread] = v
    BY <2>3, IsPlace, HeldNow DEF HeldAt
  <2>5. PICK s \in Slots : cq.buffer[s] = Zero
    <3> DEFINE f == [s \in Slots |-> CqSlot(s)]
    <3>1. f \in [Slots -> Place]
      BY IsPlace
    <3>2. \A s, t \in Slots : f[s] = f[t] => s = t
      BY Places
    <3>3. \A s \in Slots : f[s] # InThread /\ Held[f[s]] = cq.buffer[s]
      BY Places, HeldNow DEF HeldAt
    <3> HIDE DEF f
    <3>4. \E s \in Slots : Held[f[s]] = Zero
      BY <1>5, <2>3, <2>4, <3>1, <3>2, <3>3, VirtinesFit, Room
    <3> QED
      BY <3>3, <3>4
  <2>6. PICK t \in Slots :
          /\ cq.buffer[t] = Zero /\ cq'.buffer[t] = v
          /\ \A u \in Slots : u # t => cq'.buffer[u] = cq.buffer[u]
    BY <1>5, <2>1, <2>2, <2>5, InsertMoves
  <2>7. /\ CqSlot(t) \in Place /\ InThread # CqSlot(t)
        /\ Held[CqSlot(t)] = Zero /\ Held'[InThread] = Zero
        /\ Held'[CqSlot(t)] = Held[InThread]
    BY <2>3, <2>4, <2>6, IsPlace, Places, HeldNow, HeldNext DEF HeldAt
  <2>8. \A z \in Place : z # InThread /\ z # CqSlot(t) => Held'[z] = Held[z]
    BY <1>2, <1>3, <1>4, <2>1, <2>6, HeldNow, HeldNext, PlaceCases DEF HeldAt
  <2>9. Once(Held', given)
    BY <1>5, <2>4, <2>7, <2>8, Moved
  <2> QED
    BY <1>1, <1>5, <2>1, <2>9 DEF FlowInv, Once
<1>8. CASE ~ThreadPop /\ ~ThreadClean
  <2>1. /\ UNCHANGED <<rq, cq, virtine_to_clean>>
        /\ thread # "clean" /\ thread' # "clean"
    BY <1>8 DEF ThreadStep, ThreadLock, ThreadCheck, ThreadSleep, ThreadStart,
      ThreadClearDoorbell, ThreadFlag, ThreadThreshold, ThreadIrqLock, ThreadNotify,
      SpuriousWakeup, queueVars
  <2>2. ThreadHolds' = ThreadHolds
    BY <2>1 DEF ThreadHolds
  <2> QED
    BY <1>1, <1>2, <1>3, <2>1, <2>2, FlowStands
<1> QED
  BY <1>6, <1>7, <1>8

LEMMA FlowStep ==
  ASSUME OnlyHandlerFetches, VirtinesFit, TypeOK, DriverTypes, QueueInv, RestInv,
         ProgramsInv, HandlerInv, WriterInv, FlowInv, [DriverNext]_allVars
  PROVE  FlowInv'
<1>1. ASSUME NEW p \in Processes, Open(p) \/ Release(p) \/ BeginCall(p) \/ EndCall(p)
      PROVE  FlowInv'
  BY <1>1, OnlyHandlerFetches, CallFlow
<1>2. ASSUME NEW c \in CPUs, NextAccess(c)
      PROVE  FlowInv'
  BY <1>2, AccessFlow
<1>3. CASE IsrEnter \/ IsrNext
  BY <1>3, IsrFlow
<1>4. CASE CardStep
  <2>1. UNCHANGED driverVars
    BY <1>4 DEF CardStep
  <2>2. CASE ThreadStep \/ SpuriousWakeup
    BY <2>1, <2>2, VirtinesFit, ThreadFlow
  <2>3. ASSUME NEW c \in CPUs, MmioHandler(c)
        PROVE  FlowInv'
    <3>1. CASE c \in Processes
      BY <2>1, <2>3, <3>1, VirtinesFit, WriteFlow
    <3>2. CASE c = Isr
      BY <2>1, <2>3, <3>2, ReadFlow
    <3> QED
      BY <3>1, <3>2, DriverConstants
  <2> QED
    BY <1>4, <2>2, <2>3 DEF CardStep
<1>5. CASE UNCHANGED allVars
  <2>1. UNCHANGED <<rq, cq, clean_virtines, given, call, todo, vcpu, thread, virtine_to_clean,
                    isr, mmio_val, low, split_return>>
    BY <1>5 DEF allVars, driverVars, cardVars, vars, queueVars, threadVars, splitVars, hostVars
  <2>2. /\ \A p \in Processes : CallHolds(p)' = CallHolds(p)
        /\ ThreadHolds' = ThreadHolds /\ HandlerHolds' = HandlerHolds
    BY <2>1 DEF CallHolds, ThreadHolds, HandlerHolds, Done, Result, Reading
  <2> QED
    BY <2>1, <2>2, FlowStands
<1> QED
  BY <1>1, <1>2, <1>3, <1>4, <1>5 DEF DriverNext

LEMMA FlowInvariant ==
  ASSUME OnlyHandlerFetches, OneWriter, VirtinesFit
  PROVE  DriverSpec => []FlowInv
<1>1. DriverInit => WriterInv /\ FlowInv
  <2> SUFFICES ASSUME DriverInit PROVE WriterInv /\ FlowInv
    OBVIOUS
  <2>1. \A p \in Processes : call[p] \notin TestGiveVirtine
    BY RqAccesses DEF DriverInit
  <2>2. WriterInv /\ WellFormed(rq)
    BY WriterInit
  <2>3. \A x \in Place : Held[x] = Zero
    <3>1. \A s \in Slots : rq.buffer[s] = Zero /\ cq.buffer[s] = Zero
      BY DEF DriverInit, Init, EmptyQueue
    <3>2. \A p \in Processes : CallHolds(p) = Zero
      BY <2>1 DEF CallHolds
    <3>3. ThreadHolds = Zero /\ HandlerHolds = Zero
      BY DEF DriverInit, Init, ThreadHolds, HandlerHolds
    <3>4. \A i \in Nat : ArrayHolds(i) = Zero
      BY DEF DriverInit, ArrayHolds
    <3> QED
      BY <3>1, <3>2, <3>3, <3>4, HeldNow, PlaceCases DEF HeldAt
  <2>4. given = {}
    BY DEF DriverInit
  <2> QED
    BY <2>2, <2>3, <2>4 DEF FlowInv, Once
<1>2. TypeOK /\ DriverTypes /\ QueueInv /\ RestInv /\ ProgramsInv /\ HandlerInv
        /\ WriterInv /\ FlowInv /\ [DriverNext]_allVars
        => WriterInv' /\ FlowInv'
  BY OnlyHandlerFetches, OneWriter, VirtinesFit, WriterInvStep, FlowStep
<1>3. DriverSpec => [](ProgramsInv /\ HandlerInv /\ BatchInv)
  BY OnlyHandlerFetches, HandlerInvariant
<1> QED
  BY <1>1, <1>2, <1>3, DriverTypesInvariant, RestInvariant, DriverIsGuest, CardTypeOK,
     QueueInvariant, PTL
  DEF DriverSpec

(* fpga_char_main.c 210-228: the handler's loop has no bound but a 0, and  *)
(* its array has as many entries as a queue.  It does not overflow, for    *)
(* every size of the queue, if there are no more virtines than that, one   *)
(* program hands them in and only the handler fetches.                     *)
THEOREM CharFetchedFitsArray ==
  ASSUME OnlyHandlerFetches, OneWriter, VirtinesFit
  PROVE  DriverSpec => []FetchedFitsArray
<1>1. DriverTypes /\ FlowInv => FetchedFitsArray
  <2> SUFFICES ASSUME DriverTypes, FlowInv, NEW n \in Nat, n = Len(clean_virtines),
                      n > NUM_POSSIBLE_VIRTINES
               PROVE  FALSE
    BY NumAssumption DEF DriverTypes, FetchedFitsArray
  <2>1. \A i \in 1 .. n : clean_virtines[i] \in Virtine /\ i \in DOMAIN clean_virtines
    BY DEF DriverTypes
  <2>2. \A i \in 1 .. n : /\ InArray(i) \in Place
                          /\ Held[InArray(i)] = clean_virtines[i]
                          /\ Held[InArray(i)] # Zero
    BY <2>1, IsPlace, HeldNow DEF HeldAt, ArrayHolds, Virtine
  <2>3. Once(Held, given) /\ given \subseteq Virtines
    BY DEF FlowInv
  <2> DEFINE f == [i \in 1 .. n |-> Held[InArray(i)]]
  <2>4. f \in [1 .. n -> Virtines]
    BY <2>2, <2>3 DEF Once
  <2>5. IsFiniteSet(1 .. n) /\ Cardinality(1 .. n) = n
    <3>1. 1 \in Int /\ n \in Int /\ ~(1 > n) /\ n - 1 + 1 = n
      BY NumAssumption
    <3> QED
      BY ONLY <3>1, FS_Interval
  <2>6. IsFiniteSet(Virtines) /\ Cardinality(Virtines) \in Nat
    BY VirtinesFit, FS_CardinalityType DEF VirtinesFit
  <2>7. Cardinality(Virtines) < Cardinality(1 .. n)
    BY <2>5, <2>6, NumAssumption, VirtinesFit DEF VirtinesFit
  <2>8. PICK i, j \in 1 .. n : i # j /\ f[i] = f[j]
    <3> HIDE DEF f
    <3> QED
      BY ONLY <2>4, <2>5, <2>6, <2>7, FS_PigeonHole
  <2>9. InArray(i) = InArray(j)
    BY <2>2, <2>3, <2>8 DEF Once
  <2> QED
    BY <2>8, <2>9, Places
<1>2. DriverSpec => []FlowInv
  BY OnlyHandlerFetches, OneWriter, VirtinesFit, FlowInvariant
<1> QED
  BY <1>1, <1>2, DriverTypesInvariant, PTL

(* Copies counts the places that hold a virtine.                           *)
LEMMA CopiesOfNone ==
  ASSUME DriverTypes, NEW v \in Virtine, \A x \in Place : Held[x] # v
  PROVE  Copies(v) = 0
<1>1. {q \in {"rq", "cq"} \X Slots :
         v = IF q[1] = "rq" THEN rq.buffer[q[2]] ELSE cq.buffer[q[2]]} = {}
  BY IsPlace, HeldNow DEF HeldAt
<1>2. v # Zero
  BY DEF Virtine
<1>3. v \notin Entering
  <2>1. \A p \in Processes : CallHolds(p) # v
    BY IsPlace, HeldNow DEF HeldAt
  <2> QED
    BY <2>1 DEF Entering, CallHolds
<1>4. ~(thread = "clean" /\ v = virtine_to_clean) /\ v \notin Leaving
  <2>1. ThreadHolds # v /\ HandlerHolds # v
    BY IsPlace, HeldNow DEF HeldAt
  <2> QED
    BY <2>1 DEF ThreadHolds, HandlerHolds, Leaving
<1>5. {i \in DOMAIN clean_virtines : clean_virtines[i] = v} = {}
  <2>1. DOMAIN clean_virtines \subseteq Nat
    BY DEF DriverTypes
  <2>2. \A i \in Nat : ArrayHolds(i) # v
    BY IsPlace, HeldNow DEF HeldAt
  <2> QED
    BY <2>1, <2>2 DEF ArrayHolds
<1> QED
  BY <1>1, <1>3, <1>4, <1>5, FS_EmptySet DEF Copies

LEMMA CopiesOfOne ==
  ASSUME DriverTypes, NEW v \in Virtine, NEW x \in Place,
         \A z \in Place : Held[z] = v <=> z = x
  PROVE  Copies(v) = 1
<1> DEFINE inQueues == {q \in {"rq", "cq"} \X Slots :
                          v = IF q[1] = "rq" THEN rq.buffer[q[2]] ELSE cq.buffer[q[2]]}
           inArray == {i \in DOMAIN clean_virtines : clean_virtines[i] = v}
<1>0. v # Zero
  BY DEF Virtine
<1>1. inQueues = {q \in {"rq", "cq"} \X Slots :
                    x = IF q[1] = "rq" THEN RqSlot(q[2]) ELSE CqSlot(q[2])}
  BY IsPlace, HeldNow DEF HeldAt
<1>2. v \in Entering <=> \E p \in Processes : x = InCall(p)
  <2>1. \A p \in Processes : CallHolds(p) = v <=> x = InCall(p)
    BY IsPlace, HeldNow DEF HeldAt
  <2> QED
    BY <1>0, <2>1 DEF Entering, CallHolds
<1>3. (thread = "clean" /\ v = virtine_to_clean) <=> x = InThread
  <2>1. ThreadHolds = v <=> x = InThread
    BY IsPlace, HeldNow DEF HeldAt
  <2> QED
    BY <1>0, <2>1 DEF ThreadHolds
<1>4. v \in Leaving <=> x = InHandler
  <2>1. HandlerHolds = v <=> x = InHandler
    BY IsPlace, HeldNow DEF HeldAt
  <2> QED
    BY <1>0, <2>1 DEF HandlerHolds, Leaving
<1>5. inArray = {i \in Nat : x = InArray(i)}
  <2>1. DOMAIN clean_virtines \subseteq Nat
    BY DEF DriverTypes
  <2>2. \A i \in Nat : ArrayHolds(i) = v <=> x = InArray(i)
    BY IsPlace, HeldNow DEF HeldAt
  <2> QED
    BY <1>0, <2>1, <2>2 DEF ArrayHolds
<1>6. Copies(v) =
        Cardinality(inQueues)
        + (IF \E p \in Processes : x = InCall(p) THEN 1 ELSE 0)
        + (IF x = InThread THEN 1 ELSE 0)
        + (IF x = InHandler THEN 1 ELSE 0)
        + Cardinality(inArray)
  <2> HIDE DEF inQueues, inArray
  <2>1. Copies(v) =
          Cardinality(inQueues)
          + (IF v \in Entering THEN 1 ELSE 0)
          + (IF thread = "clean" /\ v = virtine_to_clean THEN 1 ELSE 0)
          + (IF v \in Leaving THEN 1 ELSE 0)
          + Cardinality(inArray)
    BY DEF Copies, inQueues, inArray
  <2> QED
    BY <1>2, <1>3, <1>4, <2>1
<1> HIDE DEF inQueues, inArray
<1>7. Cardinality({}) = 0 /\ \A y : Cardinality({y}) = 1
  BY FS_EmptySet, FS_Singleton
<1>8. ASSUME NEW s \in Slots, x = RqSlot(s) \/ x = CqSlot(s)
      PROVE  Copies(v) = 1
  <2>1. inArray = {}
    BY <1>5, <1>8, Places
  <2>2. /\ ~(\E p \in Processes : x = InCall(p)) /\ x # InThread /\ x # InHandler
    BY <1>8, Places
  <2>3. inQueues = {<<IF x = RqSlot(s) THEN "rq" ELSE "cq", s>>}
    <3>1. CASE x = RqSlot(s)
      <4>1. inQueues = {<<"rq", s>>}
        BY <1>1, <3>1, Places
      <4> QED
        BY <3>1, <4>1
    <3>2. CASE x = CqSlot(s)
      <4>1. inQueues = {<<"cq", s>>}
        BY <1>1, <3>2, Places
      <4>2. x # RqSlot(s)
        BY <3>2, Places
      <4> QED
        BY <4>1, <4>2
    <3> QED
      BY <1>8, <3>1, <3>2
  <2>4. Cardinality(inQueues) = 1 /\ Cardinality(inArray) = 0
    BY <1>7, <2>1, <2>3
  <2> QED
    BY <1>6, <2>2, <2>4
<1>9. ASSUME \A s \in Slots : x # RqSlot(s) /\ x # CqSlot(s)
      PROVE  Cardinality(inQueues) = 0
  <2>1. inQueues = {}
    BY <1>1, <1>9
  <2> QED
    BY <1>7, <2>1
<1>10. ASSUME NEW p \in Processes, x = InCall(p)
       PROVE  Copies(v) = 1
  <2>1. inArray = {}
    BY <1>5, <1>10, Places
  <2>2. Cardinality(inQueues) = 0 /\ Cardinality(inArray) = 0
    BY <1>7, <1>9, <1>10, <2>1, Places
  <2>3. x # InThread /\ x # InHandler
    BY <1>10, Places
  <2> QED
    BY <1>6, <1>10, <2>2, <2>3
<1>11. ASSUME x = InThread \/ x = InHandler
       PROVE  Copies(v) = 1
  <2>1. inArray = {}
    BY <1>5, <1>11, Places
  <2>2. Cardinality(inQueues) = 0 /\ Cardinality(inArray) = 0
    BY <1>7, <1>9, <1>11, <2>1, Places
  <2>3. InThread # InHandler /\ ~(\E p \in Processes : x = InCall(p))
    BY <1>11, Places
  <2> QED
    BY <1>6, <1>11, <2>2, <2>3
<1>12. ASSUME NEW i \in Nat, x = InArray(i)
       PROVE  Copies(v) = 1
  <2>1. inArray = {i}
    BY <1>5, <1>12, Places
  <2>2. Cardinality(inQueues) = 0 /\ Cardinality(inArray) = 1
    BY <1>7, <1>9, <1>12, <2>1, Places
  <2>3. x # InThread /\ x # InHandler /\ ~(\E p \in Processes : x = InCall(p))
    BY <1>12, Places
  <2> QED
    BY <1>6, <2>2, <2>3
<1> QED
  BY <1>8, <1>10, <1>11, <1>12, PlaceCases

(* From the pwrite that hands a virtine in to the interrupt handler that   *)
(* fetches it: none is lost, doubled or made up, for every size of the     *)
(* queues and whatever else the programs do, if there are no more virtines *)
(* than a queue has room for, one program hands them in and only the       *)
(* handler fetches.                                                        *)
THEOREM CharConservation ==
  ASSUME OnlyHandlerFetches, OneWriter, VirtinesFit
  PROVE  DriverSpec => []Conservation
<1>1. DriverTypes /\ FlowInv => Conservation
  <2> SUFFICES ASSUME DriverTypes, FlowInv, NEW v \in Virtine
               PROVE  Copies(v) = IF v \in given THEN 1 ELSE 0
    BY DEF Conservation
  <2>1. Once(Held, given) /\ v # Zero
    BY DEF FlowInv, Virtine
  <2>2. CASE v \in given
    <3>1. PICK x \in Place : Held[x] = v
      BY <2>1, <2>2 DEF Once
    <3>2. \A z \in Place : Held[z] = v <=> z = x
      BY <2>1, <3>1 DEF Once
    <3> QED
      BY <2>2, <3>2, CopiesOfOne
  <2>3. CASE v \notin given
    <3>1. \A x \in Place : Held[x] # v
      BY <2>1, <2>3 DEF Once
    <3> QED
      BY <2>3, <3>1, CopiesOfNone
  <2> QED
    BY <2>2, <2>3
<1>2. DriverSpec => []FlowInv
  BY OnlyHandlerFetches, OneWriter, VirtinesFit, FlowInvariant
<1> QED
  BY <1>1, <1>2, DriverTypesInvariant, PTL
=============================================================================
