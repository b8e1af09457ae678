----------------------------- MODULE VirtineFpga -----------------------------
(***************************************************************************)
(* The emulated card of qemu-fpga-char/virtine_fpga.c: its MMIO handlers,  *)
(* run by the guest's CPUs, its cleanup thread, and its removal by QEMU's  *)
(* main loop.                                                              *)
(*                                                                         *)
(* QEMU runs every MMIO handler, and the unplug callback, with its global  *)
(* iothread lock held; the cleanup thread takes that lock only to raise an *)
(* interrupt.  processing_lock guards the two queues.  A step of the model *)
(* is the code between two operations on state that another party can see; *)
(* a critical section on processing_lock inside a handler is one step.     *)
(*                                                                         *)
(* The guest is any guest: each CPU keeps issuing 32-bit register accesses *)
(* out of HostAccesses, in any order.                                      *)
(***************************************************************************)
EXTENDS RingQueue

CONSTANTS
  CPUs,            \* the parties that access the card's registers
  MainLoop,        \* QEMU's main loop
  CleanupThread,   \* virtine-cleanup-thread
  NoOne,           \* the owner of a free lock
  BatchFactors,    \* what a guest may write to BATCH_FACTOR_REG
  HostAccesses,    \* the accesses a guest makes
  CleanState,      \* where realize allocates the first snapshot ...
  CleanStateSize   \* ... and how long it is

(* Registers that are written or read as one 32-bit word; _HI is the word  *)
(* at the register's address + 4.  OTHER is any address that no case of    *)
(* the handlers names, SNAPSHOT_SIZE_REG + 4 for one.                      *)
Register ==
  {"RQ_HEAD", "RQ_HEAD_HI", "RQ_TAIL", "RQ_TAIL_HI", "RQ_BASE", "DOORBELL",
   "IS_PROCESSING", "CQ_HEAD", "CQ_HEAD_HI", "CQ_TAIL", "CQ_TAIL_HI",
   "CQ_BASE", "CQ_BASE_HI", "BATCH_FACTOR", "MAX_NUM_VIRTINES",
   "SNAPSHOT_SIZE", "SNAPSHOT_ADDR", "SNAPSHOT_ADDR_HI", "OTHER"}

(* An access in progress.  A count (a batch factor) travels in num, any    *)
(* other value in val.  "signal" is the second half of ringing the bell.   *)
Access ==
  [op : {"idle", "read", "write", "signal"}, reg : Register, val : Word, num : Nat]

Idle == [op |-> "idle", reg |-> "OTHER", val |-> ZeroWord, num |-> 0]

Read(r) == [op |-> "read", reg |-> r, val |-> ZeroWord, num |-> 0]

Write(r, w) == [op |-> "write", reg |-> r, val |-> w, num |-> 0]

WriteCount(r, n) == [op |-> "write", reg |-> r, val |-> ZeroWord, num |-> n]

ASSUME ActorsAssumption ==
  /\ MainLoop \notin CPUs /\ CleanupThread \notin CPUs /\ NoOne \notin CPUs
  /\ MainLoop # CleanupThread /\ MainLoop # NoOne /\ CleanupThread # NoOne

ASSUME HostAssumption ==
  /\ BatchFactors \subseteq Nat
  /\ HostAccesses \subseteq {a \in Access : a.op \in {"read", "write"}}
  /\ \A a \in HostAccesses :
       a.op = "write" /\ a.reg = "BATCH_FACTOR" => a.num \in BatchFactors

ASSUME SnapshotAssumption == CleanState \in Virtine /\ CleanStateSize \in Word

VARIABLES
  rq, cq,                        \* ready and complete queue
  doorbell, is_card_processing,
  batch_factor, num_virtines_cleaned_already,
  snapshot_size, snapshot_addr,
  stopping,
  split_write, split_return,     \* the handlers' function-static halves
  processing_lock, iothread_lock,
  thread,                        \* where the cleanup thread is
  virtine_to_clean,              \* its local variable
  vcpu,                          \* the access each CPU is executing
  mmio_val,                      \* the word its last read returned
  msi_ready,                     \* between msi_init and msi_uninit
  msi,                           \* an interrupt the guest has not taken yet
  unplug                         \* where virtine_fpga_uninit is

queueVars == <<rq, cq>>
flagVars == <<doorbell, is_card_processing, stopping>>
batchVars == <<batch_factor, num_virtines_cleaned_already>>
snapshotVars == <<snapshot_size, snapshot_addr>>
splitVars == <<split_write, split_return>>
threadVars == <<thread, virtine_to_clean>>
hostVars == <<vcpu, mmio_val>>
msiVars == <<msi_ready, msi>>

vars == <<queueVars, flagVars, batchVars, snapshotVars, splitVars,
          processing_lock, iothread_lock, threadVars, hostVars, msiVars, unplug>>

(* The thread's places, named for what it does next. *)
ThreadPC ==
  {"lock", "check", "sleep", "waiting", "woken", "start", "clear", "pop",
   "clean", "flag", "threshold", "irq", "notify", "exited"}

UnplugPC == {"plugged", "lock", "signal", "join", "gone"}

Owner == CPUs \cup {MainLoop, CleanupThread, NoOne}

TypeOK ==
  /\ rq \in Queue /\ cq \in Queue
  /\ doorbell \in BOOLEAN /\ is_card_processing \in BOOLEAN /\ stopping \in BOOLEAN
  /\ batch_factor \in BatchFactors \cup {1}
  /\ num_virtines_cleaned_already \in Nat
  /\ snapshot_size \in Word /\ snapshot_addr \in Hwaddr
  /\ split_write \in Hwaddr /\ split_return \in Hwaddr
  /\ processing_lock \in Owner /\ iothread_lock \in Owner
  /\ thread \in ThreadPC /\ virtine_to_clean \in Hwaddr
  /\ vcpu \in [CPUs -> Access] /\ mmio_val \in [CPUs -> Word]
  /\ msi_ready \in BOOLEAN /\ msi \in BOOLEAN
  /\ unplug \in UnplugPC

(* The state virtine_fpga_realize leaves, the guest not running yet. *)
Init ==
  /\ rq = EmptyQueue /\ cq = EmptyQueue
  /\ doorbell = FALSE /\ is_card_processing = FALSE /\ stopping = FALSE
  /\ batch_factor = 1 /\ num_virtines_cleaned_already = 0
  /\ snapshot_size = CleanStateSize /\ snapshot_addr = CleanState
  /\ split_write = Zero /\ split_return = Zero
  /\ processing_lock = NoOne /\ iothread_lock = NoOne
  /\ thread = "lock" /\ virtine_to_clean = Zero
  /\ vcpu = [c \in CPUs |-> Idle] /\ mmio_val = [c \in CPUs |-> ZeroWord]
  /\ msi_ready = TRUE /\ msi = FALSE
  /\ unplug = "plugged"

(* qemu_cond_signal wakes the thread if it sleeps now, and nobody later. *)
CondSignalLost == thread' = thread

CondSignal == thread' = IF thread = "waiting" THEN "woken" ELSE thread

-----------------------------------------------------------------------------
(* MMIO handlers. *)

(* QEMU takes the iothread lock, then calls the region's handler. *)
MmioEnter(c, a) ==
  /\ vcpu[c] = Idle
  /\ unplug # "gone"
  /\ iothread_lock = NoOne
  /\ iothread_lock' = c
  /\ vcpu' = [vcpu EXCEPT ![c] = a]
  /\ UNCHANGED <<queueVars, flagVars, batchVars, snapshotVars, splitVars,
                 processing_lock, threadVars, mmio_val, msiVars, unplug>>

MmioReturn(c) ==
  /\ iothread_lock' = NoOne
  /\ vcpu' = [vcpu EXCEPT ![c] = Idle]

Reading(c, r) == vcpu[c].op = "read" /\ vcpu[c].reg = r

Writing(c, r) == vcpu[c].op = "write" /\ vcpu[c].reg = r

(* What each register but CQ_HEAD_OFFSET_REG reads as, queue slots without *)
(* the lock.  The two registers that hold counts read as some word.        *)
LowestBit == {CHOOSE b \in Bits : TRUE}

BoolWord(b) == IF b THEN LowestBit ELSE ZeroWord

ReadValues(r) ==
  CASE r = "RQ_HEAD"          -> {rq.buffer[rq.head].lo}
    [] r = "RQ_HEAD_HI"       -> {rq.buffer[rq.head].hi}
    [] r = "CQ_BASE"          -> {cq.buffer[0].lo}
    [] r = "CQ_BASE_HI"       -> {cq.buffer[0].hi}
    [] r = "CQ_TAIL"          -> {cq.buffer[cq.tail].lo}
    [] r = "CQ_TAIL_HI"       -> {cq.buffer[cq.tail].hi}
    [] r = "CQ_HEAD_HI"       -> {split_return.hi}
    [] r = "IS_PROCESSING"    -> {BoolWord(is_card_processing)}
    [] r = "DOORBELL"         -> {BoolWord(doorbell)}
    [] r = "SNAPSHOT_SIZE"    -> {snapshot_size}
    [] r = "SNAPSHOT_ADDR"    -> {snapshot_addr.lo}
    [] r = "SNAPSHOT_ADDR_HI" -> {snapshot_addr.hi}
    [] r \in {"BATCH_FACTOR", "MAX_NUM_VIRTINES"} -> Word
    [] OTHER                  -> {AllOnes}

(* Every read but one changes nothing, except that fetching the high half  *)
(* of a popped address forgets it.                                         *)
ReadRegister(c) ==
  /\ vcpu[c].op = "read" /\ vcpu[c].reg # "CQ_HEAD"
  /\ \E w \in ReadValues(vcpu[c].reg) : mmio_val' = [mmio_val EXCEPT ![c] = w]
  /\ split_return' = IF vcpu[c].reg = "CQ_HEAD_HI" THEN Zero ELSE split_return
  /\ MmioReturn(c)
  /\ UNCHANGED <<queueVars, flagVars, batchVars, snapshotVars, split_write,
                 processing_lock, threadVars, msiVars, unplug>>

(* Reading CQ_HEAD_OFFSET_REG pops a clean virtine and returns its low half. *)
ReadCqHead(c) ==
  /\ Reading(c, "CQ_HEAD")
  /\ processing_lock = NoOne
  /\ split_return' = HeadValue(cq)
  /\ cq' = PopHead(cq)
  /\ mmio_val' = [mmio_val EXCEPT ![c] = split_return'.lo]
  /\ MmioReturn(c)
  /\ UNCHANGED <<rq, flagVars, batchVars, snapshotVars, split_write,
                 processing_lock, threadVars, msiVars, unplug>>

(* The low half of a dirty virtine's address waits for the high half. *)
WriteRqTail(c) ==
  /\ Writing(c, "RQ_TAIL")
  /\ split_write' = [hi |-> ZeroWord, lo |-> vcpu[c].val]
  /\ MmioReturn(c)
  /\ UNCHANGED <<queueVars, flagVars, batchVars, snapshotVars, split_return,
                 processing_lock, threadVars, mmio_val, msiVars, unplug>>

(* A plausible mistake: inserting without processing_lock.                 *)
WriteRqTailHiUnlocked(c) ==
  /\ Writing(c, "RQ_TAIL_HI")
  /\ split_write' = [split_write EXCEPT !.hi = vcpu[c].val \cup @]
  /\ rq' = InsertTail(rq, split_write')
  /\ MmioReturn(c)
  /\ UNCHANGED <<cq, flagVars, batchVars, snapshotVars, split_return,
                 processing_lock, threadVars, mmio_val, msiVars, unplug>>

(* The high half is ORed in and the result inserted; split_write keeps it. *)
WriteRqTailHi(c) ==
  /\ Writing(c, "RQ_TAIL_HI")
  /\ processing_lock = NoOne
  /\ split_write' = [split_write EXCEPT !.hi = vcpu[c].val \cup @]
  /\ rq' = InsertTail(rq, split_write')
  /\ MmioReturn(c)
  /\ UNCHANGED <<cq, flagVars, batchVars, snapshotVars, split_return,
                 processing_lock, threadVars, mmio_val, msiVars, unplug>>

WriteBatchFactor(c) ==
  /\ Writing(c, "BATCH_FACTOR")
  /\ batch_factor' = vcpu[c].num
  /\ MmioReturn(c)
  /\ UNCHANGED <<queueVars, flagVars, num_virtines_cleaned_already, snapshotVars,
                 splitVars, processing_lock, threadVars, mmio_val, msiVars, unplug>>

(* Ringing the bell: the flag first, then the signal, and neither under    *)
(* processing_lock.                                                        *)
WriteDoorbell(c) ==
  /\ Writing(c, "DOORBELL")
  /\ doorbell' = TRUE
  /\ vcpu' = [vcpu EXCEPT ![c].op = "signal"]
  /\ UNCHANGED <<queueVars, is_card_processing, stopping, batchVars, snapshotVars,
                 splitVars, processing_lock, iothread_lock, threadVars, mmio_val,
                 msiVars, unplug>>

SignalDoorbell(c) ==
  /\ vcpu[c].op = "signal"
  /\ CondSignal
  /\ MmioReturn(c)
  /\ UNCHANGED <<queueVars, flagVars, batchVars, snapshotVars, splitVars,
                 processing_lock, virtine_to_clean, mmio_val, msiVars, unplug>>

(* SNAPSHOT_ADDR_REG replaces the whole address, its + 4 ORs a half in.    *)
WriteSnapshot(c) ==
  /\ \/ /\ Writing(c, "SNAPSHOT_SIZE")
        /\ snapshot_size' = vcpu[c].val
        /\ UNCHANGED snapshot_addr
     \/ /\ Writing(c, "SNAPSHOT_ADDR")
        /\ snapshot_addr' = [hi |-> ZeroWord, lo |-> vcpu[c].val]
        /\ UNCHANGED snapshot_size
     \/ /\ Writing(c, "SNAPSHOT_ADDR_HI")
        /\ snapshot_addr' = [snapshot_addr EXCEPT !.hi = vcpu[c].val \cup @]
        /\ UNCHANGED snapshot_size
  /\ MmioReturn(c)
  /\ UNCHANGED <<queueVars, flagVars, batchVars, splitVars, processing_lock,
                 threadVars, mmio_val, msiVars, unplug>>

(* Every other register refuses to be written. *)
WriteRefused(c) ==
  /\ vcpu[c].op = "write"
  /\ vcpu[c].reg \notin {"RQ_TAIL", "RQ_TAIL_HI", "BATCH_FACTOR", "DOORBELL",
                         "SNAPSHOT_SIZE", "SNAPSHOT_ADDR", "SNAPSHOT_ADDR_HI"}
  /\ MmioReturn(c)
  /\ UNCHANGED <<queueVars, flagVars, batchVars, snapshotVars, splitVars,
                 processing_lock, threadVars, mmio_val, msiVars, unplug>>

MmioHandler(c) ==
  \/ ReadRegister(c) \/ ReadCqHead(c)
  \/ WriteRqTail(c) \/ WriteRqTailHi(c) \/ WriteBatchFactor(c)
  \/ WriteDoorbell(c) \/ SignalDoorbell(c) \/ WriteSnapshot(c) \/ WriteRefused(c)

-----------------------------------------------------------------------------
(* virtine_fpga_virtine_cleanup, the co-processor thread. *)

ThreadLock ==
  /\ thread \in {"lock", "woken"}
  /\ processing_lock = NoOne
  /\ processing_lock' = CleanupThread
  /\ thread' = "check"
  /\ UNCHANGED <<queueVars, flagVars, batchVars, snapshotVars, splitVars,
                 iothread_lock, virtine_to_clean, hostVars, msiVars, unplug>>

(* Two plausible mistakes: leaving the loop without the unlock, and a wait *)
(* loop that does not look at stopping.                                    *)
ThreadCheckKeepsLock ==
  /\ thread = "check"
  /\ thread' = IF stopping THEN "exited" ELSE IF doorbell THEN "start" ELSE "sleep"
  /\ UNCHANGED <<queueVars, flagVars, batchVars, snapshotVars, splitVars,
                 processing_lock, iothread_lock, virtine_to_clean, hostVars,
                 msiVars, unplug>>

ThreadCheckIgnoresStop ==
  /\ thread = "check"
  /\ thread' = IF doorbell THEN "start" ELSE "sleep"
  /\ UNCHANGED <<queueVars, flagVars, batchVars, snapshotVars, splitVars,
                 processing_lock, iothread_lock, virtine_to_clean, hostVars,
                 msiVars, unplug>>

(* The wait loop's condition, and the test for stopping behind it. *)
ThreadCheck ==
  /\ thread = "check"
  /\ thread' = IF stopping THEN "exited" ELSE IF doorbell THEN "start" ELSE "sleep"
  /\ processing_lock' = IF stopping THEN NoOne ELSE processing_lock
  /\ UNCHANGED <<queueVars, flagVars, batchVars, snapshotVars, splitVars,
                 iothread_lock, virtine_to_clean, hostVars, msiVars, unplug>>

(* qemu_cond_wait releases the lock and goes to sleep in one step. *)
ThreadSleep ==
  /\ thread = "sleep"
  /\ processing_lock' = NoOne
  /\ thread' = "waiting"
  /\ UNCHANGED <<queueVars, flagVars, batchVars, snapshotVars, splitVars,
                 iothread_lock, virtine_to_clean, hostVars, msiVars, unplug>>

(* A condition variable may wake its waiter for no reason. *)
SpuriousWakeup ==
  /\ thread = "waiting"
  /\ thread' = "woken"
  /\ UNCHANGED <<queueVars, flagVars, batchVars, snapshotVars, splitVars,
                 processing_lock, iothread_lock, virtine_to_clean, hostVars,
                 msiVars, unplug>>

ThreadStart ==
  /\ thread = "start"
  /\ is_card_processing' = TRUE
  /\ thread' = "clear"
  /\ UNCHANGED <<queueVars, doorbell, stopping, batchVars, snapshotVars, splitVars,
                 processing_lock, iothread_lock, virtine_to_clean, hostVars,
                 msiVars, unplug>>

ThreadClearDoorbell ==
  /\ thread = "clear"
  /\ doorbell' = FALSE
  /\ thread' = "pop"
  /\ UNCHANGED <<queueVars, is_card_processing, stopping, batchVars, snapshotVars,
                 splitVars, processing_lock, iothread_lock, virtine_to_clean,
                 hostVars, msiVars, unplug>>

(* A popped 0 ends the round and gives the lock up. *)
ThreadPop ==
  /\ thread = "pop"
  /\ virtine_to_clean' = HeadValue(rq)
  /\ rq' = PopHead(rq)
  /\ thread' = IF HeadValue(rq) = Zero THEN "lock" ELSE "clean"
  /\ processing_lock' = IF HeadValue(rq) = Zero THEN NoOne ELSE processing_lock
  /\ UNCHANGED <<cq, flagVars, batchVars, snapshotVars, splitVars, iothread_lock,
                 hostVars, msiVars, unplug>>

(* The snapshot is copied over the virtine, which then moves to CQ; if CQ  *)
(* is full, insert_tail leaves it out and nobody looks at the result.      *)
ThreadClean ==
  /\ thread = "clean"
  /\ num_virtines_cleaned_already' = num_virtines_cleaned_already + 1
  /\ cq' = InsertTail(cq, virtine_to_clean)
  /\ thread' = "flag"
  /\ UNCHANGED <<rq, flagVars, batch_factor, snapshotVars, splitVars,
                 processing_lock, iothread_lock, virtine_to_clean, hostVars,
                 msiVars, unplug>>

ThreadFlag ==
  /\ thread = "flag"
  /\ is_card_processing' = FALSE
  /\ thread' = "threshold"
  /\ UNCHANGED <<queueVars, doorbell, stopping, batchVars, snapshotVars, splitVars,
                 processing_lock, iothread_lock, virtine_to_clean, hostVars,
                 msiVars, unplug>>

(* A plausible mistake: giving processing_lock up around the interrupt.    *)
ThreadThresholdUnlocks ==
  /\ thread = "threshold"
  /\ thread' = IF num_virtines_cleaned_already >= batch_factor THEN "irq" ELSE "pop"
  /\ processing_lock' = NoOne
  /\ UNCHANGED <<queueVars, flagVars, batchVars, snapshotVars, splitVars,
                 iothread_lock, virtine_to_clean, hostVars, msiVars, unplug>>

ThreadThreshold ==
  /\ thread = "threshold"
  /\ thread' = IF num_virtines_cleaned_already >= batch_factor THEN "irq" ELSE "pop"
  /\ UNCHANGED <<queueVars, flagVars, batchVars, snapshotVars, splitVars,
                 processing_lock, iothread_lock, virtine_to_clean, hostVars,
                 msiVars, unplug>>

(* The iothread lock is taken with processing_lock held. *)
ThreadIrqLock ==
  /\ thread = "irq"
  /\ iothread_lock = NoOne
  /\ iothread_lock' = CleanupThread
  /\ thread' = "notify"
  /\ UNCHANGED <<queueVars, flagVars, batchVars, snapshotVars, splitVars,
                 processing_lock, virtine_to_clean, hostVars, msiVars, unplug>>

(* A plausible mistake: the count of a batch is not reset.                 *)
ThreadNotifyKeepsCount ==
  /\ thread = "notify"
  /\ msi' = TRUE
  /\ iothread_lock' = NoOne
  /\ thread' = "pop"
  /\ UNCHANGED <<queueVars, flagVars, batchVars, snapshotVars, splitVars,
                 processing_lock, virtine_to_clean, hostVars, msi_ready, unplug>>

ThreadNotify ==
  /\ thread = "notify"
  /\ msi' = TRUE
  /\ iothread_lock' = NoOne
  /\ num_virtines_cleaned_already' = 0
  /\ thread' = "pop"
  /\ UNCHANGED <<queueVars, flagVars, batch_factor, snapshotVars, splitVars,
                 processing_lock, virtine_to_clean, hostVars, msi_ready, unplug>>

ThreadStep ==
  \/ ThreadLock \/ ThreadCheck \/ ThreadSleep \/ ThreadStart \/ ThreadClearDoorbell
  \/ ThreadPop \/ ThreadClean \/ ThreadFlag \/ ThreadThreshold
  \/ ThreadIrqLock \/ ThreadNotify

-----------------------------------------------------------------------------
(* virtine_fpga_uninit, run by the main loop under the iothread lock. *)

(* A plausible mistake: giving the iothread lock up while the thread still *)
(* has to be stopped, so that the two locks cannot block each other.       *)
UnplugBeginUnlocks ==
  /\ unplug = "plugged"
  /\ iothread_lock = NoOne
  /\ msi_ready' = FALSE
  /\ unplug' = "lock"
  /\ UNCHANGED <<queueVars, flagVars, batchVars, snapshotVars, splitVars,
                 processing_lock, iothread_lock, threadVars, hostVars, msi>>

UnplugBegin ==
  /\ unplug = "plugged"
  /\ iothread_lock = NoOne
  /\ iothread_lock' = MainLoop
  /\ msi_ready' = FALSE
  /\ unplug' = "lock"
  /\ UNCHANGED <<queueVars, flagVars, batchVars, snapshotVars, splitVars,
                 processing_lock, threadVars, hostVars, msi>>

UnplugStop ==
  /\ unplug = "lock"
  /\ processing_lock = NoOne
  /\ stopping' = TRUE
  /\ unplug' = "signal"
  /\ UNCHANGED <<queueVars, doorbell, is_card_processing, batchVars, snapshotVars,
                 splitVars, processing_lock, iothread_lock, threadVars, hostVars,
                 msiVars>>

UnplugSignal ==
  /\ unplug = "signal"
  /\ CondSignal
  /\ unplug' = "join"
  /\ UNCHANGED <<queueVars, flagVars, batchVars, snapshotVars, splitVars,
                 processing_lock, iothread_lock, virtine_to_clean, hostVars, msiVars>>

(* A plausible mistake: not waiting for the thread.                        *)
UnplugNoJoin ==
  /\ unplug = "join"
  /\ iothread_lock' = NoOne
  /\ unplug' = "gone"
  /\ UNCHANGED <<queueVars, flagVars, batchVars, snapshotVars, splitVars,
                 processing_lock, threadVars, hostVars, msiVars>>

(* qemu_thread_join; the condition and the lock are destroyed after it. *)
UnplugJoin ==
  /\ unplug = "join"
  /\ thread = "exited"
  /\ iothread_lock' = NoOne
  /\ unplug' = "gone"
  /\ UNCHANGED <<queueVars, flagVars, batchVars, snapshotVars, splitVars,
                 processing_lock, threadVars, hostVars, msiVars>>

UnplugStep == UnplugStop \/ UnplugSignal \/ UnplugJoin

(* The guest takes the pending interrupt. *)
TakeInterrupt ==
  /\ msi
  /\ msi' = FALSE
  /\ UNCHANGED <<queueVars, flagVars, batchVars, snapshotVars, splitVars,
                 processing_lock, iothread_lock, threadVars, hostVars, msi_ready,
                 unplug>>

-----------------------------------------------------------------------------
Next ==
  \/ \E c \in CPUs : MmioHandler(c) \/ \E a \in HostAccesses : MmioEnter(c, a)
  \/ ThreadStep \/ SpuriousWakeup
  \/ UnplugBegin \/ UnplugStep
  \/ TakeInterrupt

Spec == Init /\ [][Next]_vars

(* Threads that can run do run, and whoever waits for a lock gets it if it *)
(* becomes free again and again.  Nothing is assumed of the guest, of      *)
(* spurious wakeups or of an unplug being asked for.                       *)
Fairness ==
  /\ WF_vars(ThreadStep) /\ SF_vars(ThreadLock) /\ SF_vars(ThreadIrqLock)
  /\ \A c \in CPUs :
       WF_vars(MmioHandler(c)) /\ SF_vars(ReadCqHead(c)) /\ SF_vars(WriteRqTailHi(c))
  /\ WF_vars(UnplugStep) /\ SF_vars(UnplugStop)

FairSpec == Spec /\ Fairness

-----------------------------------------------------------------------------
(* Safety. *)

(* The thread's critical section: from the check of the doorbell to the    *)
(* unlock at the end of the round, msi_notify included.                    *)
InRound ==
  {"check", "sleep", "start", "clear", "pop", "clean", "flag", "threshold",
   "irq", "notify"}

(* Who holds which lock: the cleanup thread keeps processing_lock through  *)
(* its whole round, the interrupt included, no lock outlives its holder's  *)
(* code, and the register handlers, the interrupt and uninit exclude each  *)
(* other on QEMU's iothread lock.                                          *)
LockDiscipline ==
  /\ processing_lock = IF thread \in InRound THEN CleanupThread ELSE NoOne
  /\ \A c \in CPUs : vcpu[c] # Idle <=> iothread_lock = c
  /\ thread = "notify" <=> iothread_lock = CleanupThread
  /\ unplug \in {"lock", "signal", "join"} <=> iothread_lock = MainLoop

(* The complete queue never holds a hole, whatever the guest writes: the   *)
(* thread inserts only addresses that its loop has found not to be 0.      *)
CqWellFormed == WellFormed(cq)

(* num_virtines_cleaned_already never passes the largest batch factor ever *)
(* written, so it neither overflows nor keeps an interrupt back for good.  *)
CleanedBound ==
  \E n \in BatchFactors \cup {1} : num_virtines_cleaned_already <= n

(* When msi_notify runs, the queue it announces is not empty: its newest   *)
(* virtine is the one just cleaned, or it was full and had no room for it. *)
NotifyFindsWork ==
  thread = "notify" =>
    \/ Occupancy(cq) = NUM_POSSIBLE_VIRTINES
    \/ /\ Occupancy(cq) > 0
       /\ Contents(cq)[Occupancy(cq)] = virtine_to_clean

(* virtine_fpga_uninit calls msi_uninit before it stops the thread, and    *)
(* still the thread never raises an interrupt on the uninitialised MSI.    *)
NotifyOnlyWhileMsiReady == thread = "notify" => msi_ready

(* Once uninit destroys the lock and the condition variable, nobody is     *)
(* waiting on them, holds them or is inside a handler that uses them.      *)
UninitIsLast ==
  unplug = "gone" =>
    /\ thread = "exited"
    /\ processing_lock = NoOne
    /\ \A c \in CPUs : vcpu[c] = Idle

-----------------------------------------------------------------------------
(* The service the card provides to a guest that never hands in address 0. *)

Service == INSTANCE CleanupService WITH
             Item <- Virtine, NoItem <- Zero, Capacity <- NUM_POSSIBLE_VIRTINES,
             ready <- Contents(rq), clean <- Contents(cq),
             cleaning <- IF thread = "clean" THEN virtine_to_clean ELSE Zero,
             fetched <- split_return

(* Every interleaving of handlers, cleanup thread and removal is one of    *)
(* the service: virtines come back in the order they were handed in, each  *)
(* once for each time, and none is lost but where a queue is full.         *)
ImplementsService == Service!Spec

-----------------------------------------------------------------------------
(* Liveness. *)

(* The thread holds processing_lock and waits for the iothread lock, whose *)
(* owner waits for processing_lock: neither can go on, ever.               *)
LockCycle ==
  /\ thread = "irq"
  /\ \/ \E c \in CPUs : Reading(c, "CQ_HEAD") \/ Writing(c, "RQ_TAIL_HI")
     \/ unplug = "lock"

(* A bell that rings while the thread sleeps starts a round, although the  *)
(* handler signals without holding processing_lock.                        *)
BellWakesSleeper ==
  (doorbell /\ thread = "waiting" /\ \E c \in CPUs : vcpu[c].op = "signal")
    ~> (thread \in {"start", "exited"} \/ LockCycle)

(* A round ends once the ready queue is drained: the guest cannot extend   *)
(* it, because the round holds the lock that inserting needs.              *)
RoundEnds == thread = "start" ~> (thread = "lock" \/ LockCycle)

(* Removing the card stops the thread and completes, wherever the thread   *)
(* was: stopping is set under processing_lock, so no wakeup is lost.       *)
UnplugCompletes == unplug = "lock" ~> (unplug = "gone" \/ LockCycle)

-----------------------------------------------------------------------------
(* What comments of virtine_fpga.c say and the code does not do. *)

(* Line 347 sets is_card_processing to "Signal that FPGA is doing work",   *)
(* and with the bell not rung line 97 reads it as "Card processing": a     *)
(* card that sleeps until the next bell does not say so.                   *)
SleepingCardIsIdle == thread = "waiting" /\ ~doorbell => ~is_card_processing

(* Lines 91-92: "The CPU receives an interrupt from the card when the      *)
(* provided virtines are cleaned up": a cleaned virtine is there to fetch. *)
CleanedIsKept ==
  thread = "flag" => \E s \in Slots : cq.buffer[s] = virtine_to_clean

(* Lines 85-87: the CPU can ring the doorbell, "informing the card that it *)
(* can begin working": a rung bell is answered.                            *)
BellIsAnswered == doorbell ~> (~doorbell \/ stopping)

(* Lines 342-345 and 394: a round that began ends, "Repeat this forever".  *)
CardGoesOn == thread = "start" ~> thread = "lock"
=============================================================================
