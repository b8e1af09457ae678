------------------------------ MODULE FpgaChar ------------------------------
(***************************************************************************)
(* The fpga-char driver on top of the card: processes that use             *)
(* /dev/virtine_fpga, and the handler of the card's interrupt.             *)
(*                                                                         *)
(* The driver takes no lock.  A call on the device file is a sequence of   *)
(* 32-bit register accesses (iowrite32, readl), and the accesses of other  *)
(* processes and of the interrupt handler come in between.                 *)
(*                                                                         *)
(* A process hands in only virtines that it holds: one that is already on  *)
(* its way through the card is handed in again only after it came back.    *)
(***************************************************************************)
EXTENDS VirtineFpga, Sequences, FiniteSets

CONSTANTS
  Processes,   \* the programs that use the device file
  Isr,         \* fetch_clean_virtines, run for one interrupt at a time
  Virtines,    \* the virtines they own
  Snapshots,   \* the snapshots they may set
  Calls,       \* the calls each process makes
  Closers      \* the processes that close the file again

(* The register 4 bytes further up, as far as the card knows it.  RQ_BASE, *)
(* CQ_BASE_HI and the halves the card ignores are followed by such ones.   *)
NextRegister ==
  [r \in Register |->
     CASE r = "RQ_HEAD"       -> "RQ_HEAD_HI"
       [] r = "RQ_HEAD_HI"    -> "RQ_TAIL"
       [] r = "RQ_TAIL"       -> "RQ_TAIL_HI"
       [] r = "RQ_TAIL_HI"    -> "RQ_BASE"
       [] r = "CQ_HEAD"       -> "CQ_HEAD_HI"
       [] r = "CQ_HEAD_HI"    -> "CQ_TAIL"
       [] r = "CQ_TAIL"       -> "CQ_TAIL_HI"
       [] r = "CQ_TAIL_HI"    -> "CQ_BASE"
       [] r = "CQ_BASE"       -> "CQ_BASE_HI"
       [] r = "SNAPSHOT_ADDR" -> "SNAPSHOT_ADDR_HI"
       [] OTHER               -> "OTHER"]

(* The calls on an open file that the driver serves, with their arguments: *)
(* 8-byte reads and writes at any register, and the ioctls.                *)
PWrite(r, v) == [name |-> "pwrite", reg |-> r, virtine |-> v]
PRead(r) == [name |-> "pread", reg |-> r]
RingDoorbell == [name |-> "RING_DOORBELL"]
ModifyBatchFactor(n) == [name |-> "MODIFY_BATCH_FACTOR", batch |-> n]
GetMaxNumVirtines == [name |-> "GET_MAX_NUM_VIRTINES"]
SetSnapshot(s) == [name |-> "SET_SNAPSHOT", snapshot |-> s]
NoCall == [name |-> "none"]

HandIn(v) == PWrite("RQ_TAIL", v)
Fetch == PRead("CQ_HEAD")

(* What the test programs call, each once and for arguments of the user's  *)
(* choice.  (Writing the batch factor is left to the ioctl.)               *)
TestGiveVirtine == {HandIn(v) : v \in Virtines}

TestIoctls ==
  {RingDoorbell, GetMaxNumVirtines}
  \cup {ModifyBatchFactor(n) : n \in BatchFactors}
  \cup {SetSnapshot(s) : s \in Snapshots}

TestAddrs ==
  {PRead(r) : r \in Register}
  \cup {PWrite(r, v) : r \in Register \ {"BATCH_FACTOR"}, v \in Virtines}

Call == TestGiveVirtine \cup TestIoctls \cup TestAddrs

ASSUME DriverAssumption ==
  /\ Isr \notin Processes /\ CPUs = Processes \cup {Isr}
  /\ Virtines \subseteq Virtine
  /\ Snapshots \subseteq [size : Hwaddr, addr : Hwaddr]
  /\ Calls \in [Processes -> SUBSET Call]
  /\ Closers \subseteq Processes

(* A plausible mistake: the high half first.                               *)
WriteBothHighFirst(r, a) == <<Write(NextRegister[r], a.hi), Write(r, a.lo)>>

(* An 8-byte fpga_char_write, and an 8-byte _fpga_char_read. *)
WriteBoth(r, a) == <<Write(r, a.lo), Write(NextRegister[r], a.hi)>>

ReadBoth(r) == <<Read(r), Read(NextRegister[r])>>

(* The register accesses a call makes. *)
AccessesOf(call) ==
  CASE call.name = "pwrite"        -> WriteBoth(call.reg, call.virtine)
    [] call.name = "pread"         -> ReadBoth(call.reg)
    [] call.name = "RING_DOORBELL" -> <<Write("DOORBELL", LowestBit)>>
    [] call.name = "MODIFY_BATCH_FACTOR" -> <<WriteCount("BATCH_FACTOR", call.batch)>>
    [] call.name = "GET_MAX_NUM_VIRTINES" -> <<Read("MAX_NUM_VIRTINES")>>
    [] call.name = "SET_SNAPSHOT"  ->
         WriteBoth("SNAPSHOT_SIZE", call.snapshot.size)
         \o WriteBoth("SNAPSHOT_ADDR", call.snapshot.addr)

(* The card's guest makes the accesses of the driver, and maybe others. *)
ASSUME GuestAssumption ==
  /\ \A p \in Processes : \A a \in Calls[p] : AccessesOf(a) \in Seq(HostAccesses)
  /\ ReadBoth("CQ_HEAD") \in Seq(HostAccesses)

VARIABLES
  opened,    \* the processes that have the file open
  filep,     \* fpga_device.filep: whose open set it last, or NoOne
  call,      \* the call each process is in
  todo,      \* the accesses that each call, or the handler, still makes
  low,       \* the half of an address that a read has returned first
  isr,       \* where the interrupt handler is
  clean_virtines,  \* its array, as far as it is filled
  given      \* the virtines handed in that have not come back

driverVars == <<opened, filep, call, todo, low, isr, clean_virtines, given>>

(* The card is not unplugged here, and the guest is the driver alone. *)
cardVars == vars

allVars == <<driverVars, cardVars>>

DriverTypeOK ==
  /\ TypeOK
  /\ opened \subseteq Processes /\ filep \in Processes \cup {NoOne}
  /\ \A p \in Processes : call[p] \in Calls[p] \cup {NoCall}
  /\ todo \in [CPUs -> Seq(Access)]
  /\ low \in [CPUs -> Word]
  /\ isr \in {"idle", "fetch", "oops"}
  /\ clean_virtines \in Seq(Virtine)
  /\ given \subseteq Virtine

DriverInit ==
  /\ Init
  /\ opened = {} /\ filep = NoOne
  /\ call = [p \in Processes |-> NoCall]
  /\ todo = [c \in CPUs |-> <<>>]
  /\ low = [c \in CPUs |-> ZeroWord]
  /\ isr = "idle" /\ clean_virtines = <<>>
  /\ given = {}

-----------------------------------------------------------------------------
(* The device file. *)

(* Every open points the one fpga_device at the file it opens ... *)
Open(p) ==
  /\ p \notin opened
  /\ opened' = opened \cup {p}
  /\ filep' = p
  /\ UNCHANGED <<call, todo, low, isr, clean_virtines, given, cardVars>>

(* ... and release, or exit, frees that file without taking it back. *)
Release(p) ==
  /\ p \in Closers \cap opened /\ call[p] = NoCall
  /\ opened' = opened \ {p}
  /\ UNCHANGED <<filep, call, todo, low, isr, clean_virtines, given, cardVars>>

BeginCall(p) ==
  /\ p \in opened /\ call[p] = NoCall
  /\ \E a \in Calls[p] :
       /\ a \in TestGiveVirtine => a.virtine \notin given
       /\ call' = [call EXCEPT ![p] = a]
       /\ todo' = [todo EXCEPT ![p] = AccessesOf(a)]
       /\ given' = IF a \in TestGiveVirtine THEN given \cup {a.virtine} ELSE given
  /\ UNCHANGED <<opened, filep, low, isr, clean_virtines, cardVars>>

(* The next access of a call or of the handler.  The low half of an address *)
(* is put aside before the high half is read.                              *)
NextAccess(c) ==
  /\ todo[c] # <<>>
  /\ MmioEnter(c, Head(todo[c]))
  /\ todo' = [todo EXCEPT ![c] = Tail(@)]
  /\ low' = [low EXCEPT ![c] =
               IF Len(todo[c]) = 1 /\ Head(todo[c]).op = "read" THEN mmio_val[c] ELSE ZeroWord]
  /\ UNCHANGED <<opened, filep, call, isr, clean_virtines, given>>

Done(c) == todo[c] = <<>> /\ vcpu[c] = Idle

(* The address an 8-byte read has put together. *)
Result(c) == [hi |-> mmio_val[c], lo |-> low[c]]

EndCall(p) ==
  /\ call[p] # NoCall /\ Done(p)
  /\ call' = [call EXCEPT ![p] = NoCall]
  /\ given' = IF call[p] = Fetch THEN given \ {Result(p)} ELSE given
  /\ UNCHANGED <<opened, filep, todo, low, isr, clean_virtines, cardVars>>

-----------------------------------------------------------------------------
(* fetch_clean_virtines. *)

(* The handler reads through fpga->filep.  If that file is closed, its     *)
(* struct file is freed memory: the read works, or the kernel faults in an *)
(* interrupt and stops.                                                    *)
IsrEnter ==
  /\ isr = "idle"
  /\ TakeInterrupt
  /\ isr' \in IF filep \in opened THEN {"fetch"} ELSE {"fetch", "oops"}
  /\ todo' = [todo EXCEPT ![Isr] = IF isr' = "fetch" THEN ReadBoth("CQ_HEAD") ELSE <<>>]
  /\ UNCHANGED <<opened, filep, call, low, clean_virtines, given>>

(* Two plausible mistakes: one virtine for each interrupt, and handing     *)
(* each out at once, before the handler is done.                           *)
IsrNextOnce ==
  /\ isr = "fetch" /\ Done(Isr)
  /\ isr' = "idle"
  /\ given' = given \ {Result(Isr)}
  /\ UNCHANGED <<opened, filep, call, todo, low, clean_virtines, cardVars>>

IsrNextHandsOut ==
  /\ isr = "fetch" /\ Done(Isr)
  /\ given' = given \ {Result(Isr)}
  /\ IF Result(Isr) = Zero
     THEN isr' = "idle" /\ clean_virtines' = <<>> /\ UNCHANGED todo
     ELSE /\ clean_virtines' = Append(clean_virtines, Result(Isr))
          /\ todo' = [todo EXCEPT ![Isr] = ReadBoth("CQ_HEAD")]
          /\ UNCHANGED isr
  /\ UNCHANGED <<opened, filep, call, low, cardVars>>

(* An address that is not 0 is kept and the next one read.  0 is the end:  *)
(* what the handler has fetched is free to be handed in again.             *)
IsrNext ==
  /\ isr = "fetch" /\ Done(Isr)
  /\ IF Result(Isr) = Zero
     THEN /\ isr' = "idle" /\ clean_virtines' = <<>> /\ UNCHANGED todo
          /\ given' = given \ {clean_virtines[i] : i \in DOMAIN clean_virtines}
     ELSE /\ clean_virtines' = Append(clean_virtines, Result(Isr))
          /\ todo' = [todo EXCEPT ![Isr] = ReadBoth("CQ_HEAD")]
          /\ UNCHANGED <<isr, given>>
  /\ UNCHANGED <<opened, filep, call, low, cardVars>>

-----------------------------------------------------------------------------
CardStep ==
  /\ ThreadStep \/ SpuriousWakeup \/ \E c \in CPUs : MmioHandler(c)
  /\ UNCHANGED driverVars

DriverNext ==
  /\ isr # "oops"
  /\ \/ \E p \in Processes : Open(p) \/ Release(p) \/ BeginCall(p) \/ EndCall(p)
     \/ \E c \in CPUs : NextAccess(c)
     \/ IsrEnter \/ IsrNext
     \/ CardStep

DriverSpec == DriverInit /\ [][DriverNext]_allVars

-----------------------------------------------------------------------------
(* Safety of driver and card together. *)

(* The virtines that a pwrite has not got into the ready queue yet. *)
Entering ==
  {call[p].virtine : p \in {x \in Processes : call[x] \in TestGiveVirtine /\ ~Done(x)}}

(* The virtine that the interrupt handler has popped and not yet kept.     *)
Leaving ==
  IF isr # "fetch" THEN {}
  ELSE IF Done(Isr) THEN {Result(Isr)}
  ELSE IF (Len(todo[Isr]) = 1 /\ vcpu[Isr] = Idle) \/ Reading(Isr, "CQ_HEAD_HI")
  THEN {split_return}
  ELSE {}

(* In how many places a virtine is on its way. *)
Copies(v) ==
  Cardinality({q \in {"rq", "cq"} \X Slots :
                 v = IF q[1] = "rq" THEN rq.buffer[q[2]] ELSE cq.buffer[q[2]]})
  + (IF v \in Entering THEN 1 ELSE 0)
  + (IF thread = "clean" /\ v = virtine_to_clean THEN 1 ELSE 0)
  + (IF v \in Leaving THEN 1 ELSE 0)
  + Cardinality({i \in DOMAIN clean_virtines : clean_virtines[i] = v})

(* No virtine is lost, doubled or made up between the pwrite that hands it *)
(* in and the handler that fetches it, as long as one process writes, only *)
(* the handler reads, and no more virtines exist than a queue has room for.*)
Conservation == \A v \in Virtine : Copies(v) = IF v \in given THEN 1 ELSE 0

(* When no interrupt is pending and the handler is not running, then clean *)
(* virtines wait only for their batch to fill up: each was cleaned after   *)
(* the last interrupt.  An interrupt that falls into a running handler is  *)
(* not lost on them, nor is a virtine cleaned while the handler finds the  *)
(* queue empty, as long as the handler is the only reader.                 *)
NoStrandedCompletion ==
  ~msi /\ isr = "idle" => Occupancy(cq) <= num_virtines_cleaned_already

(* The handler's array has as many entries as a queue and its loop has no  *)
(* bound.  It does not overflow as long as no more virtines are in         *)
(* circulation than that, although the card cleans, and the program hands  *)
(* in, while the handler runs.                                             *)
FetchedFitsArray == Len(clean_virtines) <= NUM_POSSIBLE_VIRTINES

(* The thread copies a whole snapshot, size and address of one SET_SNAPSHOT *)
(* or those of realize, unless one is being set just then: with one setter *)
(* no mixture outlives the four writes of its call.                        *)
SnapshotWhole ==
  thread = "clean" /\ (\A p \in Processes : call[p].name # "SET_SNAPSHOT") =>
    [size |-> snapshot_size, addr |-> snapshot_addr] \in
      {[size |-> s.size.lo, addr |-> s.addr] : s \in Snapshots}
      \cup {[size |-> CleanStateSize, addr |-> CleanState]}

-----------------------------------------------------------------------------
(* What comments say and the code does not do. *)

(* virtine_fpga.c:133-138: the second read gets "the entire 64-bit address"*)
(* of the virtine that the first one popped: a reader ends up with 0 or an *)
(* address that was handed in.                                             *)
ReadsWholeAddress ==
  /\ isr = "fetch" /\ Done(Isr) => Result(Isr) \in given \cup {Zero}
  /\ \A p \in Processes :
       call[p] = Fetch /\ Done(p) => Result(p) \in given \cup {Zero}

(* fpga_char_main.h:26: filep is "Used for reading/writing from character  *)
(* device file during interrupt", so the handler runs with an open file.   *)
HandlerHasOpenFile == isr = "fetch" => filep \in opened
=============================================================================
