--------------------------- MODULE CharLifeProofs ---------------------------
(***************************************************************************)
(* Who uses the device file, and the interrupt handler as long as a file   *)
(* is open, finds the driver's structures there: for any number of         *)
(* processes, failures and reloads of both drivers.                        *)
(***************************************************************************)
EXTENDS CharFileProofs, FiniteSetTheorems

-----------------------------------------------------------------------------
(* What the proof needs to know of the tables. *)

LEMMA FpgaProbeTable ==
  /\ DOMAIN FpgaProbe = 1..14
  /\ FpgaProbe[1].call = "fpga" /\ FpgaProbe[8].call = "mapping"
  /\ FpgaProbe[12].call = "node" /\ FpgaProbe[13].call = "fpga_dev"
  /\ FpgaProbe[14].call = "drvdata"
  /\ FpgaProbe[1].label # "ignored" /\ FpgaProbe[8].label # "ignored"
  /\ FpgaProbe[12].label = "ignored"
  /\ \A i \in 1..11 : FpgaProbe[i].call \notin {"node", "fpga_dev"}
<1> USE DEF FpgaProbe, AcquireCard, MapRegisters, CreateCharDevs, Step, Quiet
<1>1. DOMAIN FpgaProbe = 1..14
  OBVIOUS
<1>2. /\ FpgaProbe[1].call = "fpga" /\ FpgaProbe[8].call = "mapping"
      /\ FpgaProbe[12].call = "node"
  OBVIOUS
<1>3. FpgaProbe[13].call = "fpga_dev" /\ FpgaProbe[14].call = "drvdata"
  OBVIOUS
<1>6. FpgaProbe[1].label = "return" /\ FpgaProbe[8].label = "region"
  OBVIOUS
<1>7. FpgaProbe[12].label = "ignored"
  OBVIOUS
<1>4. \A i \in 1..6 : FpgaProbe[i].call \notin {"node", "fpga_dev"}
  OBVIOUS
<1>5. \A i \in 7..11 : FpgaProbe[i].call \notin {"node", "fpga_dev"}
  OBVIOUS
<1> QED
  BY <1>1, <1>2, <1>3, <1>4, <1>5, <1>6, <1>7

LEMMA EchoProbeTable ==
  \A i \in DOMAIN EchoProbe : EchoProbe[i].call \notin {"node", "fpga_dev"}
BY DEF EchoProbe, Step, Quiet

LEMMA FpgaRemoveTable == \A i \in DOMAIN FpgaRemove : FpgaRemove[i] # "fpga_dev"
BY DEF FpgaRemove

TaskRecord ==
  [name : {"none", "probe", "rollback", "remove"},
   driver : {"fpga_char", "pcie_echo", NoDriver}, next : Nat \ {0}]

(* The driver core runs one thing at a time, and only for a card.          *)
TaskInv ==
  /\ task \in TaskRecord
  /\ bound \in {"fpga_char", "pcie_echo", NoDriver}
  /\ task.name = "none" => task = NoTask
  /\ task.name \in {"probe", "rollback"} => bound = NoDriver /\ task.driver # NoDriver
  /\ task.name = "remove" => bound # NoDriver /\ task.driver = bound
  /\ card \in {"absent", "present", "gone"}
  /\ card = "absent" => matching = {} /\ bound = NoDriver /\ task = NoTask

NodeOrDev == {"node", "fpga_dev"} \cap held # {}

Device == {"fpga", "mapping", "fpga_dev"}

FpgaProbing == task.name = "probe" /\ task.driver = "fpga_char"

(* Whose the node and fpga_dev are, and what is there beside them.         *)
OwnInv ==
  /\ task = NoTask /\ bound = NoDriver => held = {}
  /\ FpgaProbing =>
       /\ task.next > 1 => "fpga" \in held
       /\ task.next > 8 => "mapping" \in held
       /\ task.next > 13 => "fpga_dev" \in held
       /\ task.next <= 12 => "node" \notin held
       /\ task.next <= 13 => "fpga_dev" \notin held
  /\ NodeOrDev => FpgaProbing \/ (task.name \in {"none", "remove"} /\ bound = "fpga_char")
  /\ NodeOrDev /\ task = NoTask => Device \subseteq held
  /\ "node" \in held /\ task.name = "remove" => "fpga_dev" \in held

PciInv == TaskInv /\ OwnInv

LEMMA PciInvInit == PciInit => PciInv
BY DEF PciInit, PciInv, TaskInv, OwnInv, NodeOrDev, FpgaProbing, TaskRecord, NoTask, Task,
  NoDriver

LEMMA NextType == ASSUME task \in TaskRecord
                  PROVE  /\ [task EXCEPT !.next = @ + 1] \in TaskRecord
                         /\ [task EXCEPT !.next = @ + 1].next = task.next + 1
                         /\ [task EXCEPT !.next = @ + 1].name = task.name
                         /\ [task EXCEPT !.next = @ + 1].driver = task.driver
BY DEF TaskRecord

(* A call that succeeds. *)
LEMMA SucceedsStep == ASSUME PciInv, Succeeds PROVE PciInv'
<1>1. /\ task.name = "probe" /\ task.next \in DOMAIN Probe[task.driver]
      /\ Calling = Probe[task.driver][task.next].call
  BY DEF Succeeds, Calling
<1>2. /\ task'.name = "probe" /\ task'.driver = task.driver
      /\ task'.next = task.next + 1 /\ task' \in TaskRecord /\ task.next \in Nat \ {0}
  BY <1>1, NextType DEF Succeeds, PciInv, TaskInv, TaskRecord
<1>3. TaskInv'
  BY <1>1, <1>2 DEF PciInv, TaskInv, Succeeds, NoTask, Task
<1>4. CASE task.driver = "fpga_char"
  <2>1. Probe[task.driver] = FpgaProbe
    BY <1>4 DEF Probe
  <2>2. task.next \in 1..14
    BY <1>1, <2>1, FpgaProbeTable
  <2>3. held' = held \cup ({FpgaProbe[task.next].call} \cap Resource)
    BY <1>1, <2>1 DEF Succeeds
  <2>4. FpgaProbing /\ FpgaProbing'
    BY <1>1, <1>2, <1>4 DEF FpgaProbing
  <2> DEFINE call == FpgaProbe[task.next].call
  <2>10. call \in Resource => call \in held'
    BY <2>3
  <2>11. held \subseteq held'
    BY <2>3
  <2>12. /\ task.next > 1 => "fpga" \in held
         /\ task.next > 8 => "mapping" \in held
         /\ task.next > 13 => "fpga_dev" \in held
    BY <2>4 DEF PciInv, OwnInv
  <2>13. /\ task.next = 1 => call = "fpga"
         /\ task.next = 8 => call = "mapping"
         /\ task.next = 13 => call = "fpga_dev"
    BY FpgaProbeTable
  <2> HIDE DEF call
  <2>5. task'.next > 1 => "fpga" \in held'
    BY <1>2, <2>10, <2>11, <2>12, <2>13 DEF Resource
  <2>6. task'.next > 8 => "mapping" \in held'
    BY <1>2, <2>10, <2>11, <2>12, <2>13 DEF Resource
  <2>7. task'.next > 13 => "fpga_dev" \in held'
    BY <1>2, <2>10, <2>11, <2>12, <2>13 DEF Resource
  <2>8. task'.next <= 12 => "node" \notin held'
    BY <1>2, <2>2, <2>3, <2>4, FpgaProbeTable DEF PciInv, OwnInv
  <2>9. task'.next <= 13 => "fpga_dev" \notin held'
    BY <1>2, <2>2, <2>3, <2>4, FpgaProbeTable DEF PciInv, OwnInv
  <2> QED
    BY <1>2, <1>3, <2>4, <2>5, <2>6, <2>7, <2>8, <2>9
      DEF PciInv, OwnInv, NoTask, Task
<1>5. CASE task.driver # "fpga_char"
  <2>1. task.driver = "pcie_echo" /\ bound = NoDriver
    BY <1>1, <1>5 DEF PciInv, TaskInv, TaskRecord
  <2>2. Calling \notin {"node", "fpga_dev"}
    BY <1>1, <2>1, EchoProbeTable DEF Probe
  <2>3. ~NodeOrDev
    BY <1>1, <2>1 DEF PciInv, OwnInv, FpgaProbing, NoDriver
  <2>4. ~NodeOrDev'
    BY <2>2, <2>3 DEF Succeeds, NodeOrDev
  <2> QED
    BY <1>2, <1>3, <2>1, <2>4 DEF PciInv, OwnInv, FpgaProbing, NodeOrDev, NoTask, Task
<1> QED  BY <1>4, <1>5

(* A call that fails: not one after the node, so the chain of releases     *)
(* starts without node and fpga_dev.                                       *)
LEMMA FailsStep == ASSUME DriversAssumption, PciInv, Fails PROVE PciInv'
<1> DEFINE d == task.driver
           step == Probe[d][task.next]
<1>1. Calling \in FallibleCalls
  BY DEF Fails, DriversAssumption, FallibleCalls
<1>2. /\ task.name = "probe" /\ task.next \in DOMAIN Probe[d]
      /\ Calling = step.call
  BY <1>1 DEF Calling, FallibleCalls
<1>3. UNCHANGED <<card, matching, bound, held>>
  BY DEF Fails, ownVars
<1>4. /\ task' \in TaskRecord /\ task'.driver = d
      /\ \/ task' = task
         \/ task'.name = "probe" /\ task'.next = task.next + 1 /\ step.label = "ignored"
         \/ task'.name = "rollback" /\ step.label # "ignored"
  <2>1. CASE step.label = "ignored"
    BY <1>2, <2>1, NextType DEF Fails, PciInv, TaskInv
  <2>2. CASE step.label = "crash"
    BY <2>2 DEF Fails, PciInv, TaskInv
  <2>3. CASE step.label \notin {"ignored", "crash"}
    <3>1. task' = Task("rollback", d, Position(RollBack[d], step.label))
      BY <2>3 DEF Fails
    <3>2. Position(RollBack[d], step.label) \in Nat \ {0}
      <4>1. d \in {"fpga_char", "pcie_echo"}
        BY <1>2 DEF PciInv, TaskInv, TaskRecord
      <4>2. CASE d = "fpga_char"
        <5>1. RollBack[d] = FpgaRollBack
          BY <4>2 DEF RollBack
        <5>2. DOMAIN FpgaRollBack = 1..8 /\ Len(FpgaRollBack) = 8
          BY DEF FpgaRollBack
        <5> HIDE DEF step
        <5> QED
          BY <5>1, <5>2 DEF Position
      <4>3. CASE d = "pcie_echo"
        <5>1. RollBack[d] = ReleaseDevice
          BY <4>3 DEF RollBack
        <5>2. DOMAIN ReleaseDevice = 1..2 /\ Len(ReleaseDevice) = 2
          BY DEF ReleaseDevice
        <5> HIDE DEF step
        <5> QED
          BY <5>1, <5>2 DEF Position
      <4> QED
        BY <4>1, <4>2, <4>3
    <3> QED
      BY <2>3, <3>1, <3>2 DEF Task, PciInv, TaskInv, TaskRecord
  <2> QED
    BY <2>1, <2>2, <2>3
<1>5. TaskInv'
  BY <1>2, <1>3, <1>4 DEF PciInv, TaskInv, NoTask, Task
<1>6. task' # NoTask /\ task'.name \in {"probe", "rollback"} /\ bound' = NoDriver
  BY <1>2, <1>3, <1>4 DEF PciInv, TaskInv, NoTask, Task
<1>7. CASE d = "fpga_char"
  <2>1. step = FpgaProbe[task.next] /\ task.next \in 1..14
    BY <1>2, <1>7, FpgaProbeTable DEF Probe
  <2>2. task.next \in 1..12
    BY <1>1, <1>2, <2>1, FpgaProbeTable DEF FallibleCalls
  <2>3. step.label = "ignored" => task.next \notin {1, 8}
    BY <2>1, FpgaProbeTable
  <2>4. FpgaProbing
    BY <1>2, <1>7 DEF FpgaProbing
  <2>5. ~NodeOrDev
    BY <2>2, <2>4 DEF PciInv, OwnInv, NodeOrDev
  <2> HIDE DEF step
  <2> QED
    BY <1>3, <1>4, <1>5, <1>6, <2>2, <2>3, <2>4, <2>5
      DEF PciInv, OwnInv, NodeOrDev, FpgaProbing
<1>8. CASE d # "fpga_char"
  <2>1. ~NodeOrDev
    BY <1>2, <1>8 DEF PciInv, OwnInv, TaskInv, FpgaProbing, NoDriver
  <2> QED
    BY <1>3, <1>4, <1>5, <1>6, <1>8, <2>1 DEF PciInv, OwnInv, NodeOrDev, FpgaProbing
<1> QED  BY <1>7, <1>8

LEMMA EndProbeStep == ASSUME PciInv, EndProbe PROVE PciInv'
<1>1. /\ task.name = "probe" /\ task.next \notin DOMAIN Probe[task.driver]
      /\ task' = NoTask /\ bound' = task.driver /\ UNCHANGED <<card, held>>
  <2>1. ASSUME task.driver \in {"fpga_char", "pcie_echo"}, task.next \in DOMAIN Probe[task.driver]
        PROVE  Probe[task.driver][task.next].call # "nothing"
    BY <2>1 DEF Probe, FpgaProbe, AcquireCard, MapRegisters, CreateCharDevs, EchoProbe,
      Step, Quiet
  <2> QED
    BY <2>1 DEF EndProbe, Calling, Claim, PciInv, TaskInv, TaskRecord
<1>2. task.driver \in {"fpga_char", "pcie_echo"} /\ card # "absent" /\ task.next \in Nat \ {0}
  BY <1>1 DEF PciInv, TaskInv, TaskRecord, NoTask, Task
<1>3. NoTask \in TaskRecord
  BY DEF NoTask, Task, TaskRecord
<1>4. TaskInv'
  BY <1>1, <1>2, <1>3 DEF PciInv, TaskInv, NoTask, Task, NoDriver
<1>5. NodeOrDev => task.driver = "fpga_char" /\ Device \subseteq held
  <2> SUFFICES ASSUME NodeOrDev PROVE task.driver = "fpga_char" /\ Device \subseteq held
    OBVIOUS
  <2>1. FpgaProbing
    BY <1>1 DEF PciInv, OwnInv
  <2>2. task.next \notin 1..14
    BY <1>1, <2>1, FpgaProbeTable DEF FpgaProbing, Probe
  <2> QED
    BY <1>2, <2>1, <2>2 DEF PciInv, OwnInv, Device, FpgaProbing
<1> QED
  BY <1>1, <1>2, <1>4, <1>5 DEF PciInv, OwnInv, NodeOrDev, FpgaProbing, NoTask, Task, NoDriver

(* A release only takes away, and fpga_remove does not reset fpga_dev.     *)
LEMMA ReleaseStep == ASSUME PciInv, RollBackStep \/ RemoveStep PROVE PciInv'
<1>1. /\ task.name \in {"rollback", "remove"} /\ Releasing # "nothing"
      /\ UNCHANGED <<card, matching, bound>> /\ held' = held \ {Releasing}
      /\ task' \in TaskRecord /\ task'.name = task.name /\ task'.driver = task.driver
  BY NextType DEF RollBackStep, RemoveStep, Release, PciInv, TaskInv
<1>2. TaskInv'
  BY <1>1 DEF PciInv, TaskInv, NoTask, Task
<1>3. ~(FpgaProbing') /\ task' # NoTask
  BY <1>1 DEF FpgaProbing, NoTask, Task
<1>4. NodeOrDev' => NodeOrDev
  BY <1>1 DEF NodeOrDev
<1>5. ASSUME "node" \in held', task'.name = "remove" PROVE "fpga_dev" \in held'
  <2>1. "node" \in held /\ task.name = "remove" /\ "fpga_dev" \in held
    BY <1>1, <1>5 DEF PciInv, OwnInv
  <2>2. task.driver = "fpga_char"
    BY <2>1 DEF PciInv, TaskInv, OwnInv, NodeOrDev, FpgaProbing
  <2>3. Releasing # "fpga_dev"
    BY <1>1, <2>1, <2>2, FpgaRemoveTable DEF Releasing, Chain, Remove
  <2> QED
    BY <1>1, <2>1, <2>3
<1>6. NodeOrDev => task.name = "remove" /\ bound = "fpga_char"
  BY <1>1 DEF PciInv, OwnInv, FpgaProbing
<1> QED
  BY <1>1, <1>2, <1>3, <1>4, <1>5, <1>6 DEF PciInv, OwnInv

(* The end of a roll back or a remove. *)
LEMMA EndStep == ASSUME PciInv, EndRollBack \/ EndRemove PROVE PciInv'
<1>1. /\ task.name \in {"rollback", "remove"} /\ task' = NoTask /\ card' = card
      /\ \/ held' = {} /\ bound' = NoDriver
         \/ task.name = "rollback" /\ held' = held /\ bound' = task.driver
  BY DEF EndRollBack, EndRemove, Claim, LeaveBehind
<1>2. card # "absent"
  BY <1>1 DEF PciInv, TaskInv, NoTask, Task
<1>3. task.name = "rollback" => ~NodeOrDev /\ task.driver \in {"fpga_char", "pcie_echo"}
  BY DEF PciInv, TaskInv, OwnInv, FpgaProbing, TaskRecord
<1>4. TaskInv'
  BY <1>1, <1>2, <1>3 DEF PciInv, TaskInv, NoTask, Task, TaskRecord
<1> QED
  BY <1>1, <1>3, <1>4 DEF PciInv, OwnInv, NodeOrDev, FpgaProbing, NoTask, Task, NoDriver

(* What the user does, and the begin of a probe. *)
LEMMA UserStep ==
  ASSUME DriversAssumption, PciInv,
         (\E d \in Drivers : Insmod(d) \/ Rmmod(d) \/ ProbeBegin(d)) \/ Plug \/ Pull
  PROVE  PciInv'
<1>1. Drivers \subseteq {"fpga_char", "pcie_echo"}
  BY DEF DriversAssumption
<1>2. CASE (\E d \in Drivers : Insmod(d)) \/ Plug
  <2>1. UNCHANGED <<task, bound, held>>
    BY <1>2 DEF Insmod, Plug, taskVars, ownVars
  <2>2. TaskInv'
    BY <1>2, <2>1 DEF Insmod, Plug, PciInv, TaskInv
  <2> QED
    BY <2>1, <2>2 DEF PciInv, OwnInv, NodeOrDev, FpgaProbing
<1>3. CASE (\E d \in Drivers : Rmmod(d)) \/ Pull
  <2>1. /\ task = NoTask /\ UNCHANGED <<bound, held>>
        /\ \/ task' = task
           \/ bound # NoDriver /\ task' = Task("remove", bound, 1)
        /\ \/ UNCHANGED <<card, matching>>
           \/ card' = "gone"
    BY <1>1, <1>3 DEF Rmmod, Pull, ownVars, NoDriver
  <2>2. TaskInv'
    BY <2>1 DEF PciInv, TaskInv, Task, NoTask, TaskRecord
  <2> QED
    BY <2>1, <2>2 DEF PciInv, OwnInv, NodeOrDev, FpgaProbing, Task, NoTask, Device
<1>4. ASSUME NEW d \in Drivers, ProbeBegin(d) PROVE PciInv'
  <2>1. /\ task = NoTask /\ bound = NoDriver /\ d \in matching
        /\ task' = Task("probe", d, 1) /\ UNCHANGED <<card, bound, held>>
    BY <1>4 DEF ProbeBegin, ownVars
  <2>2. held' = {} /\ card # "absent"
    BY <1>1, <2>1 DEF PciInv, OwnInv, TaskInv
  <2>3. TaskInv'
    BY <1>1, <2>1, <2>2 DEF PciInv, TaskInv, Task, NoTask, TaskRecord, NoDriver
  <2> QED
    BY <2>1, <2>2, <2>3 DEF PciInv, OwnInv, NodeOrDev, FpgaProbing, Task
<1> QED  BY <1>2, <1>3, <1>4

LEMMA PciStands ==
  ASSUME PciInv, UNCHANGED <<card, matching, bound, task, held>> PROVE PciInv'
BY DEF PciInv, TaskInv, OwnInv, NodeOrDev, FpgaProbing

LEMMA PciStep == ASSUME DriversAssumption, PciInv, PciNext PROVE PciInv'
<1>1. CASE RemoveCrash
  BY <1>1, PciStands DEF RemoveCrash, taskVars, ownVars
<1> QED
  BY <1>1, UserStep, SucceedsStep, FailsStep, EndProbeStep, ReleaseStep, EndStep
    DEF PciNext, ProbeOrRemove

-----------------------------------------------------------------------------
(* The device file. *)

(* Whoever has the file open holds references to the module, and while the *)
(* card is there its driver is not being removed.                          *)
FileInv ==
  /\ opened \subseteq Processes /\ IsFiniteSet(opened)
  /\ pins \in Int /\ pins >= 2 * Cardinality(opened)
  /\ \A p \in Processes : io[p].op # "none" => p \in opened
  /\ opened # {} /\ card # "gone" => Device \subseteq held /\ task.name # "remove"

LifeInv == IOInv /\ PciInv /\ FileInv

(* No failure and no driver but the one that is being removed takes the    *)
(* device away.                                                            *)
LEMMA DeviceStays ==
  ASSUME DriversAssumption, PciInv, Device \subseteq held, task.name # "remove",
         \/ \E d \in Drivers : Insmod(d) \/ ProbeBegin(d) \/ (Rmmod(d) /\ d # "fpga_char")
         \/ Plug \/ ProbeOrRemove
  PROVE  Device \subseteq held' /\ task'.name # "remove"
<1>1. NodeOrDev /\ "fpga_dev" \in held
  BY DEF NodeOrDev, Device
<1>2. FpgaProbing \/ (task = NoTask /\ bound = "fpga_char")
  BY <1>1 DEF PciInv, TaskInv, OwnInv
<1>3. CASE \E d \in Drivers : Insmod(d) \/ ProbeBegin(d) \/ (Rmmod(d) /\ d # "fpga_char")
  <2>1. PICK d \in Drivers : Insmod(d) \/ ProbeBegin(d) \/ (Rmmod(d) /\ d # "fpga_char")
    BY <1>3
  <2>2. bound = "fpga_char"
    BY <1>2, <2>1 DEF Insmod, Rmmod, ProbeBegin, FpgaProbing, NoTask, Task
  <2>3. UNCHANGED <<task, held>>
    BY <2>1, <2>2 DEF Insmod, Rmmod, ProbeBegin, taskVars, ownVars, NoDriver
  <2> QED
    BY <2>3
<1>4. CASE Plug
  BY <1>4 DEF Plug, taskVars, ownVars
<1>5. CASE Succeeds
  BY <1>5, NextType DEF Succeeds, PciInv, TaskInv
<1>6. CASE Fails
  <2>1. Calling \in FallibleCalls
    BY <1>6 DEF Fails, DriversAssumption, FallibleCalls
  <2>2. FpgaProbing /\ task.next \in 1..14 /\ Calling = FpgaProbe[task.next].call
    BY <1>2, <2>1, FpgaProbeTable
      DEF Calling, FallibleCalls, FpgaProbing, NoTask, Task, Probe
  <2>3. task.next = 14
    BY <1>1, <2>2 DEF PciInv, OwnInv
  <2> QED
    BY <2>1, <2>2, <2>3, FpgaProbeTable DEF FallibleCalls
<1>7. CASE EndProbe
  BY <1>7 DEF EndProbe, Claim, NoTask, Task
<1>8. CASE RollBackStep \/ EndRollBack \/ RemoveStep \/ EndRemove
  BY <1>2, <1>8 DEF RollBackStep, EndRollBack, RemoveStep, EndRemove, FpgaProbing, NoTask, Task
<1>9. CASE RemoveCrash
  BY <1>9 DEF RemoveCrash, taskVars, ownVars
<1> QED
  BY <1>3, <1>4, <1>5, <1>6, <1>7, <1>8, <1>9 DEF ProbeOrRemove

LEMMA LifecycleStep ==
  ASSUME DriversAssumption, LifeInv, Lifecycle PROVE PciInv' /\ FileInv'
<1>1. PciNext /\ UNCHANGED <<opened, pins, io>>
  BY DEF Lifecycle, PciNext
<1>2. PciInv'
  BY <1>1, PciStep DEF LifeInv
<1>3. ASSUME opened # {}, card' # "gone" PROVE Device \subseteq held' /\ task'.name # "remove"
  <2>1. pins # 0
    <3>1. Cardinality(opened) \in Nat /\ Cardinality(opened) # 0
      BY <1>3, FS_CardinalityType, FS_EmptySet DEF LifeInv, FileInv
    <3> QED
      BY <3>1 DEF LifeInv, FileInv
  <2>2. \/ \E d \in Drivers : Insmod(d) \/ ProbeBegin(d) \/ (Rmmod(d) /\ d # "fpga_char")
        \/ Plug \/ ProbeOrRemove
    BY <1>3, <2>1 DEF Lifecycle, Pull
  <2>3. card # "gone"
    BY <1>1, <1>3 DEF PciNext, Plug, Pull, Insmod, Rmmod, ProbeBegin, ProbeOrRemove,
      Succeeds, Fails, EndProbe, RollBackStep, EndRollBack, RemoveStep, RemoveCrash,
      EndRemove, Release
  <2> QED
    BY <1>1, <1>3, <2>2, <2>3, DeviceStays DEF LifeInv, FileInv
<1> QED
  BY <1>1, <1>2, <1>3 DEF LifeInv, FileInv

(* The steps on the device file leave the driver alone. *)
LEMMA FileStep ==
  ASSUME FileAssumption, LifeInv, NEW p \in Processes,
         \/ Open(p) \/ OpenCrash(p) \/ Close(p) \/ EndIO(p)
         \/ \E op \in {"read", "write"}, offset \in Offsets, length \in Lengths :
              BeginIO(p, op, offset, length)
  PROVE  PciInv' /\ FileInv'
<1>1. UNCHANGED <<card, matching, bound, task, held>>
  BY DEF Open, OpenCrash, Close, EndIO, BeginIO, pciVars, taskVars, ownVars
<1>2. PciInv'
  BY <1>1, PciStands DEF LifeInv
<1>3. Cardinality(opened) \in Nat /\ io \in [Callers -> IORecord] /\ p \in Callers
  BY FS_CardinalityType DEF LifeInv, FileInv, IOInv, Callers
<1>4. CASE Open(p)
  <2>1. "fpga_dev" \in held /\ "node" \in held /\ p \notin opened
    BY <1>4 DEF Open, CanOpen
  <2>2. card # "gone" => Device \subseteq held /\ task.name # "remove"
    <3> SUFFICES ASSUME card # "gone" PROVE Device \subseteq held /\ task.name # "remove"
      OBVIOUS
    <3>1. NodeOrDev
      BY <2>1 DEF NodeOrDev
    <3>2. task.name # "remove"
      BY <1>4, <3>1 DEF Open, CanOpen, LifeInv, PciInv, TaskInv, NoTask, Task
    <3>3. FpgaProbing \/ (task = NoTask /\ bound = "fpga_char")
      BY <3>1, <3>2 DEF LifeInv, PciInv, TaskInv, OwnInv
    <3>4. FpgaProbing => task.next > 13 /\ task.next \in Nat
      BY <2>1 DEF LifeInv, PciInv, TaskInv, TaskRecord, OwnInv
    <3> QED
      BY <2>1, <3>1, <3>2, <3>3, <3>4 DEF LifeInv, PciInv, OwnInv, Device
  <2>3. /\ opened' = opened \cup {p} /\ pins' = pins + 2 /\ io' = io
    BY <1>4 DEF Open
  <2>4. IsFiniteSet(opened') /\ Cardinality(opened') = Cardinality(opened) + 1
    BY <2>1, <2>3, FS_AddElement DEF LifeInv, FileInv
  <2> QED
    BY <1>1, <1>2, <1>3, <2>2, <2>3, <2>4 DEF LifeInv, FileInv
<1>5. CASE OpenCrash(p)
  BY <1>1, <1>2, <1>3, <1>5 DEF OpenCrash, LifeInv, FileInv
<1>6. CASE Close(p)
  <2>1. opened' = opened \ {p} /\ pins' = pins - 2 /\ io' = io /\ p \in opened
    BY <1>6 DEF Close
  <2>2. io[p].op = "none"
    BY <1>6 DEF Close, NoIO
  <2>3. IsFiniteSet(opened') /\ Cardinality(opened') = Cardinality(opened) - 1
    BY <2>1, FS_RemoveElement DEF LifeInv, FileInv
  <2> QED
    BY <1>1, <1>2, <1>3, <2>1, <2>2, <2>3 DEF LifeInv, FileInv
<1>7. CASE EndIO(p) \/ \E op \in {"read", "write"}, offset \in Offsets, length \in Lengths :
                          BeginIO(p, op, offset, length)
  <2>1. UNCHANGED <<opened, pins>>
    BY <1>7 DEF EndIO, BeginIO
  <2>2. ASSUME NEW q \in Processes, io'[q].op # "none" PROVE q \in opened
    <3>1. CASE EndIO(p)
      BY <1>3, <2>2, <3>1 DEF EndIO, NoIO, LifeInv, FileInv, Callers
    <3>2. CASE \E op \in {"read", "write"}, offset \in Offsets, length \in Lengths :
                 BeginIO(p, op, offset, length)
      <4>1. p \in opened /\ (q # p => io'[q] = io[q])
        BY <1>3, <3>2 DEF BeginIO, CanCall, Callers
      <4> QED
        BY <2>2, <4>1 DEF LifeInv, FileInv
    <3> QED
      BY <1>7, <3>1, <3>2
  <2> QED
    BY <1>1, <1>2, <2>1, <2>2 DEF LifeInv, FileInv
<1> QED  BY <1>4, <1>5, <1>6, <1>7

(* Words move, and the handler runs, beside what is open. *)
LEMMA MoveStep ==
  ASSUME FileAssumption, LifeInv,
         \/ BeginStray \/ IsrEnter \/ IsrNext
         \/ \E c \in Callers : MoveWord(c) \/ MoveStray(c)
  PROVE  PciInv' /\ FileInv'
<1>1. UNCHANGED <<card, matching, bound, task, held, opened, pins>>
  BY DEF BeginStray, IsrEnter, IsrNext, MoveWord, MoveStray, Stray, pciVars, taskVars,
    ownVars, fileVars
<1>2. PciInv'
  BY <1>1, PciStands DEF LifeInv
<1>3. ASSUME NEW p \in Processes PROVE io'[p].op = io[p].op
  <2>1. io \in [Callers -> IORecord] /\ p \in Callers /\ p # Handler
    BY DEF LifeInv, IOInv, Callers, FileAssumption
  <2>2. CASE BeginStray \/ IsrEnter \/ IsrNext
    BY <2>1, <2>2 DEF BeginStray, IsrEnter, IsrNext, HandlerReads, Stray, fileVars
  <2>3. ASSUME NEW c \in Callers, MoveWord(c) \/ MoveStray(c) PROVE io'[p].op = io[p].op
    BY <2>1, <2>3 DEF MoveWord, MoveStray, Stray, fileVars, IORecord
  <2> QED
    BY <2>2, <2>3
<1> QED
  BY <1>1, <1>2, <1>3 DEF LifeInv, FileInv

LEMMA LifeInvariant == CharSpec => []LifeInv
<1>1. CharInit => LifeInv
  <2>1. ASSUME CharInit PROVE FileInv
    BY <2>1, FS_EmptySet DEF CharInit, FileInv, NoIO, Callers
  <2> QED
    BY <2>1, PciInvInit, NoIOInside DEF CharInit, LifeInv, IOInv
<1>2. LifeInv /\ [CharNext]_charVars => LifeInv'
  <2> SUFFICES ASSUME LifeInv, [CharNext]_charVars PROVE LifeInv'
    OBVIOUS
  <2>1. IOInv'
    BY IOStep, FileAssumption DEF LifeInv
  <2>2. CASE UNCHANGED charVars
    <3>1. PciInv'
      BY <2>2, PciStands DEF LifeInv, charVars, pciVars, taskVars, ownVars
    <3> QED
      BY <2>1, <2>2, <3>1
        DEF LifeInv, FileInv, charVars, fileVars, pciVars, taskVars, ownVars
  <2> QED
    BY <2>1, <2>2, FileStep, MoveStep, LifecycleStep, DriversAssumption, FileAssumption
      DEF CharNext, LifeInv
<1> QED
  BY <1>1, <1>2, PTL DEF CharSpec

-----------------------------------------------------------------------------
(* Who goes astray, and where. *)
LEMMA Strays ==
  ASSUME CharNext
  PROVE  \/ bad' \subseteq bad \cup {"probe", "remove"}
         \/ bad' = bad \cup {"open"} /\ \E p \in Processes : OpenCrash(p)
         \/ bad' = bad \cup {"file"} /\ BeginStray
         \/ bad' = bad \cup {"file"} /\ \E p \in Processes : MoveStray(p)
         \/ bad' = bad \cup {"handler"} /\ (~HandlerCanRead \/ MoveStray(Handler))
<1>1. ASSUME NEW p \in Processes,
             \/ Open(p) \/ Close(p) \/ EndIO(p)
             \/ \E op \in {"read", "write"}, offset \in Offsets, length \in Lengths :
                  BeginIO(p, op, offset, length)
      PROVE  bad' = bad
  BY <1>1 DEF Open, Close, EndIO, BeginIO, pciVars
<1>2. ASSUME NEW p \in Processes, OpenCrash(p) PROVE bad' = bad \cup {"open"}
  BY <1>2 DEF OpenCrash
<1>3. BeginStray => bad' = bad \cup {"file"}
  BY DEF BeginStray, Stray
<1>4. ASSUME NEW c \in Callers, MoveWord(c) PROVE bad' = bad
  BY <1>4 DEF MoveWord, pciVars
<1>5. ASSUME NEW c \in Callers, MoveStray(c)
      PROVE  IF c = Handler THEN bad' = bad \cup {"handler"}
                            ELSE c \in Processes /\ bad' = bad \cup {"file"}
  BY <1>5 DEF MoveStray, Stray, Callers
<1>6. IsrEnter \/ IsrNext => bad' = bad \/ (bad' = bad \cup {"handler"} /\ ~HandlerCanRead)
  BY DEF IsrEnter, IsrNext, Stray, pciVars
<1>7. Lifecycle => bad' \subseteq bad \cup {"probe", "remove"}
  BY DEF Lifecycle, Insmod, Rmmod, ProbeBegin, Plug, Pull, ProbeOrRemove, Succeeds, Fails,
    EndProbe, RollBackStep, EndRollBack, RemoveStep, RemoveCrash, EndRemove, Release
<1> QED
  BY <1>1, <1>2, <1>3, <1>4, <1>5, <1>6, <1>7 DEF CharNext

(* Nobody goes astray in reading or writing, nor in opening but for one    *)
(* place in fpga_probe, before the card itself is lost.                    *)
THEOREM CharFileUsersFindDevice == CharSpec => FileUsersFindDevice
<1>1. ASSUME LifeInv, [CharNext]_charVars
      PROVE  [/\ "file" \in bad' \ bad => card = "gone"
              /\ "open" \in bad' \ bad => Calling = "fpga_dev"]_charVars
  <2> SUFFICES ASSUME CharNext
               PROVE  /\ "file" \in bad' \ bad => card = "gone"
                      /\ "open" \in bad' \ bad => Calling = "fpga_dev"
    BY <1>1
  <2>1. ASSUME NEW p \in Processes, OpenCrash(p) PROVE Calling = "fpga_dev"
    <3>1. "node" \in held /\ "fpga_dev" \notin held /\ NodeOrDev
      BY <2>1 DEF OpenCrash, CanOpen, NodeOrDev
    <3>2. FpgaProbing
      BY <1>1, <3>1 DEF LifeInv, PciInv, TaskInv, OwnInv, Device
    <3>3. task.next = 13
      BY <1>1, <3>1, <3>2 DEF LifeInv, PciInv, TaskInv, OwnInv, TaskRecord
    <3> QED
      BY <3>2, <3>3, FpgaProbeTable DEF Calling, FpgaProbing, Probe
  <2>2. BeginStray => card = "gone"
    BY <1>1 DEF BeginStray, CanCall, LifeInv, FileInv, Device
  <2>3. ASSUME NEW p \in Processes, MoveStray(p) PROVE card = "gone"
    BY <1>1, <2>3 DEF MoveStray, LifeInv, FileInv, Device
  <2> QED
    BY <2>1, <2>2, <2>3, Strays
<1> QED
  BY <1>1, LifeInvariant, PTL DEF CharSpec, FileUsersFindDevice

(* Nor does the handler, as long as the file that was opened last is open. *)
THEOREM CharHandlerFindsDevice == CharSpec => HandlerFindsDevice
<1>1. ASSUME LifeInv, [CharNext]_charVars
      PROVE  ["handler" \in bad' \ bad => filep \notin opened \/ card = "gone"]_charVars
  <2> SUFFICES ASSUME CharNext, filep \in opened, card # "gone"
               PROVE  "handler" \notin bad' \ bad
    BY <1>1
  <2>1. Device \subseteq held
    BY <1>1 DEF LifeInv, FileInv
  <2>2. HandlerCanRead /\ ~MoveStray(Handler)
    BY <2>1 DEF HandlerCanRead, MoveStray, Device
  <2> QED
    BY <2>2, Strays
<1> QED
  BY <1>1, LifeInvariant, PTL DEF CharSpec, HandlerFindsDevice
=============================================================================
