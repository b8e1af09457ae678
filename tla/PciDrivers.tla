----------------------------- MODULE PciDrivers -----------------------------
(***************************************************************************)
(* The two PCI drivers of the repository, fpga_char and pcie_echo, from    *)
(* insmod to rmmod.  Both name the same vendor and device, so the kernel's *)
(* driver core offers the one card to either of them.                      *)
(*                                                                         *)
(* What a probe acquires, in which order, and where it jumps when a call   *)
(* fails is data: a sequence of steps, and a chain of releases that is     *)
(* entered at some label and followed to its end.  The driver core runs    *)
(* one probe or remove of the card at a time, under the device's lock.     *)
(***************************************************************************)
EXTENDS Integers, Sequences, FiniteSets

CONSTANTS
  Drivers,     \* the modules the machine has, out of the two
  Faults,      \* the calls of a probe that may fail
  MaxFaults,   \* bound: how many different calls fail in one behaviour
  MaxEnables   \* bound: how often the device is enabled without a disable

(* The steps of a probe that can fail.  The others are assignments.        *)
FallibleCalls ==
  {"fpga", "enable", "enable_mem", "region", "vectors", "irq", "bar", "mapping",
   "chrdev", "class", "cdev", "node", "test"}

ASSUME DriversAssumption ==
  /\ Drivers \subseteq {"fpga_char", "pcie_echo"}
  /\ Faults \subseteq FallibleCalls
  /\ MaxFaults \in Nat /\ MaxEnables \in Nat

NoDriver == "none"

(* What a driver may own of the card and of the kernel.  "fpga" is its     *)
(* private struct; the last two are pointers to it, the static fpga_dev    *)
(* and the device's drvdata.                                               *)
Resource ==
  {"fpga", "region", "vectors", "irq", "mapping", "chrdev", "class", "cdev",
   "node", "fpga_dev", "drvdata"}

Pointers == {"fpga_dev", "drvdata"}

-----------------------------------------------------------------------------
(* The probes and removes as tables. *)

(* A failing call jumps into the chain of releases, at the one named label *)
(* or to "return".  After a Quiet one, error is still 0.  "ignored" is a   *)
(* result nobody looks at, and "crash" one that is used as a pointer.      *)
Step(call, label) == [call |-> call, label |-> label, sets_error |-> TRUE]

Quiet(call, label) == [call |-> call, label |-> label, sets_error |-> FALSE]

(* fpga_probe down to request_irq, and the reading of the card's BAR.      *)
AcquireCard ==
  <<Step("fpga", "return"), Step("enable", "return"), Step("enable_mem", "return"),
    Step("region", "enable"), Step("vectors", "enable"), Step("irq", "irq")>>

(* Two plausible mistakes: a missing BAR that leaves error alone, or jumps *)
(* to the label above.                                                     *)
MapRegistersQuiet == <<Quiet("bar", "region"), Quiet("mapping", "region")>>

MapRegistersWrongLabel == <<Step("bar", "mapping"), Quiet("mapping", "region")>>

MapRegisters == <<Step("bar", "region"), Quiet("mapping", "region")>>

CreateCharDevs ==
  <<Step("chrdev", "chrdev"), Step("class", "crash"), Step("cdev", "cdev"),
    Quiet("node", "ignored"), Step("fpga_dev", "return")>>

(* A plausible mistake: the device file is there before the registers are. *)
FpgaProbeMapsLast ==
  AcquireCard \o CreateCharDevs \o MapRegisters \o <<Step("drvdata", "return")>>

FpgaProbe ==
  AcquireCard \o MapRegisters \o CreateCharDevs \o <<Step("drvdata", "return")>>

(* The labels of create_char_devs and fpga_probe fall through to this. *)
FpgaRollBack ==
  <<"cdev", "class", "chrdev", "mapping", "region", "irq", "vectors", "enable">>

(* A plausible mistake: the region stays claimed.                          *)
FpgaRemoveKeepsRegion ==
  <<"node", "cdev", "class", "chrdev", "mapping", "fpga", "irq", "vectors", "enable">>

(* destroy_char_devs first. *)
FpgaRemove ==
  <<"node", "cdev", "class", "chrdev", "mapping", "fpga", "irq", "vectors",
    "region", "enable">>

(* run_test answers 1 if the card is no echo card, which the driver core   *)
(* takes for a success.  Nobody looks whether ioremap worked.              *)
EchoProbe ==
  <<Step("enable", "return"), Step("enable_mem", "return"), Step("region", "enable"),
    Step("fpga", "region"), Quiet("mapping", "ignored"), Step("drvdata", "return"),
    Quiet("test", "ignored")>>

ReleaseDevice == <<"region", "enable">>

EchoRemove == <<"fpga">> \o ReleaseDevice

Probe == [fpga_char |-> FpgaProbe, pcie_echo |-> EchoProbe]

RollBack == [fpga_char |-> FpgaRollBack, pcie_echo |-> ReleaseDevice]

Remove == [fpga_char |-> FpgaRemove, pcie_echo |-> EchoRemove]

(* Where a label is in a chain; any other word leads past its end.         *)
Position(chain, label) ==
  IF \E i \in DOMAIN chain : chain[i] = label
  THEN CHOOSE i \in DOMAIN chain : chain[i] = label
  ELSE Len(chain) + 1

-----------------------------------------------------------------------------
VARIABLES
  loaded,      \* the modules in the kernel
  card,        \* "absent", then "present", then "gone"
  matching,    \* the loaded drivers that the card is still offered to
  bound,       \* the driver that has claimed it, or NoDriver
  task,        \* the probe, roll back or remove under way, and its next step
  error,       \* the probe's variable, "0" or "negative"
  failed,      \* the calls that failed in the last probe
  failures,    \* all <<driver, call>> that ever failed
  held,        \* what the last probe acquired and nobody has released
  left,        \* what probes and removes before it have left behind
  enable_cnt,  \* the kernel's count of enables of the device
  bad          \* who has followed a pointer to something that is not there

taskVars == <<task, error, failed, failures>>
ownVars == <<held, left, enable_cnt>>
pciVars == <<loaded, card, matching, bound, taskVars, ownVars, bad>>

Task(name, d, i) == [name |-> name, driver |-> d, next |-> i]

NoTask == Task("none", NoDriver, 1)

(* The release that a roll back or a remove does next. *)
Chain == CASE task.name = "rollback" -> RollBack[task.driver]
           [] task.name = "remove"   -> Remove[task.driver]
           [] OTHER                  -> <<>>

Releasing == IF task.next \in DOMAIN Chain THEN Chain[task.next] ELSE "nothing"

(* The call that a probe makes next. *)
Calling ==
  IF task.name = "probe" /\ task.next \in DOMAIN Probe[task.driver]
  THEN Probe[task.driver][task.next].call ELSE "nothing"

Claimed == bound # NoDriver /\ task = NoTask

PciTypeOK ==
  /\ loaded \subseteq Drivers /\ matching \subseteq loaded
  /\ card \in {"absent", "present", "gone"}
  /\ bound \in loaded \cup {NoDriver}
  /\ task.driver \in loaded \cup {NoDriver}
  /\ task.name \in {"none", "probe", "rollback", "remove"}
  /\ error \in {"0", "negative"}
  /\ held \subseteq Resource /\ left \subseteq Resource \ Pointers
  /\ enable_cnt \in 0..MaxEnables
  /\ bad \subseteq {"probe", "remove", "open", "file", "handler"}

PciInit ==
  /\ loaded = {} /\ matching = {} /\ bound = NoDriver
  /\ card \in {"absent", "present"}
  /\ task = NoTask /\ error = "0" /\ failed = {} /\ failures = {}
  /\ held = {} /\ left = {} /\ enable_cnt = 0
  /\ bad = {}

-----------------------------------------------------------------------------
(* What the user does to modules and to the card. *)

Insmod(d) ==
  /\ task = NoTask /\ d \notin loaded
  /\ loaded' = loaded \cup {d}
  /\ matching' = IF card = "present" /\ bound = NoDriver THEN matching \cup {d}
                                                         ELSE matching
  /\ UNCHANGED <<card, bound, taskVars, ownVars, bad>>

Rmmod(d) ==
  /\ task = NoTask /\ d \in loaded /\ d \notin matching
  /\ IF bound = d
     THEN task' = Task("remove", d, 1) /\ UNCHANGED loaded
     ELSE loaded' = loaded \ {d} /\ UNCHANGED task
  /\ UNCHANGED <<card, matching, bound, error, failed, failures, ownVars, bad>>

Plug ==
  /\ card = "absent"
  /\ card' = "present" /\ matching' = loaded
  /\ UNCHANGED <<loaded, bound, taskVars, ownVars, bad>>

(* The card is lost: its driver's remove runs, whoever uses the driver. *)
Pull ==
  /\ task = NoTask /\ card = "present"
  /\ card' = "gone" /\ matching' = {}
  /\ task' = IF bound = NoDriver THEN task ELSE Task("remove", bound, 1)
  /\ UNCHANGED <<loaded, bound, error, failed, failures, ownVars, bad>>

-----------------------------------------------------------------------------
(* Probing: each driver in turn until one claims the card. *)

ProbeBegin(d) ==
  /\ task = NoTask /\ bound = NoDriver /\ d \in matching
  /\ enable_cnt + 2 <= MaxEnables
  /\ task' = Task("probe", d, 1)
  /\ matching' = matching \ {d}
  /\ error' = "0" /\ failed' = {}
  /\ UNCHANGED <<loaded, card, bound, failures, ownVars, bad>>

Succeeds ==
  /\ Calling # "nothing" /\ "probe" \notin bad
  /\ task' = [task EXCEPT !.next = @ + 1]
  /\ held' = held \cup ({Calling} \cap Resource)
  /\ enable_cnt' = IF Calling \in {"enable", "enable_mem"} THEN enable_cnt + 1
                                                           ELSE enable_cnt
  /\ UNCHANGED <<loaded, card, matching, bound, error, failed, failures, left, bad>>

(* A region that was left claimed is refused, whoever asks.  (It is not if *)
(* "bar", a bit mask of BARs where a number is due, names an empty one.)   *)
Fails ==
  LET d == task.driver
      step == Probe[d][task.next] IN
  /\ \/ Calling \in Faults /\ Cardinality(failures) < MaxFaults
     \/ Calling = "region" /\ "region" \in left
  /\ "probe" \notin bad
  /\ failed' = failed \cup {Calling}
  /\ failures' = failures \cup {<<d, Calling>>}
  /\ CASE step.label = "ignored" ->
            task' = [task EXCEPT !.next = @ + 1] /\ UNCHANGED <<error, bad>>
       [] step.label = "crash" ->
            bad' = bad \cup {"probe"} /\ UNCHANGED <<task, error>>
       [] OTHER ->
            /\ task' = Task("rollback", d, Position(RollBack[d], step.label))
            /\ error' = IF step.sets_error THEN "negative" ELSE error
            /\ UNCHANGED bad
  /\ UNCHANGED <<loaded, card, matching, bound, ownVars>>

Claim ==
  /\ bound' = task.driver /\ matching' = {}
  /\ UNCHANGED <<held, left>>

(* Nobody knows of what is still held. *)
LeaveBehind ==
  /\ left' = left \cup (held \ Pointers) /\ held' = {}
  /\ bound' = NoDriver

EndProbe ==
  /\ task.name = "probe" /\ Calling = "nothing"
  /\ Claim
  /\ task' = NoTask
  /\ UNCHANGED <<loaded, card, error, failed, failures, enable_cnt, bad>>

Release ==
  /\ task' = [task EXCEPT !.next = @ + 1]
  /\ held' = held \ {Releasing}
  /\ enable_cnt' = IF Releasing = "enable" THEN enable_cnt - 1 ELSE enable_cnt
  /\ UNCHANGED <<loaded, card, matching, bound, error, failed, failures, left, bad>>

RollBackStep == task.name = "rollback" /\ Releasing # "nothing" /\ Release

(* A probe that returns 0 claims the card, whatever it holds. *)
EndRollBack ==
  /\ task.name = "rollback" /\ Releasing = "nothing"
  /\ task' = NoTask
  /\ IF error = "0" THEN Claim ELSE LeaveBehind /\ UNCHANGED matching
  /\ UNCHANGED <<loaded, card, error, failed, failures, enable_cnt, bad>>

-----------------------------------------------------------------------------
(* Removing.  fpga_remove does not look whether there is a private struct. *)

RemoveStep ==
  /\ task.name = "remove" /\ Releasing # "nothing"
  /\ task.driver = "fpga_char" => "drvdata" \in held
  /\ Release

RemoveCrash ==
  /\ Releasing = "node" /\ "drvdata" \notin held
  /\ bad' = bad \cup {"remove"}
  /\ UNCHANGED <<loaded, card, matching, bound, taskVars, ownVars>>

EndRemove ==
  /\ task.name = "remove" /\ Releasing = "nothing"
  /\ task' = NoTask
  /\ LeaveBehind
  /\ loaded' = IF card = "gone" THEN loaded ELSE loaded \ {task.driver}
  /\ UNCHANGED <<card, matching, error, failed, failures, enable_cnt, bad>>

ProbeOrRemove ==
  \/ Succeeds \/ Fails \/ EndProbe \/ RollBackStep \/ EndRollBack
  \/ RemoveStep \/ RemoveCrash \/ EndRemove

PciNext ==
  \/ \E d \in Drivers : Insmod(d) \/ Rmmod(d) \/ ProbeBegin(d)
  \/ Plug \/ Pull
  \/ ProbeOrRemove

PciSpec == PciInit /\ [][PciNext]_pciVars

-----------------------------------------------------------------------------
(* What a probe leaves when it is over. *)

(* What the driver's remove releases. *)
Needs(d) == {Remove[d][i] : i \in DOMAIN Remove[d]} \ {"enable"}

(* A probe that claims the card owns all that its remove will release and  *)
(* the device is enabled, except for calls whose failure was not looked    *)
(* at.  (An ioremap that fails in fpga_probe is the one exception.)        *)
ClaimOwnsAllButFailed ==
  Claimed /\ ~(bound = "fpga_char" /\ "mapping" \in failed) =>
    /\ Needs(bound) \ failed \subseteq held
    /\ enable_cnt > 0

(* Whatever goes wrong where: a roll back or a remove releases only what   *)
(* its probe acquired, or at worst what that probe has just failed to get. *)
OwnsWhatItReleases ==
  /\ Releasing \notin {"nothing", "enable"} /\ ~(Releasing = "node" /\ "drvdata" \notin held)
       => Releasing \in held \cup failed
  /\ Releasing = "enable" => enable_cnt > 0

(* What stays behind of a driver that is not bound any more.  Only a       *)
(* failed request for vectors or the interrupt keeps the region claimed,   *)
(* so no other sequence of loads, failures and unloads makes a later probe *)
(* of either driver fail with -EBUSY; fpga is lost only by failed probes.  *)
LeftBehind ==
  /\ left \subseteq {"fpga", "mapping", "region"}
  /\ "region" \in left =>
       <<"fpga_char", "vectors">> \in failures \/ <<"fpga_char", "irq">> \in failures
  /\ "fpga" \in left => \E f \in failures : f[1] = "fpga_char"
=============================================================================
