--------------------------- MODULE CharOwnProofs ---------------------------
(***************************************************************************)
(* What the two drivers own: nothing is released that was not acquired,    *)
(* a bound driver has what its remove releases, and what stays behind is   *)
(* accounted for.  For any failing calls, any number of loads of both      *)
(* drivers and any use of the device file.                                 *)
(***************************************************************************)
EXTENDS CharLifeProofs

TwoDrivers == {"fpga_char", "pcie_echo"}

(* The calls of a probe before its step i, and the end of a chain from i.  *)
Acquired(d, i) == {Probe[d][j].call : j \in {k \in DOMAIN Probe[d] : k < i}}

Rest(chain, i) == {chain[j] : j \in {k \in DOMAIN chain : k >= i}}

-----------------------------------------------------------------------------
(* The tables, entry by entry. *)

LEMMA FpgaCalls ==
  /\ DOMAIN FpgaProbe = 1..14
  /\ FpgaProbe[1].call = "fpga" /\ FpgaProbe[2].call = "enable"
  /\ FpgaProbe[3].call = "enable_mem" /\ FpgaProbe[4].call = "region"
  /\ FpgaProbe[5].call = "vectors" /\ FpgaProbe[6].call = "irq"
  /\ FpgaProbe[7].call = "bar" /\ FpgaProbe[8].call = "mapping"
  /\ FpgaProbe[9].call = "chrdev" /\ FpgaProbe[10].call = "class"
  /\ FpgaProbe[11].call = "cdev" /\ FpgaProbe[12].call = "node"
  /\ FpgaProbe[13].call = "fpga_dev" /\ FpgaProbe[14].call = "drvdata"
<1> USE DEF FpgaProbe, AcquireCard, MapRegisters, CreateCharDevs, Step, Quiet
<1>1. DOMAIN FpgaProbe = 1..14
  OBVIOUS
<1>2. /\ FpgaProbe[1].call = "fpga" /\ FpgaProbe[2].call = "enable"
      /\ FpgaProbe[3].call = "enable_mem"
  OBVIOUS
<1>3. /\ FpgaProbe[4].call = "region" /\ FpgaProbe[5].call = "vectors"
      /\ FpgaProbe[6].call = "irq"
  OBVIOUS
<1>4. /\ FpgaProbe[7].call = "bar" /\ FpgaProbe[8].call = "mapping"
      /\ FpgaProbe[9].call = "chrdev"
  OBVIOUS
<1>5. /\ FpgaProbe[10].call = "class" /\ FpgaProbe[11].call = "cdev"
      /\ FpgaProbe[12].call = "node"
  OBVIOUS
<1>6. FpgaProbe[13].call = "fpga_dev" /\ FpgaProbe[14].call = "drvdata"
  OBVIOUS
<1> QED
  BY <1>1, <1>2, <1>3, <1>4, <1>5, <1>6

LEMMA FpgaLabels ==
  /\ \A i \in 1..3 : FpgaProbe[i].label = "return"
  /\ FpgaProbe[4].label = "enable" /\ FpgaProbe[5].label = "enable"
  /\ FpgaProbe[6].label = "irq"
  /\ FpgaProbe[7].label = "region" /\ FpgaProbe[8].label = "region"
  /\ FpgaProbe[9].label = "chrdev" /\ FpgaProbe[10].label = "crash"
  /\ FpgaProbe[11].label = "cdev" /\ FpgaProbe[12].label = "ignored"
<1> USE DEF FpgaProbe, AcquireCard, MapRegisters, CreateCharDevs, Step, Quiet
<1>1. \A i \in 1..3 : FpgaProbe[i].label = "return"
  OBVIOUS
<1>2. /\ FpgaProbe[4].label = "enable" /\ FpgaProbe[5].label = "enable"
      /\ FpgaProbe[6].label = "irq"
  OBVIOUS
<1>3. FpgaProbe[7].label = "region" /\ FpgaProbe[8].label = "region"
  OBVIOUS
<1>4. FpgaProbe[9].label = "chrdev" /\ FpgaProbe[10].label = "crash"
  OBVIOUS
<1>5. FpgaProbe[11].label = "cdev" /\ FpgaProbe[12].label = "ignored"
  OBVIOUS
<1> QED
  BY <1>1, <1>2, <1>3, <1>4, <1>5

LEMMA FpgaErrors ==
  \A i \in 1..11 : i # 8 => FpgaProbe[i].sets_error
<1> USE DEF FpgaProbe, AcquireCard, MapRegisters, CreateCharDevs, Step, Quiet
<1>1. \A i \in 1..4 : FpgaProbe[i].sets_error
  OBVIOUS
<1>2. \A i \in 5..7 : FpgaProbe[i].sets_error
  OBVIOUS
<1>3. \A i \in 9..11 : FpgaProbe[i].sets_error
  OBVIOUS
<1> QED
  BY <1>1, <1>2, <1>3

LEMMA EchoCalls ==
  /\ DOMAIN EchoProbe = 1..7
  /\ EchoProbe[1].call = "enable" /\ EchoProbe[2].call = "enable_mem"
  /\ EchoProbe[3].call = "region" /\ EchoProbe[4].call = "fpga"
  /\ EchoProbe[5].call = "mapping" /\ EchoProbe[6].call = "drvdata"
  /\ EchoProbe[7].call = "test"
BY DEF EchoProbe, Step, Quiet

LEMMA EchoLabels ==
  /\ EchoProbe[1].label = "return" /\ EchoProbe[2].label = "return"
  /\ EchoProbe[3].label = "enable" /\ EchoProbe[4].label = "region"
  /\ EchoProbe[5].label = "ignored" /\ EchoProbe[7].label = "ignored"
  /\ \A i \in 1..4 : EchoProbe[i].sets_error
BY DEF EchoProbe, Step, Quiet

LEMMA FpgaChains ==
  /\ DOMAIN FpgaRollBack = 1..8 /\ Len(FpgaRollBack) = 8
  /\ FpgaRollBack[1] = "cdev" /\ FpgaRollBack[2] = "class" /\ FpgaRollBack[3] = "chrdev"
  /\ FpgaRollBack[4] = "mapping" /\ FpgaRollBack[5] = "region" /\ FpgaRollBack[6] = "irq"
  /\ FpgaRollBack[7] = "vectors" /\ FpgaRollBack[8] = "enable"
  /\ DOMAIN FpgaRemove = 1..10 /\ Len(FpgaRemove) = 10
  /\ FpgaRemove[1] = "node" /\ FpgaRemove[2] = "cdev" /\ FpgaRemove[3] = "class"
  /\ FpgaRemove[4] = "chrdev" /\ FpgaRemove[5] = "mapping" /\ FpgaRemove[6] = "fpga"
  /\ FpgaRemove[7] = "irq" /\ FpgaRemove[8] = "vectors" /\ FpgaRemove[9] = "region"
  /\ FpgaRemove[10] = "enable"
BY DEF FpgaRollBack, FpgaRemove

LEMMA EchoChains ==
  /\ DOMAIN ReleaseDevice = 1..2 /\ Len(ReleaseDevice) = 2
  /\ ReleaseDevice[1] = "region" /\ ReleaseDevice[2] = "enable"
  /\ DOMAIN EchoRemove = 1..3 /\ Len(EchoRemove) = 3
  /\ EchoRemove[1] = "fpga" /\ EchoRemove[2] = "region" /\ EchoRemove[3] = "enable"
BY DEF EchoRemove, ReleaseDevice

-----------------------------------------------------------------------------
(* One step of a probe, one release of a chain. *)

LEMMA AcquiredStep ==
  ASSUME NEW d \in TwoDrivers, NEW i \in DOMAIN Probe[d]
  PROVE  Acquired(d, i + 1) = Acquired(d, i) \cup {Probe[d][i].call}
<1>1. DOMAIN Probe[d] \subseteq Nat
  BY FpgaCalls, EchoCalls DEF TwoDrivers, Probe
<1>2. \A k \in DOMAIN Probe[d] : k < i + 1 <=> k < i \/ k = i
  BY <1>1
<1> QED
  BY <1>2 DEF Acquired

LEMMA RestStep ==
  ASSUME NEW chain, DOMAIN chain \subseteq Nat, NEW i \in DOMAIN chain
  PROVE  Rest(chain, i) = {chain[i]} \cup Rest(chain, i + 1)
<1>1. \A k \in DOMAIN chain : k >= i <=> k = i \/ k >= i + 1
  OBVIOUS
<1> QED
  BY <1>1 DEF Rest

(* No chain releases anything twice, nor a pointer. *)
LEMMA ChainsReleaseOnce ==
  ASSUME NEW d \in TwoDrivers, NEW chain \in {RollBack[d], Remove[d]},
         NEW i \in DOMAIN chain
  PROVE  /\ DOMAIN chain = 1..Len(chain) /\ Len(chain) \in Nat
         /\ chain[i] \notin Rest(chain, i + 1)
         /\ chain[i] \notin Pointers \cup {"nothing"}
         /\ chain[i] = "enable" <=> i = Len(chain)
<1>1. \/ chain = FpgaRollBack \/ chain = FpgaRemove
      \/ chain = ReleaseDevice \/ chain = EchoRemove
  BY DEF TwoDrivers, RollBack, Remove
<1>2. CASE chain = FpgaRollBack
  BY <1>2, FpgaChains DEF Rest, Pointers
<1>3. CASE chain = FpgaRemove
  BY <1>3, FpgaChains DEF Rest, Pointers
<1>4. CASE chain = ReleaseDevice
  BY <1>4, EchoChains DEF Rest, Pointers
<1>5. CASE chain = EchoRemove
  BY <1>5, EchoChains DEF Rest, Pointers
<1> QED
  BY <1>1, <1>2, <1>3, <1>4, <1>5

(* Where a failing call enters the chain. *)
LEMMA Labels ==
  /\ Position(FpgaRollBack, "cdev") = 1 /\ Position(FpgaRollBack, "chrdev") = 3
  /\ Position(FpgaRollBack, "region") = 5 /\ Position(FpgaRollBack, "irq") = 6
  /\ Position(FpgaRollBack, "enable") = 8 /\ Position(FpgaRollBack, "return") = 9
  /\ Position(ReleaseDevice, "region") = 1 /\ Position(ReleaseDevice, "enable") = 2
  /\ Position(ReleaseDevice, "return") = 3
<1>1. ASSUME NEW i \in 1..8 PROVE Position(FpgaRollBack, FpgaRollBack[i]) = i
  <2>1. \A j \in 1..8 : FpgaRollBack[j] = FpgaRollBack[i] => j = i
    BY FpgaChains
  <2> QED
    BY <2>1, FpgaChains DEF Position
<1>2. ASSUME NEW i \in 1..2 PROVE Position(ReleaseDevice, ReleaseDevice[i]) = i
  <2>1. \A j \in 1..2 : ReleaseDevice[j] = ReleaseDevice[i] => j = i
    BY EchoChains
  <2> QED
    BY <2>1, EchoChains DEF Position
<1>3. Position(FpgaRollBack, "return") = 9
  BY FpgaChains DEF Position
<1>4. Position(ReleaseDevice, "return") = 3
  BY EchoChains DEF Position
<1> QED
  BY <1>1, <1>2, <1>3, <1>4, FpgaChains, EchoChains

(* What fpga_probe and create_char_devs have acquired when a call fails,   *)
(* and what is released from the label on: no more than that and what has  *)
(* failed, and all of it but fpga and, after vectors or irq, the region.   *)
LEMMA FpgaFailure ==
  ASSUME NEW i \in 1..14, FpgaProbe[i].call \in FallibleCalls,
         FpgaProbe[i].label \notin {"ignored", "crash"}
  PROVE  LET p == Position(FpgaRollBack, FpgaProbe[i].label)
             released == Rest(FpgaRollBack, p) IN
         /\ p \in 1..9
         /\ released \ {"enable"} \subseteq
              Acquired("fpga_char", i) \cup {FpgaProbe[i].call}
         /\ Acquired("fpga_char", i) \cap Resource \subseteq
              released \cup {"fpga"}
              \cup (IF i \in {5, 6} THEN {"region"} ELSE {})
         /\ p <= 8 => i > 3
         /\ FpgaProbe[i].sets_error \/ FpgaProbe[i].call = "mapping"
<1>1. i \in 1..9 \/ i = 11
  BY FpgaCalls, FpgaLabels DEF FallibleCalls
<1>2. Probe["fpga_char"] = FpgaProbe /\ "fpga_char" \in TwoDrivers
  BY DEF Probe, TwoDrivers
<1> DEFINE A(n) == Acquired("fpga_char", n)
           R(n) == Rest(FpgaRollBack, n)
<1>3. A(1) = {}
  BY <1>2, FpgaCalls DEF Acquired
<1>4. \A n \in 1..14 : A(n + 1) = A(n) \cup {FpgaProbe[n].call}
  BY <1>2, FpgaCalls, AcquiredStep
<1>5. R(9) = {}
  BY FpgaChains DEF Rest
<1>6. \A n \in 1..8 : R(n) = {FpgaRollBack[n]} \cup R(n + 1)
  <2>1. DOMAIN FpgaRollBack \subseteq Nat
    BY FpgaChains
  <2> QED
    BY <2>1, FpgaChains, RestStep
<1> HIDE DEF A, R
<1>7. R(8) = {"enable"} /\ R(7) = {"vectors", "enable"} /\ R(6) = {"irq"} \cup R(7)
  BY <1>5, <1>6, FpgaChains
<1>8. R(5) = {"region"} \cup R(6) /\ R(4) = {"mapping"} \cup R(5) /\ R(3) = {"chrdev"} \cup R(4)
  BY <1>6, FpgaChains
<1>9. R(1) = {"cdev", "class"} \cup R(3)
  BY <1>6, FpgaChains
<1>10. /\ A(2) = {"fpga"} /\ A(3) = A(2) \cup {"enable"} /\ A(4) = A(3) \cup {"enable_mem"}
       /\ A(5) = A(4) \cup {"region"} /\ A(6) = A(5) \cup {"vectors"}
  BY <1>3, <1>4, FpgaCalls
<1>11. /\ A(7) = A(6) \cup {"irq"} /\ A(8) = A(7) \cup {"bar"}
       /\ A(9) = A(8) \cup {"mapping"} /\ A(11) = A(9) \cup {"chrdev", "class"}
  BY <1>4, FpgaCalls
<1> DEFINE p == Position(FpgaRollBack, FpgaProbe[i].label)
           Goal == /\ p \in 1..9
                   /\ R(p) \ {"enable"} \subseteq A(i) \cup {FpgaProbe[i].call}
                   /\ A(i) \cap Resource \subseteq
                        R(p) \cup {"fpga"} \cup (IF i \in {5, 6} THEN {"region"} ELSE {})
                   /\ p <= 8 => i > 3
<1>12. ASSUME i \in {1, 2, 3} PROVE Goal
  <2>1. p = 9
    BY <1>12, FpgaLabels, Labels
  <2>2. A(i) \cap Resource \subseteq {"fpga"}
    BY <1>3, <1>10, <1>12 DEF Resource
  <2> QED
    BY <1>5, <1>12, <2>1, <2>2
<1>13. ASSUME i \in {4, 5} PROVE Goal
  <2>1. p = 8
    BY <1>13, FpgaLabels, Labels
  <2>2. A(i) \cap Resource \subseteq {"fpga"} \cup (IF i = 5 THEN {"region"} ELSE {})
    BY <1>10, <1>13 DEF Resource
  <2> QED
    BY <1>7, <1>13, <2>1, <2>2
<1>14. ASSUME i = 6 PROVE Goal
  <2>1. p = 6
    BY <1>14, FpgaLabels, Labels
  <2> QED
    BY <1>7, <1>10, <1>14, <2>1, FpgaCalls DEF Resource
<1>15. ASSUME i \in {7, 8} PROVE Goal
  <2>1. p = 5
    BY <1>15, FpgaLabels, Labels
  <2>2. A(i) \cap Resource \subseteq {"fpga", "region", "vectors", "irq"}
    BY <1>10, <1>11, <1>15 DEF Resource
  <2>3. {"region", "vectors", "irq"} \subseteq A(i)
    BY <1>10, <1>11, <1>15
  <2> QED
    BY <1>7, <1>8, <1>15, <2>1, <2>2, <2>3
<1>16. ASSUME i = 9 PROVE Goal
  <2>1. p = 3
    BY <1>16, FpgaLabels, Labels
  <2> QED
    BY <1>7, <1>8, <1>10, <1>11, <1>16, <2>1, FpgaCalls DEF Resource
<1>17. ASSUME i = 11 PROVE Goal
  <2>1. p = 1
    BY <1>17, FpgaLabels, Labels
  <2> QED
    BY <1>7, <1>8, <1>9, <1>10, <1>11, <1>17, <2>1, FpgaCalls DEF Resource
<1>18. Goal
  BY <1>1, <1>12, <1>13, <1>14, <1>15, <1>16, <1>17
<1>19. FpgaProbe[i].sets_error \/ FpgaProbe[i].call = "mapping"
  BY <1>1, FpgaErrors, FpgaCalls
<1> QED
  BY <1>18, <1>19 DEF A, R

LEMMA EchoFailure ==
  ASSUME NEW i \in 1..7, EchoProbe[i].call \in FallibleCalls,
         EchoProbe[i].label \notin {"ignored", "crash"}
  PROVE  LET p == Position(ReleaseDevice, EchoProbe[i].label)
             released == Rest(ReleaseDevice, p) IN
         /\ p \in 1..3
         /\ released \ {"enable"} \subseteq Acquired("pcie_echo", i)
         /\ Acquired("pcie_echo", i) \cap Resource \subseteq released
         /\ p <= 2 => i > 2
         /\ EchoProbe[i].sets_error
<1>1. i \in 1..4
  BY EchoCalls, EchoLabels DEF FallibleCalls
<1>2. Probe["pcie_echo"] = EchoProbe /\ "pcie_echo" \in TwoDrivers
  BY DEF Probe, TwoDrivers
<1> DEFINE A(n) == Acquired("pcie_echo", n)
           R(n) == Rest(ReleaseDevice, n)
<1>3. A(1) = {}
  BY <1>2, EchoCalls DEF Acquired
<1>4. \A n \in 1..7 : A(n + 1) = A(n) \cup {EchoProbe[n].call}
  BY <1>2, EchoCalls, AcquiredStep
<1>5. R(3) = {} /\ R(2) = {"enable"} /\ R(1) = {"region", "enable"}
  BY EchoChains DEF Rest
<1> HIDE DEF A, R
<1>6. A(2) = {"enable"} /\ A(3) = A(2) \cup {"enable_mem"} /\ A(4) = A(3) \cup {"region"}
  BY <1>3, <1>4, EchoCalls
<1> DEFINE p == Position(ReleaseDevice, EchoProbe[i].label)
<1>7. p = IF i <= 2 THEN 3 ELSE IF i = 3 THEN 2 ELSE 1
  BY <1>1, EchoLabels, Labels
<1>8. A(i) \cap Resource = IF i = 4 THEN {"region"} ELSE {}
  BY <1>1, <1>3, <1>6 DEF Resource
<1>9. /\ p \in 1..3 /\ R(p) \ {"enable"} \subseteq A(i) /\ A(i) \cap Resource \subseteq R(p)
      /\ p <= 2 => i > 2
  BY <1>1, <1>5, <1>6, <1>7, <1>8
<1> QED
  BY <1>1, <1>9, EchoLabels DEF A, R

(* What a complete probe owns, and what its remove will release.           *)
LEMMA ClaimTable ==
  ASSUME NEW d \in TwoDrivers, NEW i \in Nat \ {0}, i \notin DOMAIN Probe[d]
  PROVE  /\ Rest(Remove[d], 1) \ {"enable"} \subseteq Acquired(d, i) \cap Resource
         /\ (Acquired(d, i) \cap Resource) \ Pointers \subseteq
              Rest(Remove[d], 1) \cup (IF d = "pcie_echo" THEN {"mapping"} ELSE {})
<1>1. CASE d = "fpga_char"
  <2>1. Probe[d] = FpgaProbe /\ Remove[d] = FpgaRemove /\ i > 14
    BY <1>1, FpgaCalls DEF Probe, Remove
  <2>2. Rest(FpgaRemove, 1) =
          {"node", "cdev", "class", "chrdev", "mapping", "fpga", "irq", "vectors",
           "region", "enable"}
    BY FpgaChains DEF Rest
  <2>3. Acquired(d, i) = {FpgaProbe[j].call : j \in 1..14}
    BY <2>1, FpgaCalls DEF Acquired
  <2>4. {FpgaProbe[j].call : j \in 1..14} =
          {"fpga", "enable", "enable_mem", "region", "vectors", "irq", "bar", "mapping",
           "chrdev", "class", "cdev", "node", "fpga_dev", "drvdata"}
    BY FpgaCalls
  <2> QED
    BY <1>1, <2>1, <2>2, <2>3, <2>4 DEF Resource, Pointers
<1>2. CASE d = "pcie_echo"
  <2>1. Probe[d] = EchoProbe /\ Remove[d] = EchoRemove /\ i > 7
    BY <1>2, EchoCalls DEF Probe, Remove
  <2>2. Rest(EchoRemove, 1) = {"fpga", "region", "enable"}
    BY EchoChains DEF Rest
  <2>3. Acquired(d, i) = {EchoProbe[j].call : j \in 1..7}
    BY <2>1, EchoCalls DEF Acquired
  <2>4. {EchoProbe[j].call : j \in 1..7} =
          {"enable", "enable_mem", "region", "fpga", "mapping", "drvdata", "test"}
    BY EchoCalls
  <2> QED
    BY <1>2, <2>1, <2>2, <2>3, <2>4 DEF Resource, Pointers
<1> QED
  BY <1>1, <1>2 DEF TwoDrivers

-----------------------------------------------------------------------------
(* Who owns what, at every step of a probe, roll back or remove. *)

RegionLost ==
  <<"fpga_char", "vectors">> \in failures \/ <<"fpga_char", "irq">> \in failures

(* What the roll back of a failed fpga_probe does not know of.             *)
Forgotten == {"fpga"} \cup (IF RegionLost THEN {"region"} ELSE {})

ProbeOwns ==
  task.name = "probe" =>
    /\ held \subseteq Acquired(task.driver, task.next)
    /\ Acquired(task.driver, task.next) \cap Resource \subseteq held \cup failed
    /\ error = "0"

RollBackOwns ==
  task.name = "rollback" =>
    LET released == Rest(RollBack[task.driver], task.next) IN
    /\ released \ {"enable"} \subseteq held \cup failed
    /\ held \subseteq released \cup (IF task.driver = "fpga_char" THEN Forgotten ELSE {})
    /\ task.driver = "fpga_char" => \E f \in failures : f[1] = "fpga_char"
    /\ error = "0" => task.driver = "fpga_char" /\ "mapping" \in failed

(* A driver that has claimed the card owns what its remove has still to    *)
(* release and nothing else, or it is the one that claims with nothing.    *)
BoundOwns ==
  bound # NoDriver =>
    IF bound = "fpga_char" /\ "drvdata" \notin held
    THEN "mapping" \in failed /\ task.next = 1
    ELSE LET released == Rest(Remove[bound], task.next) IN
         /\ released \ {"enable"} \subseteq held \cup failed
         /\ held \ Pointers \subseteq
              released \cup (IF bound = "pcie_echo" THEN {"mapping"} ELSE {})

OwnsInv ==
  /\ held \subseteq Resource /\ failed \subseteq FallibleCalls
  /\ ProbeOwns /\ RollBackOwns /\ BoundOwns
  /\ LeftBehind

LEMMA OwnsStands ==
  ASSUME OwnsInv, UNCHANGED <<bound, task, error, failed, failures, held, left>>
  PROVE  OwnsInv'
BY DEF OwnsInv, ProbeOwns, RollBackOwns, BoundOwns, LeftBehind, Forgotten, RegionLost

LEMMA OwnsInit == PciInit => OwnsInv
BY DEF PciInit, OwnsInv, ProbeOwns, RollBackOwns, BoundOwns, LeftBehind, NoTask, Task

LEMMA TaskFacts ==
  ASSUME PciInv
  PROVE  /\ task.name \in {"none", "probe", "rollback", "remove"}
         /\ task.next \in Nat \ {0}
         /\ task.name \in {"probe", "rollback"} => task.driver \in TwoDrivers /\ bound = NoDriver
         /\ bound # NoDriver => bound \in TwoDrivers /\ task.name \in {"none", "remove"}
         /\ task.name = "none" => task = NoTask /\ task.next = 1 /\ Releasing = "nothing"
         /\ task.name = "rollback" => Chain = RollBack[task.driver]
         /\ task.name = "remove" =>
              task.driver = bound /\ bound # NoDriver /\ Chain = Remove[bound]
<1>1. /\ task.name \in {"none", "probe", "rollback", "remove"}
      /\ task.next \in Nat \ {0}
      /\ task.name = "none" => task = NoTask
  BY DEF PciInv, TaskInv, TaskRecord
<1>2. task.name \in {"probe", "rollback"} => task.driver \in TwoDrivers /\ bound = NoDriver
  BY DEF PciInv, TaskInv, TaskRecord, TwoDrivers
<1>3. bound # NoDriver => bound \in TwoDrivers /\ task.name \in {"none", "remove"}
  BY <1>1 DEF PciInv, TaskInv, TwoDrivers
<1>4. task.name = "none" => task.next = 1 /\ Releasing = "nothing"
  BY <1>1 DEF NoTask, Task, Releasing, Chain
<1>5. task.name = "rollback" => Chain = RollBack[task.driver]
  BY DEF Chain
<1>6. task.name = "remove" =>
        task.driver = bound /\ bound # NoDriver /\ Chain = Remove[bound]
  BY DEF Chain, PciInv, TaskInv
<1> QED
  BY <1>1, <1>2, <1>3, <1>4, <1>5, <1>6

(* A probe goes on: with what a call has acquired, or, where nobody looks  *)
(* at the result, without it.                                              *)
LEMMA OwnsSucceeds == ASSUME PciInv, OwnsInv, Succeeds PROVE OwnsInv'
<1>1. /\ task.name = "probe" /\ task.next \in DOMAIN Probe[task.driver]
      /\ Calling = Probe[task.driver][task.next].call
      /\ held' = held \cup ({Calling} \cap Resource)
      /\ UNCHANGED <<bound, error, failed, failures, left>>
  BY DEF Succeeds, Calling
<1>2. /\ task'.name = "probe" /\ task'.driver = task.driver
      /\ task'.next = task.next + 1
  BY <1>1, NextType DEF Succeeds, PciInv, TaskInv
<1>3. task.driver \in TwoDrivers /\ bound = NoDriver
  BY <1>1, TaskFacts
<1>4. Acquired(task.driver, task.next + 1) = Acquired(task.driver, task.next) \cup {Calling}
  BY <1>1, <1>3, AcquiredStep
<1>5. ProbeOwns'
  BY <1>1, <1>2, <1>4 DEF OwnsInv, ProbeOwns
<1> QED
  BY <1>1, <1>2, <1>3, <1>5 DEF OwnsInv, RollBackOwns, BoundOwns, LeftBehind

LEMMA OwnsFails == ASSUME DriversAssumption, PciInv, OwnsInv, Fails PROVE OwnsInv'
<1> DEFINE d == task.driver
           i == task.next
           step == Probe[d][i]
<1>1. Calling \in FallibleCalls
  BY DEF Fails, DriversAssumption, FallibleCalls
<1>2. /\ task.name = "probe" /\ i \in DOMAIN Probe[d] /\ Calling = step.call
  BY <1>1 DEF Calling, FallibleCalls
<1>3. /\ d \in TwoDrivers /\ bound = NoDriver
  BY <1>2, TaskFacts
<1>4. /\ UNCHANGED <<bound, held, left>> /\ failed' = failed \cup {Calling}
      /\ failures' = failures \cup {<<d, Calling>>}
  BY DEF Fails, ownVars
<1>5. held \subseteq Acquired(d, i) /\ Acquired(d, i) \cap Resource \subseteq held \cup failed
      /\ error = "0" /\ held \subseteq Resource
  BY <1>2 DEF OwnsInv, ProbeOwns
<1>10. failed' \subseteq FallibleCalls
  BY <1>1, <1>4 DEF OwnsInv
<1>6. LeftBehind'
  BY <1>4 DEF OwnsInv, LeftBehind
<1>7. CASE step.label = "ignored"
  <2>1. task' = [task EXCEPT !.next = @ + 1] /\ error' = error
    BY <1>2, <1>7 DEF Fails
  <2>2. task'.name = "probe" /\ task'.driver = d /\ task'.next = i + 1
    BY <1>2, <2>1, NextType DEF PciInv, TaskInv
  <2>3. Acquired(d, i + 1) = Acquired(d, i) \cup {Calling}
    BY <1>2, <1>3, AcquiredStep
  <2>4. ProbeOwns'
    BY <1>4, <1>5, <2>1, <2>2, <2>3 DEF ProbeOwns
  <2> QED
    BY <1>3, <1>4, <1>5, <1>6, <1>10, <2>2, <2>4 DEF OwnsInv, RollBackOwns, BoundOwns
<1>8. CASE step.label = "crash"
  <2>1. task' = task /\ error' = error
    BY <1>8 DEF Fails
  <2> QED
    BY <1>2, <1>3, <1>4, <1>5, <1>6, <1>10, <2>1 DEF OwnsInv, ProbeOwns, RollBackOwns, BoundOwns
<1>9. CASE step.label \notin {"ignored", "crash"}
  <2> DEFINE p == Position(RollBack[d], step.label)
  <2>1. /\ task' = Task("rollback", d, p)
        /\ error' = IF step.sets_error THEN "negative" ELSE error
    BY <1>9 DEF Fails
  <2>2. /\ Rest(RollBack[d], p) \ {"enable"} \subseteq Acquired(d, i) \cup {Calling}
        /\ Acquired(d, i) \cap Resource \subseteq Rest(RollBack[d], p) \cup
             (IF d = "fpga_char" THEN Forgotten' ELSE {})
        /\ error' = "0" => d = "fpga_char" /\ Calling = "mapping"
    <3>1. CASE d = "fpga_char"
      <4>1. Probe[d] = FpgaProbe /\ RollBack[d] = FpgaRollBack /\ i \in 1..14
        BY <1>2, <3>1, FpgaCalls DEF Probe, RollBack
      <4>2. i \in {5, 6} => RegionLost'
        BY <1>2, <1>4, <3>1, <4>1, FpgaCalls DEF RegionLost
      <4>3. /\ Rest(FpgaRollBack, p) \ {"enable"} \subseteq Acquired(d, i) \cup {Calling}
            /\ Acquired(d, i) \cap Resource \subseteq Rest(FpgaRollBack, p)
                 \cup {"fpga"} \cup (IF i \in {5, 6} THEN {"region"} ELSE {})
            /\ step.sets_error \/ Calling = "mapping"
        BY <1>1, <1>2, <1>9, <3>1, <4>1, FpgaFailure
      <4> HIDE DEF p, step
      <4> QED
        BY <2>1, <3>1, <4>1, <4>2, <4>3 DEF Forgotten
    <3>2. CASE d = "pcie_echo"
      <4>1. Probe[d] = EchoProbe /\ RollBack[d] = ReleaseDevice /\ i \in 1..7
        BY <1>2, <3>2, EchoCalls DEF Probe, RollBack
      <4>2. /\ Rest(ReleaseDevice, p) \ {"enable"} \subseteq Acquired(d, i)
            /\ Acquired(d, i) \cap Resource \subseteq Rest(ReleaseDevice, p)
            /\ step.sets_error
        BY <1>1, <1>2, <1>9, <3>2, <4>1, EchoFailure
      <4> HIDE DEF p, step
      <4> QED
        BY <2>1, <3>2, <4>1, <4>2
    <3> QED
      BY <1>3, <3>1, <3>2 DEF TwoDrivers
  <2>3. Rest(RollBack[d], p) \ {"enable"} \subseteq held' \cup failed'
    <3>1. Rest(RollBack[d], p) \ {"enable"} \subseteq Resource
      BY <1>3, FpgaChains, EchoChains DEF Rest, RollBack, TwoDrivers, Resource
    <3> QED
      BY <1>4, <1>5, <2>2, <3>1
  <2>4. \E f \in failures' : f[1] = d
    <3>1. <<d, Calling>>[1] = d /\ <<d, Calling>> \in failures'
      BY <1>4
    <3> QED
      BY <3>1
  <2> HIDE DEF p
  <2>5. RollBackOwns'
    BY <1>4, <1>5, <2>1, <2>2, <2>3, <2>4 DEF RollBackOwns, Task
  <2> QED
    BY <1>3, <1>4, <1>5, <1>6, <1>10, <2>1, <2>5 DEF OwnsInv, ProbeOwns, BoundOwns, Task
<1> QED
  BY <1>7, <1>8, <1>9

LEMMA OwnsEndProbe == ASSUME PciInv, OwnsInv, EndProbe PROVE OwnsInv'
<1>1. /\ task.name = "probe" /\ task.next \notin DOMAIN Probe[task.driver]
      /\ task.driver \in TwoDrivers /\ task.next \in Nat \ {0}
      /\ task' = NoTask /\ bound' = task.driver
      /\ UNCHANGED <<held, left, failed, failures>>
  <2>1. task.name = "probe" /\ task.driver \in TwoDrivers /\ task.next \in Nat \ {0}
    BY TaskFacts DEF EndProbe
  <2>2. ASSUME task.next \in DOMAIN Probe[task.driver] PROVE FALSE
    <3>1. Probe[task.driver][task.next].call # "nothing"
      BY <2>1, <2>2, FpgaCalls, EchoCalls DEF Probe, TwoDrivers
    <3> QED
      BY <2>1, <2>2, <3>1 DEF EndProbe, Calling
  <2> QED
    BY <2>1, <2>2 DEF EndProbe, Claim
<1>2. /\ Rest(Remove[task.driver], 1) \ {"enable"} \subseteq held \cup failed
      /\ held \ Pointers \subseteq Rest(Remove[task.driver], 1)
           \cup (IF task.driver = "pcie_echo" THEN {"mapping"} ELSE {})
  BY <1>1, ClaimTable DEF OwnsInv, ProbeOwns
<1>3. task.driver = "fpga_char" => "drvdata" \in held
  <2> SUFFICES ASSUME task.driver = "fpga_char" PROVE "drvdata" \in held
    OBVIOUS
  <2>1. task.next > 13
    BY <1>1, FpgaCalls DEF Probe
  <2>2. "drvdata" \in Acquired("fpga_char", task.next) \cap Resource
    BY <1>1, <2>1, FpgaCalls DEF Acquired, Probe, Resource
  <2>3. "drvdata" \notin failed
    BY DEF OwnsInv, FallibleCalls
  <2> QED
    BY <1>1, <2>2, <2>3 DEF OwnsInv, ProbeOwns
<1> QED
  BY <1>1, <1>2, <1>3
    DEF OwnsInv, ProbeOwns, RollBackOwns, BoundOwns, LeftBehind, NoTask, Task

(* What a roll back or a remove does next is the head of what is left.     *)
LEMMA ReleasingFacts ==
  ASSUME PciInv, task.name \in {"rollback", "remove"}
  PROVE  LET chain == IF task.name = "rollback" THEN RollBack[task.driver] ELSE Remove[bound] IN
         /\ Chain = chain
         /\ DOMAIN chain = 1..Len(chain) /\ Len(chain) \in Nat
         /\ Releasing = "nothing" <=> task.next \notin DOMAIN chain
         /\ Releasing = "nothing" => Rest(chain, task.next) = {}
         /\ Releasing # "nothing" =>
              /\ Rest(chain, task.next) = {Releasing} \cup Rest(chain, task.next + 1)
              /\ Releasing \notin Rest(chain, task.next + 1) \cup Pointers
              /\ Releasing = "enable" <=> task.next = Len(chain)
<1> DEFINE chain == IF task.name = "rollback" THEN RollBack[task.driver] ELSE Remove[bound]
<1>1. \E d \in TwoDrivers : chain \in {RollBack[d], Remove[d]}
  BY TaskFacts
<1>2. Chain = chain /\ task.next \in Nat \ {0}
  BY TaskFacts
<1> HIDE DEF chain
<1>3. DOMAIN chain = 1..Len(chain) /\ Len(chain) \in Nat
  <2>1. ASSUME NEW d \in TwoDrivers
        PROVE  1 \in DOMAIN RollBack[d] /\ 1 \in DOMAIN Remove[d]
    BY FpgaChains, EchoChains DEF RollBack, Remove, TwoDrivers
  <2> QED
    BY <1>1, <2>1, ChainsReleaseOnce
<1>4. task.next \in DOMAIN chain => Releasing = chain[task.next] /\ Releasing # "nothing"
  BY <1>1, <1>2, ChainsReleaseOnce DEF Releasing
<1>5. task.next \notin DOMAIN chain => Releasing = "nothing" /\ Rest(chain, task.next) = {}
  BY <1>2, <1>3 DEF Releasing, Rest
<1>6. task.next \in DOMAIN chain =>
        /\ Rest(chain, task.next) = {Releasing} \cup Rest(chain, task.next + 1)
        /\ Releasing \notin Rest(chain, task.next + 1) \cup Pointers
        /\ Releasing = "enable" <=> task.next = Len(chain)
  <2> SUFFICES ASSUME task.next \in DOMAIN chain
               PROVE  /\ Rest(chain, task.next) = {Releasing} \cup Rest(chain, task.next + 1)
                      /\ Releasing \notin Rest(chain, task.next + 1) \cup Pointers
                      /\ Releasing = "enable" <=> task.next = Len(chain)
    OBVIOUS
  <2>1. DOMAIN chain \subseteq Nat
    BY <1>3
  <2>2. Rest(chain, task.next) = {Releasing} \cup Rest(chain, task.next + 1)
    BY <1>4, <2>1, RestStep
  <2> QED
    BY <1>1, <1>4, <2>2, ChainsReleaseOnce
<1> QED
  BY <1>2, <1>3, <1>4, <1>5, <1>6 DEF chain

LEMMA OwnsReleases == ASSUME PciInv, OwnsInv, RollBackStep \/ RemoveStep PROVE OwnsInv'
<1>1. /\ task.name \in {"rollback", "remove"} /\ Releasing # "nothing"
      /\ task.name = "remove" /\ task.driver = "fpga_char" => "drvdata" \in held
      /\ UNCHANGED <<bound, error, failed, failures, left>> /\ held' = held \ {Releasing}
      /\ task'.name = task.name /\ task'.driver = task.driver
      /\ task'.next = task.next + 1
  BY NextType DEF RollBackStep, RemoveStep, Release, PciInv, TaskInv
<1>2. CASE task.name = "rollback"
  <2> DEFINE chain == RollBack[task.driver]
  <2>1. /\ Rest(chain, task.next) = {Releasing} \cup Rest(chain, task.next + 1)
        /\ Releasing \notin Rest(chain, task.next + 1)
    BY <1>1, <1>2, ReleasingFacts
  <2> HIDE DEF chain
  <2>2. /\ Rest(chain, task.next) \ {"enable"} \subseteq held \cup failed
        /\ held \subseteq Rest(chain, task.next)
                \cup (IF task.driver = "fpga_char" THEN Forgotten ELSE {})
        /\ task.driver = "fpga_char" => \E f \in failures : f[1] = "fpga_char"
        /\ error = "0" => task.driver = "fpga_char" /\ "mapping" \in failed
    BY <1>2 DEF OwnsInv, RollBackOwns, chain
  <2>3. Forgotten' = Forgotten
    BY <1>1 DEF Forgotten, RegionLost
  <2>4. RollBackOwns'
    BY <1>1, <1>2, <2>1, <2>2, <2>3 DEF RollBackOwns, chain
  <2>5. bound = NoDriver
    BY <1>2, TaskFacts
  <2> QED
    BY <1>1, <1>2, <2>4, <2>5 DEF OwnsInv, ProbeOwns, BoundOwns, LeftBehind
<1>3. CASE task.name = "remove"
  <2> DEFINE chain == Remove[bound]
  <2>1. /\ Rest(chain, task.next) = {Releasing} \cup Rest(chain, task.next + 1)
        /\ Releasing \notin Rest(chain, task.next + 1) \cup Pointers
    BY <1>1, <1>3, ReleasingFacts
  <2> HIDE DEF chain
  <2>2. bound # NoDriver /\ task.driver = bound
    BY <1>3, TaskFacts
  <2>3. ~(bound = "fpga_char" /\ "drvdata" \notin held)
    BY <1>1, <1>3, <2>2
  <2>4. /\ Rest(chain, task.next) \ {"enable"} \subseteq held \cup failed
        /\ held \ Pointers \subseteq Rest(chain, task.next)
                \cup (IF bound = "pcie_echo" THEN {"mapping"} ELSE {})
    BY <2>2, <2>3 DEF OwnsInv, BoundOwns, chain
  <2>5. ~(bound = "fpga_char" /\ "drvdata" \notin held')
    BY <1>1, <2>1, <2>3 DEF Pointers
  <2>6. BoundOwns'
    BY <1>1, <2>1, <2>4, <2>5 DEF BoundOwns, chain
  <2> QED
    BY <1>1, <1>3, <2>6 DEF OwnsInv, ProbeOwns, RollBackOwns, LeftBehind
<1> QED
  BY <1>1, <1>2, <1>3

(* Nothing is left to release: what is still owned stays behind, or, after *)
(* the one failure that returns 0, is the claim of fpga_char with nothing. *)
LEMMA OwnsEnds == ASSUME PciInv, OwnsInv, EndRollBack \/ EndRemove PROVE OwnsInv'
<1>1. /\ Releasing = "nothing" /\ task' = NoTask
      /\ UNCHANGED <<error, failed, failures>>
  BY DEF EndRollBack, EndRemove
<1>2. CASE EndRollBack
  <2>1. task.name = "rollback"
    BY <1>2 DEF EndRollBack
  <2>2. Rest(RollBack[task.driver], task.next) = {} /\ task.driver \in TwoDrivers
    BY <1>1, <2>1, ReleasingFacts, TaskFacts
  <2>3. /\ held \subseteq (IF task.driver = "fpga_char" THEN Forgotten ELSE {})
        /\ task.driver = "fpga_char" => \E f \in failures : f[1] = "fpga_char"
        /\ error = "0" => task.driver = "fpga_char" /\ "mapping" \in failed
    BY <2>1, <2>2 DEF OwnsInv, RollBackOwns
  <2>4. CASE error = "0"
    <3>1. bound' = "fpga_char" /\ UNCHANGED <<held, left>> /\ "drvdata" \notin held
      BY <1>2, <2>3, <2>4 DEF EndRollBack, Claim, Forgotten
    <3> QED
      BY <1>1, <2>3, <2>4, <3>1
        DEF OwnsInv, ProbeOwns, RollBackOwns, BoundOwns, LeftBehind, NoTask, Task
  <2>5. CASE error # "0"
    <3>1. left' = left \cup (held \ Pointers) /\ held' = {} /\ bound' = NoDriver
      BY <1>2, <2>5 DEF EndRollBack, LeaveBehind
    <3>2. LeftBehind'
      BY <1>1, <2>3, <3>1 DEF OwnsInv, LeftBehind, Forgotten, RegionLost
    <3> QED
      BY <1>1, <3>1, <3>2 DEF OwnsInv, ProbeOwns, RollBackOwns, BoundOwns, NoTask, Task
  <2> QED
    BY <2>4, <2>5
<1>3. CASE EndRemove
  <2>1. task.name = "remove"
    BY <1>3 DEF EndRemove
  <2>2. bound # NoDriver /\ bound \in TwoDrivers /\ task.next \notin DOMAIN Remove[bound]
    BY <1>1, <2>1, ReleasingFacts, TaskFacts
  <2>3. task.next # 1
    BY <2>2, FpgaChains, EchoChains DEF TwoDrivers, Remove
  <2>4. Rest(Remove[bound], task.next) = {}
    BY <1>1, <2>1, ReleasingFacts
  <2>5. held \ Pointers \subseteq {"mapping"}
    BY <2>2, <2>3, <2>4 DEF OwnsInv, BoundOwns
  <2>6. left' = left \cup (held \ Pointers) /\ held' = {} /\ bound' = NoDriver
    BY <1>3 DEF EndRemove, LeaveBehind
  <2>7. LeftBehind'
    BY <1>1, <2>5, <2>6 DEF OwnsInv, LeftBehind
  <2> QED
    BY <1>1, <2>6, <2>7 DEF OwnsInv, ProbeOwns, RollBackOwns, BoundOwns, NoTask, Task
<1> QED
  BY <1>2, <1>3

LEMMA OwnsUser ==
  ASSUME PciInv, OwnsInv,
         (\E d \in Drivers : Insmod(d) \/ Rmmod(d) \/ ProbeBegin(d)) \/ Plug \/ Pull
  PROVE  OwnsInv'
<1>1. CASE (\E d \in Drivers : Insmod(d)) \/ Plug
  BY <1>1, OwnsStands DEF Insmod, Plug, taskVars, ownVars
<1>2. CASE (\E d \in Drivers : Rmmod(d)) \/ Pull
  <2>1. /\ task = NoTask /\ UNCHANGED <<bound, held, left, error, failed, failures>>
        /\ task' = task \/ task' = Task("remove", bound, 1)
    BY <1>2 DEF Rmmod, Pull, ownVars
  <2> QED
    BY <2>1 DEF OwnsInv, ProbeOwns, RollBackOwns, BoundOwns, LeftBehind, Task, NoTask
<1>3. ASSUME NEW d \in Drivers, ProbeBegin(d) PROVE OwnsInv'
  <2>1. /\ bound = NoDriver /\ bound' = bound /\ held' = held /\ held = {}
        /\ task' = Task("probe", d, 1) /\ error' = "0" /\ failed' = {}
        /\ UNCHANGED <<left, failures>>
    BY <1>3 DEF ProbeBegin, ownVars, PciInv, OwnInv
  <2>2. Acquired(d, 1) = {}
    <3>1. d \in TwoDrivers
      BY DriversAssumption DEF DriversAssumption, TwoDrivers
    <3> QED
      BY <3>1, FpgaCalls, EchoCalls DEF Acquired, Probe, TwoDrivers
  <2> QED
    BY <2>1, <2>2 DEF OwnsInv, ProbeOwns, RollBackOwns, BoundOwns, LeftBehind, Task
<1> QED
  BY <1>1, <1>2, <1>3

LEMMA OwnsStep == ASSUME DriversAssumption, PciInv, OwnsInv, PciNext PROVE OwnsInv'
<1>1. CASE RemoveCrash
  BY <1>1, OwnsStands DEF RemoveCrash, taskVars, ownVars
<1> QED
  BY <1>1, OwnsUser, OwnsSucceeds, OwnsFails, OwnsEndProbe, OwnsReleases, OwnsEnds
    DEF PciNext, ProbeOrRemove

-----------------------------------------------------------------------------
(* The kernel's count of enables: two by each probe, one less by each roll *)
(* back or remove that gets to the end of its chain.                       *)

EnableAt(d) == IF d = "fpga_char" THEN 2 ELSE 1

Enables(d, i) ==
  IF i <= EnableAt(d) THEN 0 ELSE IF i = EnableAt(d) + 1 THEN 1 ELSE 2

EnableInv ==
  /\ enable_cnt \in 0..MaxEnables
  /\ task.name = "probe" =>
       /\ enable_cnt >= Enables(task.driver, task.next)
       /\ enable_cnt + 2 - Enables(task.driver, task.next) <= MaxEnables
  /\ task.name = "rollback" =>
       /\ task.next <= Len(RollBack[task.driver]) => enable_cnt >= 2
       /\ error = "0" => enable_cnt >= 1
  /\ bound # NoDriver /\ task.next <= Len(Remove[bound]) => enable_cnt >= 1

LEMMA EnableTable ==
  ASSUME NEW d \in TwoDrivers, NEW i \in Nat \ {0}
  PROVE  /\ i \in DOMAIN Probe[d] =>
              Enables(d, i + 1) = Enables(d, i)
                + (IF Probe[d][i].call \in {"enable", "enable_mem"} THEN 1 ELSE 0)
         /\ i \in DOMAIN Probe[d] /\ Probe[d][i].label \in {"ignored", "crash"} =>
              Probe[d][i].call \notin {"enable", "enable_mem"}
         /\ i \notin DOMAIN Probe[d] => Enables(d, i) = 2
         /\ Enables(d, 1) = 0 /\ Enables(d, i) \in 0..2
<1>1. CASE d = "fpga_char"
  <2>1. Probe[d] = FpgaProbe /\ EnableAt(d) = 2
    BY <1>1 DEF Probe, EnableAt
  <2>2. i \in 1..14 => (FpgaProbe[i].call \in {"enable", "enable_mem"} <=> i \in {2, 3})
    BY FpgaCalls
  <2>3. i \in {2, 3} => FpgaProbe[i].label = "return"
    BY FpgaLabels
  <2> QED
    BY <2>1, <2>2, <2>3, FpgaCalls DEF Enables
<1>2. CASE d = "pcie_echo"
  <2>1. Probe[d] = EchoProbe /\ EnableAt(d) = 1
    BY <1>2 DEF Probe, EnableAt
  <2>2. i \in 1..7 => (EchoProbe[i].call \in {"enable", "enable_mem"} <=> i \in {1, 2})
    BY EchoCalls
  <2>3. i \in {1, 2} => EchoProbe[i].label = "return"
    BY EchoLabels
  <2> QED
    BY <2>1, <2>2, <2>3, EchoCalls DEF Enables
<1> QED
  BY <1>1, <1>2 DEF TwoDrivers

LEMMA EnableStands ==
  ASSUME EnableInv, UNCHANGED <<bound, task, error, enable_cnt>>
  PROVE  EnableInv'
BY DEF EnableInv

LEMMA EnableProbeStep ==
  ASSUME DriversAssumption, PciInv, OwnsInv, EnableInv, Succeeds \/ Fails \/ EndProbe
  PROVE  EnableInv'
<1> DEFINE d == task.driver
           i == task.next
           step == Probe[d][i]
<1>1. Calling # "nothing" => task.name = "probe" /\ i \in DOMAIN Probe[d] /\ Calling = step.call
  BY DEF Calling
<1>2. (Succeeds \/ Fails => Calling # "nothing") /\ (EndProbe => task.name = "probe")
  BY DEF Succeeds, Fails, EndProbe, DriversAssumption, FallibleCalls
<1>3. d \in TwoDrivers /\ bound = NoDriver /\ i \in Nat \ {0} /\ task.name = "probe"
  BY <1>1, <1>2, TaskFacts
<1>4. /\ enable_cnt >= Enables(d, i) /\ enable_cnt + 2 - Enables(d, i) <= MaxEnables
      /\ enable_cnt \in Nat /\ MaxEnables \in Nat /\ Enables(d, i) \in 0..2
  BY <1>3, EnableTable DEF EnableInv, DriversAssumption
<1>5. CASE Succeeds
  <2>1. /\ task'.name = "probe" /\ task'.driver = d /\ task'.next = i + 1 /\ bound' = bound
        /\ enable_cnt' = enable_cnt + (IF step.call \in {"enable", "enable_mem"} THEN 1 ELSE 0)
    BY <1>1, <1>2, <1>3, <1>4, <1>5, NextType DEF Succeeds, PciInv, TaskInv
  <2>2. Enables(d, i + 1) = Enables(d, i)
                + (IF step.call \in {"enable", "enable_mem"} THEN 1 ELSE 0)
    BY <1>1, <1>2, <1>3, <1>5, EnableTable
  <2>3. Enables(d, i + 1) \in 0..2
    BY <1>3, EnableTable
  <2> HIDE DEF step
  <2> QED
    BY <1>3, <1>4, <2>1, <2>2, <2>3 DEF EnableInv
<1>6. CASE Fails
  <2>1. Calling \in FallibleCalls /\ i \in DOMAIN Probe[d] /\ Calling = step.call
    BY <1>1, <1>2, <1>6 DEF Fails, DriversAssumption, FallibleCalls
  <2>2. UNCHANGED <<bound, enable_cnt>>
    BY <1>6 DEF Fails, ownVars
  <2>3. CASE step.label = "ignored"
    <3>1. task'.name = "probe" /\ task'.driver = d /\ task'.next = i + 1
      BY <1>3, <1>6, <2>3, NextType DEF Fails, PciInv, TaskInv
    <3>2. Enables(d, i + 1) = Enables(d, i)
      BY <1>3, <2>1, <2>3, EnableTable
    <3> QED
      BY <1>3, <1>4, <2>2, <3>1, <3>2 DEF EnableInv
  <2>4. CASE step.label = "crash"
    BY <1>6, <2>2, <2>4, EnableStands DEF Fails
  <2>5. CASE step.label \notin {"ignored", "crash"}
    <3> DEFINE p == Position(RollBack[d], step.label)
    <3>1. /\ task' = Task("rollback", d, p)
          /\ error' = IF step.sets_error THEN "negative" ELSE error
      BY <1>6, <2>5 DEF Fails
    <3>2. (p <= Len(RollBack[d]) => Enables(d, i) = 2) /\ (error' = "0" => Enables(d, i) = 2)
      <4>1. CASE d = "fpga_char"
        <5>1. Probe[d] = FpgaProbe /\ RollBack[d] = FpgaRollBack /\ i \in 1..14
          BY <2>1, <4>1, FpgaCalls DEF Probe, RollBack
        <5>2. (p <= 8 => i > 3) /\ (step.sets_error \/ Calling = "mapping")
          BY <2>1, <2>5, <4>1, <5>1, FpgaFailure
        <5>3. Calling = "mapping" => i = 8
          BY <2>1, <5>1, FpgaCalls
        <5> HIDE DEF p, step
        <5> QED
          BY <1>3, <3>1, <4>1, <5>1, <5>2, <5>3, FpgaChains DEF Enables, EnableAt
      <4>2. CASE d = "pcie_echo"
        <5>1. Probe[d] = EchoProbe /\ RollBack[d] = ReleaseDevice /\ i \in 1..7
          BY <2>1, <4>2, EchoCalls DEF Probe, RollBack
        <5>2. (p <= 2 => i > 2) /\ step.sets_error
          BY <2>1, <2>5, <4>2, <5>1, EchoFailure
        <5> HIDE DEF p, step
        <5> QED
          BY <1>3, <3>1, <4>2, <5>1, <5>2, EchoChains DEF Enables, EnableAt
      <4> QED
        BY <1>3, <4>1, <4>2 DEF TwoDrivers
    <3> HIDE DEF p
    <3> QED
      BY <1>3, <1>4, <2>2, <3>1, <3>2 DEF EnableInv, Task
  <2> QED
    BY <2>3, <2>4, <2>5
<1>7. CASE EndProbe
  <2>1. i \notin DOMAIN Probe[d]
    BY <1>3, <1>7, FpgaCalls, EchoCalls DEF EndProbe, Calling, Probe, TwoDrivers
  <2>2. Enables(d, i) = 2
    BY <1>3, <2>1, EnableTable
  <2>3. task' = NoTask /\ UNCHANGED enable_cnt
    BY <1>7 DEF EndProbe
  <2> QED
    BY <1>4, <2>2, <2>3 DEF EnableInv, NoTask, Task
<1> QED
  BY <1>5, <1>6, <1>7

LEMMA EnableReleaseStep ==
  ASSUME PciInv, EnableInv, DriversAssumption,
         RollBackStep \/ RemoveStep \/ EndRollBack \/ EndRemove
  PROVE  EnableInv'
<1>1. enable_cnt \in Nat /\ MaxEnables \in Nat
  BY DEF EnableInv, DriversAssumption
<1>2. CASE RollBackStep \/ RemoveStep
  <2> DEFINE chain == IF task.name = "rollback" THEN RollBack[task.driver] ELSE Remove[bound]
  <2>1. /\ task.name \in {"rollback", "remove"} /\ Releasing # "nothing"
        /\ UNCHANGED <<bound, error>>
        /\ enable_cnt' = IF Releasing = "enable" THEN enable_cnt - 1 ELSE enable_cnt
        /\ task'.name = task.name /\ task'.driver = task.driver
        /\ task'.next = task.next + 1
    BY <1>2, NextType DEF RollBackStep, RemoveStep, Release, PciInv, TaskInv
  <2>2. /\ task.next \in 1..Len(chain) /\ Len(chain) \in Nat
        /\ Releasing = "enable" <=> task.next = Len(chain)
    BY <2>1, ReleasingFacts
  <2>3. /\ task.name = "rollback" => bound = NoDriver
        /\ task.name = "remove" => bound # NoDriver
    BY TaskFacts
  <2>4. task.name = "rollback" => enable_cnt >= 2
    BY <2>2 DEF EnableInv
  <2>5. task.name = "remove" => enable_cnt >= 1
    BY <2>2, <2>3 DEF EnableInv
  <2>6. enable_cnt' \in 0..MaxEnables
    BY <1>1, <2>1, <2>4, <2>5 DEF EnableInv
  <2>7. CASE task.name = "rollback"
    <3> DEFINE len == Len(RollBack[task.driver])
    <3>1. task.next \in 1..len /\ len \in Nat /\ (Releasing = "enable" <=> task.next = len)
      BY <2>2, <2>7
    <3> HIDE DEF len
    <3>2. enable_cnt' >= 1 /\ (task.next + 1 <= len => enable_cnt' >= 2)
      BY <1>1, <2>1, <2>4, <2>7, <3>1
    <3> QED
      BY <2>1, <2>3, <2>6, <2>7, <3>2 DEF EnableInv, len
  <2>8. CASE task.name = "remove"
    <3> DEFINE len == Len(Remove[bound])
    <3>1. task.next \in 1..len /\ len \in Nat /\ (Releasing = "enable" <=> task.next = len)
      BY <2>2, <2>8
    <3> HIDE DEF len
    <3>2. task.next + 1 <= len => enable_cnt' >= 1
      BY <1>1, <2>1, <2>5, <2>8, <3>1
    <3> QED
      BY <2>1, <2>6, <2>8, <3>2 DEF EnableInv, len
  <2> QED
    BY <2>1, <2>7, <2>8
<1>3. CASE EndRollBack \/ EndRemove
  <2>1. /\ task' = NoTask /\ enable_cnt' = enable_cnt
        /\ bound' = NoDriver \/ (task.name = "rollback" /\ error = "0")
    BY <1>3 DEF EndRollBack, EndRemove, LeaveBehind, Claim
  <2> QED
    BY <1>1, <2>1 DEF EnableInv, NoTask, Task
<1> QED
  BY <1>2, <1>3

LEMMA EnableUser ==
  ASSUME DriversAssumption, PciInv, EnableInv,
         (\E d \in Drivers : Insmod(d) \/ Rmmod(d) \/ ProbeBegin(d)) \/ Plug \/ Pull
  PROVE  EnableInv'
<1>1. CASE (\E d \in Drivers : Insmod(d)) \/ Plug
  BY <1>1, EnableStands DEF Insmod, Plug, taskVars, ownVars
<1>2. CASE (\E d \in Drivers : Rmmod(d)) \/ Pull
  <2>1. /\ task = NoTask /\ UNCHANGED <<bound, error, enable_cnt>>
        /\ task' = task \/ task' = Task("remove", bound, 1)
    BY <1>2 DEF Rmmod, Pull, ownVars
  <2> QED
    BY <2>1 DEF EnableInv, NoTask, Task
<1>3. ASSUME NEW d \in Drivers, ProbeBegin(d) PROVE EnableInv'
  <2>1. /\ bound = NoDriver /\ bound' = bound /\ enable_cnt' = enable_cnt
        /\ task' = Task("probe", d, 1) /\ enable_cnt + 2 <= MaxEnables
    BY <1>3 DEF ProbeBegin, ownVars
  <2>2. Enables(d, 1) = 0
    BY DEF Enables, EnableAt
  <2> QED
    BY <2>1, <2>2 DEF EnableInv, Task, DriversAssumption
<1> QED
  BY <1>1, <1>2, <1>3

LEMMA EnableStep ==
  ASSUME DriversAssumption, PciInv, OwnsInv, EnableInv, PciNext PROVE EnableInv'
<1>1. CASE RemoveCrash
  BY <1>1, EnableStands DEF RemoveCrash, taskVars, ownVars
<1> QED
  BY <1>1, EnableUser, EnableProbeStep, EnableReleaseStep DEF PciNext, ProbeOrRemove

-----------------------------------------------------------------------------
(* Types.  No driver is unloaded while the card is offered to it, or while *)
(* it is probed, bound or removed.                                         *)

LoadInv ==
  /\ loaded \subseteq Drivers /\ matching \subseteq loaded
  /\ bound \in loaded \cup {NoDriver}
  /\ task.driver \in loaded \cup {NoDriver}
  /\ bound # NoDriver => matching = {}
  /\ error \in {"0", "negative"}

LEMMA LoadStep == ASSUME PciInv, LoadInv, PciNext PROVE LoadInv'
<1> USE DEF LoadInv
<1>1. NoTask.driver = NoDriver
  BY DEF NoTask, Task
<1>2. ASSUME NEW d \in Drivers, Insmod(d) PROVE LoadInv'
  BY <1>2 DEF Insmod, taskVars
<1>3. ASSUME NEW d \in Drivers, Rmmod(d) PROVE LoadInv'
  BY <1>1, <1>3 DEF Rmmod, Task
<1>4. ASSUME NEW d \in Drivers, ProbeBegin(d) PROVE LoadInv'
  BY <1>4 DEF ProbeBegin, Task
<1>5. CASE Plug
  BY <1>5 DEF Plug, taskVars, PciInv, TaskInv
<1>6. CASE Pull
  BY <1>6 DEF Pull, Task
<1>7. CASE Succeeds \/ RollBackStep \/ RemoveStep
  <2>1. task'.driver = task.driver /\ UNCHANGED <<loaded, matching, bound, error>>
    BY <1>7, NextType DEF Succeeds, RollBackStep, RemoveStep, Release, PciInv, TaskInv
  <2> QED
    BY <2>1
<1>8. CASE Fails
  <2>1. UNCHANGED <<loaded, matching, bound>> /\ error' \in {error, "negative"}
    BY <1>8 DEF Fails
  <2> DEFINE label == Probe[task.driver][task.next].label
  <2>2. CASE label = "ignored"
    <3>1. task' = [task EXCEPT !.next = @ + 1]
      BY <1>8, <2>2 DEF Fails
    <3> QED
      BY <2>1, <3>1, NextType DEF PciInv, TaskInv
  <2>3. CASE label = "crash"
    <3>1. task' = task
      BY <1>8, <2>3 DEF Fails
    <3> QED
      BY <2>1, <3>1
  <2>4. CASE label \notin {"ignored", "crash"}
    <3>1. \E i : task' = Task("rollback", task.driver, i)
      BY <1>8, <2>4 DEF Fails
    <3> QED
      BY <2>1, <3>1 DEF Task
  <2> QED
    BY <2>2, <2>3, <2>4
<1>9. CASE EndProbe \/ EndRollBack
  BY <1>1, <1>9 DEF EndProbe, EndRollBack, Claim, LeaveBehind
<1>10. CASE EndRemove
  <2>1. matching = {} /\ bound' = NoDriver /\ task' = NoTask
    BY <1>10, TaskFacts DEF EndRemove, LeaveBehind
  <2> QED
    BY <1>1, <1>10, <2>1 DEF EndRemove
<1>11. CASE RemoveCrash
  BY <1>11 DEF RemoveCrash, taskVars
<1> QED
  BY <1>2, <1>3, <1>4, <1>5, <1>6, <1>7, <1>8, <1>9, <1>10, <1>11
    DEF PciNext, ProbeOrRemove

(* The references to the module: two for each open file, and one that an   *)
(* open took that did not survive.                                         *)
PinInv ==
  /\ pins = 2 * Cardinality(opened) + (IF "open" \in bad THEN 1 ELSE 0)
  /\ filep \in Processes \cup {NoFile}
  /\ bad \subseteq {"probe", "remove", "open", "file", "handler"}

LEMMA PinStep ==
  ASSUME LifeInv, PinInv, [CharNext]_charVars
  PROVE  PinInv'
<1>1. opened \subseteq Processes /\ IsFiniteSet(opened) /\ Cardinality(opened) \in Nat
  BY FS_CardinalityType DEF LifeInv, FileInv
<1>2. ASSUME NEW p \in Processes, Open(p) PROVE PinInv'
  <2>1. Cardinality(opened') = Cardinality(opened) + 1
    BY <1>1, <1>2, FS_AddElement DEF Open, CanOpen
  <2> QED
    BY <1>1, <1>2, <2>1 DEF PinInv, Open, pciVars
<1>3. ASSUME NEW p \in Processes, OpenCrash(p) PROVE PinInv'
  BY <1>1, <1>3 DEF PinInv, OpenCrash
<1>4. ASSUME NEW p \in Processes, Close(p) PROVE PinInv'
  <2>1. Cardinality(opened') = Cardinality(opened) - 1
    BY <1>1, <1>4, FS_RemoveElement DEF Close
  <2> QED
    BY <1>1, <1>4, <2>1 DEF PinInv, Close, pciVars
<1>5. ASSUME UNCHANGED <<opened, pins, filep, bad>> PROVE PinInv'
  BY <1>5 DEF PinInv
<1>6. ASSUME NEW party \in {"file", "handler"}, Stray(party) PROVE PinInv'
  BY <1>6 DEF Stray, PinInv, fileVars
<1>7. CASE \E p \in Processes : EndIO(p) \/ \E op \in {"read", "write"}, offset \in Offsets,
             length \in Lengths : BeginIO(p, op, offset, length)
  BY <1>5, <1>7 DEF EndIO, BeginIO, pciVars
<1>8. CASE \E c \in Callers : MoveWord(c)
  BY <1>5, <1>8 DEF MoveWord, pciVars
<1>9. CASE BeginStray \/ \E c \in Callers : MoveStray(c)
  BY <1>6, <1>9 DEF BeginStray, MoveStray
<1>10. CASE IsrEnter \/ IsrNext
  BY <1>5, <1>6, <1>10 DEF IsrEnter, IsrNext, pciVars
<1>11. CASE Lifecycle
  <2>1. UNCHANGED <<opened, pins>> /\ filep' \in {filep, NoFile}
    BY <1>11 DEF Lifecycle
  <2>2. bad' = bad \/ bad' = bad \cup {"probe"} \/ bad' = bad \cup {"remove"}
    BY <1>11 DEF Lifecycle, Insmod, Rmmod, ProbeBegin, Plug, Pull, ProbeOrRemove, Succeeds,
      Fails, EndProbe, RollBackStep, EndRollBack, RemoveStep, RemoveCrash, EndRemove, Release
  <2> QED
    BY <2>1, <2>2 DEF PinInv
<1>12. CASE UNCHANGED charVars
  BY <1>5, <1>12 DEF charVars, pciVars, fileVars
<1> QED
  BY <1>2, <1>3, <1>4, <1>7, <1>8, <1>9, <1>10, <1>11, <1>12 DEF CharNext

DriverInv == OwnsInv /\ EnableInv /\ LoadInv /\ PinInv

LEMMA DriverInvariant == CharSpec => []DriverInv
<1>1. CharInit => DriverInv
  <2> SUFFICES ASSUME CharInit PROVE DriverInv
    OBVIOUS
  <2>1. OwnsInv
    BY OwnsInit DEF CharInit
  <2>2. EnableInv /\ LoadInv
    BY DriversAssumption
      DEF CharInit, PciInit, EnableInv, LoadInv, DriversAssumption, NoTask, Task
  <2>3. PinInv
    BY FS_EmptySet DEF CharInit, PciInit, PinInv
  <2> QED
    BY <2>1, <2>2, <2>3 DEF DriverInv
<1>2. LifeInv /\ DriverInv /\ [CharNext]_charVars => DriverInv'
  <2> SUFFICES ASSUME LifeInv, DriverInv, [CharNext]_charVars PROVE DriverInv'
    OBVIOUS
  <2>1. PciNext \/ UNCHANGED <<loaded, card, matching, bound, taskVars, ownVars>>
    BY DEF CharNext, Lifecycle, PciNext, Open, OpenCrash, Close, EndIO, BeginIO, BeginStray,
      MoveWord, MoveStray, IsrEnter, IsrNext, Stray, charVars, pciVars
  <2>2. PinInv'
    BY PinStep DEF DriverInv
  <2>3. CASE PciNext
    BY <2>2, <2>3, DriversAssumption, OwnsStep, EnableStep, LoadStep DEF LifeInv, DriverInv
  <2>4. CASE UNCHANGED <<loaded, card, matching, bound, taskVars, ownVars>>
    <3>1. UNCHANGED <<bound, task, error, failed, failures, held, left, enable_cnt>>
      BY <2>4 DEF taskVars, ownVars
    <3>2. LoadInv'
      BY <2>4, <3>1 DEF LoadInv, DriverInv
    <3> QED
      BY <2>2, <3>1, <3>2, OwnsStands, EnableStands DEF DriverInv
  <2> QED
    BY <2>1, <2>3, <2>4
<1> QED
  BY <1>1, <1>2, LifeInvariant, PTL DEF CharSpec

(* fpga_char_main.c 59-196, chardev.c 42-116 and pcie_fpga_echo.c 100-191: *)
(* whatever fails in whichever order, a driver that has claimed the card   *)
(* owns what its remove releases, but for what has failed unnoticed and    *)
(* for the one failure that makes fpga_probe claim with nothing.           *)
THEOREM CharClaimOwnsAllButFailed == CharSpec => []ClaimOwnsAllButFailed
<1>1. LifeInv /\ DriverInv => ClaimOwnsAllButFailed
  <2> SUFFICES ASSUME LifeInv, DriverInv, Claimed,
                      ~(bound = "fpga_char" /\ "mapping" \in failed)
               PROVE  Needs(bound) \ failed \subseteq held /\ enable_cnt > 0
    BY DEF ClaimOwnsAllButFailed
  <2>1. bound \in TwoDrivers /\ bound # NoDriver /\ task.next = 1
    BY TaskFacts DEF LifeInv, Claimed, NoTask, Task
  <2>2. Needs(bound) = Rest(Remove[bound], 1) \ {"enable"}
    BY <2>1, FpgaChains, EchoChains DEF Needs, Rest, Remove, TwoDrivers
  <2>3. Rest(Remove[bound], 1) \ {"enable"} \subseteq held \cup failed
    BY <2>1 DEF DriverInv, OwnsInv, BoundOwns
  <2>4. 1 <= Len(Remove[bound])
    BY <2>1, FpgaChains, EchoChains DEF Remove, TwoDrivers
  <2>5. enable_cnt > 0
    BY <2>1, <2>4, DriversAssumption DEF DriverInv, EnableInv, DriversAssumption
  <2> QED
    BY <2>2, <2>3, <2>5
<1> QED
  BY <1>1, LifeInvariant, DriverInvariant, PTL

(* The goto chains and the removes release nothing that the probe did not  *)
(* acquire or has just failed to get, and never disable a device that is   *)
(* not enabled.                                                            *)
THEOREM CharOwnsWhatItReleases == CharSpec => []OwnsWhatItReleases
<1>1. LifeInv /\ DriverInv => OwnsWhatItReleases
  <2> SUFFICES ASSUME LifeInv, DriverInv, Releasing # "nothing"
               PROVE  /\ Releasing # "enable" /\ ~(Releasing = "node" /\ "drvdata" \notin held)
                            => Releasing \in held \cup failed
                      /\ Releasing = "enable" => enable_cnt > 0
    BY DEF OwnsWhatItReleases
  <2>1. task.name \in {"rollback", "remove"}
    BY DEF Releasing, Chain
  <2>2. enable_cnt \in Nat
    BY DriversAssumption DEF DriverInv, EnableInv, DriversAssumption
  <2>3. CASE task.name = "rollback"
    <3> DEFINE chain == RollBack[task.driver]
    <3>1. Releasing \in Rest(chain, task.next) /\ task.next <= Len(chain)
      BY <2>3, ReleasingFacts DEF LifeInv
    <3> HIDE DEF chain
    <3> QED
      BY <2>2, <2>3, <3>1 DEF DriverInv, OwnsInv, RollBackOwns, EnableInv, chain
  <2>4. CASE task.name = "remove"
    <3> DEFINE chain == Remove[bound]
    <3>1. Releasing \in Rest(chain, task.next) /\ task.next <= Len(chain)
      BY <2>4, ReleasingFacts DEF LifeInv
    <3>2. bound # NoDriver /\ Releasing = Remove[bound][task.next]
      BY <2>4, TaskFacts DEF LifeInv, Releasing
    <3>3. CASE bound = "fpga_char" /\ "drvdata" \notin held
      <4>1. Releasing = "node"
        BY <3>2, <3>3, FpgaChains DEF DriverInv, OwnsInv, BoundOwns, Remove
      <4> QED
        BY <3>3, <4>1
    <3>4. CASE ~(bound = "fpga_char" /\ "drvdata" \notin held)
      BY <2>2, <2>4, <3>1, <3>2, <3>4 DEF DriverInv, OwnsInv, BoundOwns, EnableInv
    <3> QED
      BY <3>3, <3>4
  <2> QED
    BY <2>1, <2>3, <2>4
<1> QED
  BY <1>1, LifeInvariant, DriverInvariant, PTL

(* What is lost for good, over any number of loads and unloads of both     *)
(* drivers: an echo driver's mapping, the private struct of an fpga_probe  *)
(* that failed, and the region only after vectors or irq have failed.      *)
THEOREM CharLeftBehind == CharSpec => []LeftBehind
<1>1. DriverInv => LeftBehind
  BY DEF DriverInv, OwnsInv
<1> QED
  BY <1>1, DriverInvariant, PTL

(* Types, and the two counts of the kernel: the enables of the device stay *)
(* within their bound and never fall below 0, and no sequence of opens and *)
(* closes loses a reference to the module or leaves one behind, but for    *)
(* the one of an open that went astray.                                    *)
THEOREM CharFileTypeOK ==
  ASSUME IsFiniteSet(Processes)
  PROVE  CharSpec => []CharTypeOK
<1>1. CharInit => RetInv
  BY DEF CharInit, RetInv
<1>2. IOInv /\ RetInv /\ [CharNext]_charVars => RetInv'
  BY RetStep
<1>3. LifeInv => IOInv
  BY DEF LifeInv
<1>4. LifeInv /\ DriverInv /\ RetInv => CharTypeOK
  <2> SUFFICES ASSUME LifeInv, DriverInv, RetInv PROVE CharTypeOK
    OBVIOUS
  <2>1. PciTypeOK
    <3>1. card \in {"absent", "present", "gone"} /\
          task.name \in {"none", "probe", "rollback", "remove"}
      BY DEF LifeInv, PciInv, TaskInv, TaskRecord
    <3>2. left \subseteq Resource \ Pointers /\ held \subseteq Resource
      BY DEF DriverInv, OwnsInv, LeftBehind, Resource, Pointers
    <3> QED
      BY <3>1, <3>2 DEF PciTypeOK, DriverInv, LoadInv, EnableInv, PinInv
  <2>2. opened \subseteq Processes /\ pins \in 0..(2 * Cardinality(Processes) + 1)
    <3>1. opened \subseteq Processes
      BY DEF LifeInv, FileInv
    <3>2. Cardinality(opened) \in Nat /\ Cardinality(Processes) \in Nat
          /\ Cardinality(opened) <= Cardinality(Processes)
      BY <3>1, FS_Subset, FS_CardinalityType
    <3> QED
      BY <3>1, <3>2 DEF DriverInv, PinInv
  <2> QED
    BY <2>1, <2>2 DEF CharTypeOK, LifeInv, IOInv, IORecord, DriverInv, PinInv, RetInv
<1> QED
  BY <1>1, <1>2, <1>3, <1>4, LifeInvariant, DriverInvariant, PTL DEF CharSpec
=============================================================================
