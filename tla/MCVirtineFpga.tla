--------------------------- MODULE MCVirtineFpga ---------------------------
(* Guests for the model checker, as the register accesses they make. *)
EXTENDS VirtineFpga, TLC

b == CHOOSE x \in Bits : TRUE
ModelCleanState == [hi |-> ZeroWord, lo |-> {b}]
ModelCleanStateSize == {b}

Rings == {Write("DOORBELL", ZeroWord)}
SetsBatch == {WriteCount("BATCH_FACTOR", n) : n \in BatchFactors}

(* A guest with one virtine below 4 GB, that may also hand in address 0.   *)
SmallGuest ==
  Rings \cup SetsBatch \cup
  {Write("RQ_TAIL", w) : w \in Word} \cup
  {Write("RQ_TAIL_HI", ZeroWord), Read("CQ_HEAD")}

(* One with two virtines above 4 GB, which never hands in address 0.       *)
HighGuest ==
  Rings \cup
  {Write("RQ_TAIL", w) : w \in Word} \cup
  {Write("RQ_TAIL_HI", {b}), Read("CQ_HEAD"), Read("CQ_HEAD_HI")}

(* One with a single virtine, that also polls and sets the other registers *)
(* (to the values they have: no step of the card depends on them).         *)
PollingGuest ==
  Rings \cup SetsBatch \cup
  {Write("RQ_TAIL", {b}), Write("RQ_TAIL_HI", ZeroWord), Read("CQ_HEAD"),
   Read("IS_PROCESSING"), Write("SNAPSHOT_SIZE", ModelCleanStateSize),
   Write("SNAPSHOT_ADDR", ModelCleanState.lo),
   Write("SNAPSHOT_ADDR_HI", ModelCleanState.hi), Write("OTHER", ZeroWord)}

RingingGuest == Rings

SymmetricCPUs == Permutations(CPUs)
===========================================================================
