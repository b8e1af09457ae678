----------------------------- MODULE MCFpgaChar -----------------------------
(* Programs for the model checker, as the calls they make. *)
EXTENDS FpgaChar

b == CHOOSE x \in Bits : TRUE

(* One virtine below 4 GB, and one at a multiple of 4 GB. *)
LowVirtine == [hi |-> ZeroWord, lo |-> {b}]
HighVirtine == [hi |-> {b}, lo |-> ZeroWord]
TwoVirtines == {LowVirtine, HighVirtine}

ModelCleanStateSize == {b}
(* A short snapshot above 4 GB. *)
OneSnapshot == {[size |-> Zero, addr |-> [hi |-> {b}, lo |-> {b}]]}

(* One program hands the virtines in, another rings for them and changes   *)
(* the batch factor, or sets the snapshot that they are cleaned with.      *)
WriterAnd(calls) ==
  [p \in Processes |->
     IF p = CHOOSE q \in Processes : TRUE THEN TestGiveVirtine ELSE calls]

WriterAndController ==
  WriterAnd({RingDoorbell} \cup {ModifyBatchFactor(n) : n \in BatchFactors})

WriterAndSnapshot ==
  WriterAnd({RingDoorbell} \cup {SetSnapshot(s) : s \in Snapshots})

(* One hands virtines in and rings, another reads the queue by itself. *)
WriterAndReader ==
  [p \in Processes |->
     IF p = CHOOSE q \in Processes : TRUE
     THEN TestGiveVirtine \cup {RingDoorbell} ELSE {Fetch}]

(* Any of the test programs. *)
TestPrograms == [p \in Processes |-> TestGiveVirtine \cup TestIoctls]

DriverAccesses ==
  UNION {{AccessesOf(a)[i] : i \in DOMAIN AccessesOf(a)} : a \in Call}
=============================================================================
