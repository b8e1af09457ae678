--------------------------- MODULE RingFifoProofs ---------------------------
(***************************************************************************)
(* The ring queue is a bounded FIFO, for a queue of any size and addresses *)
(* of any width.                                                           *)
(***************************************************************************)
EXTENDS RingFifo, RingQueueProofs

(* Both pointers stay inside the buffer, whatever is inserted and popped.  *)
THEOREM RingFifoTypeOK == Spec => []TypeOK
<1>1. Init => TypeOK
  BY QueueConstants, EmptyQueueType DEF Init, TypeOK
<1>2. TypeOK /\ [Next]_vars => TypeOK'
  <2> SUFFICES ASSUME TypeOK, [Next]_vars
               PROVE  TypeOK'
    OBVIOUS
  <2>1. CASE \E v \in Virtine : Insert(v)
    <3>1. PICK v \in Virtine : Insert(v)
      BY <2>1
    <3>2. v \in Hwaddr
      BY QueueConstants
    <3>3. queue' \in Queue
      BY <3>1, <3>2, InsertTailType DEF Insert, TypeOK
    <3> QED
      BY <3>1, <3>3 DEF Insert, TypeOK
  <2>2. CASE Pop
    BY <2>2, PopHeadType DEF Pop, TypeOK
  <2>3. CASE UNCHANGED vars
    BY <2>3 DEF vars, TypeOK
  <2> QED
    BY <2>1, <2>2, <2>3 DEF Next
<1> QED
  BY <1>1, <1>2, PTL DEF Spec

(* The occupied slots are those from head up to tail: the invariant that   *)
(* the value tests of pop_head and insert_tail rely on, inductive because  *)
(* no caller inserts the address 0.                                        *)
THEOREM RingFifoWellFormed == Spec => []RingWellFormed
<1>1. Init => RingWellFormed
  BY EmptyQueueWellFormed DEF Init, RingWellFormed
<1>2. RingWellFormed /\ [Next]_vars => RingWellFormed'
  BY WellFormedPreserved DEF RingWellFormed, Next, Insert, Pop, vars
<1> QED
  BY <1>1, <1>2, PTL DEF Spec

(* Every run of the ring is one of the FIFO: insertion order is kept,      *)
(* nothing is lost or doubled, a refusal is reported and means a full      *)
(* queue, and 0 is returned only by an empty one.                          *)
THEOREM RingImplementsFifo == Spec => ImplementsFifo
<1>1. Init => Fifo!Init
  <2> SUFFICES ASSUME Init PROVE Fifo!Init
    OBVIOUS
  <2>1. WellFormed(queue) /\ Occupancy(queue) = 0
    BY EmptyQueueWellFormed DEF Init
  <2>2. Contents(queue) = <<>>
    BY <2>1, ContentsType, EmptySeq
  <2> QED
    BY <2>2 DEF Init, Fifo!Init
<1>2. RingWellFormed /\ [Next]_vars => [Fifo!Next]_(Fifo!vars)
  <2> SUFFICES ASSUME RingWellFormed, [Next]_vars
               PROVE  [Fifo!Next]_(Fifo!vars)
    OBVIOUS
  <2>1. WellFormed(queue)
    BY DEF RingWellFormed
  <2>2. ASSUME NEW v \in Virtine, Insert(v)
        PROVE  Fifo!Put(v)
    <3>1. Contents(queue)' = IF Len(Contents(queue)) < NUM_POSSIBLE_VIRTINES
                             THEN Append(Contents(queue), v) ELSE Contents(queue)
      BY <2>1, <2>2, InsertTailAppends DEF Insert
    <3>2. Len(Contents(queue)) = Occupancy(queue)
      BY <2>1, ContentsType
    <3>3. inserted' = (Len(Contents(queue)) < NUM_POSSIBLE_VIRTINES)
      <4>1. CASE Occupancy(queue) < NUM_POSSIBLE_VIRTINES
        BY <4>1, <3>2, <2>1, <2>2, InsertTailEffect DEF Insert
      <4>2. CASE ~(Occupancy(queue) < NUM_POSSIBLE_VIRTINES)
        BY <4>2, <3>2, <2>1, <2>2, ValueTests DEF Insert, InsertTail
      <4> QED
        BY <4>1, <4>2
    <3> QED
      BY <3>1, <3>3, <2>2 DEF Insert, Fifo!Put
  <2>3. CASE Pop
    BY <2>1, <2>3, PopHeadTakesFirst DEF Pop, Fifo!Next, Fifo!GetOldest, Fifo!GetNothing
  <2>4. CASE UNCHANGED vars
    BY <2>4 DEF vars, Fifo!vars, Contents, Occupancy, SlotAt, Distance
  <2> QED
    BY <2>2, <2>3, <2>4 DEF Next, Fifo!Next
<1> QED
  BY <1>1, <1>2, RingFifoWellFormed, PTL DEF Spec, ImplementsFifo, Fifo!Spec
=============================================================================
