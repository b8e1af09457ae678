----------------------------- MODULE RingQueue -----------------------------
(***************************************************************************)
(* struct virtine_ring_queue of qemu-fpga-char/virtine_fpga.c and its      *)
(* helpers.  A pointer into the buffer is the index it points at, relative *)
(* to base_addr.  The queue keeps no count: head = tail is both "empty"    *)
(* and "full", told apart by the value stored in the slot at head.         *)
(***************************************************************************)
EXTENDS Integers, Hwaddrs

CONSTANT NUM_POSSIBLE_VIRTINES

ASSUME NumAssumption == NUM_POSSIBLE_VIRTINES \in Nat /\ NUM_POSSIBLE_VIRTINES > 1

Slots == 0 .. NUM_POSSIBLE_VIRTINES - 1

Queue == [buffer : [Slots -> Hwaddr], head : Slots, tail : Slots]

(* The device object is allocated zeroed and realize resets the pointers. *)
EmptyQueue == [buffer |-> [s \in Slots |-> Zero], head |-> 0, tail |-> 0]

EndOfQueue == NUM_POSSIBLE_VIRTINES - 1

(* A plausible mistake: a pointer that runs off the end of the buffer.     *)
NextElementNoWrap(p) == p + 1

NextElement(p) == IF p = EndOfQueue THEN 0 ELSE p + 1

(* The two tests of the code on an ambiguous head = tail; without their    *)
(* second half a full queue looks empty, and an empty one full.            *)
CanPopByPointers(q) == q.tail # q.head

CanPop(q) == q.tail # q.head \/ q.buffer[q.head] # Zero

CanInsertAlways(q) == q.tail \in Slots

CanInsert(q) == q.head # q.tail \/ q.buffer[q.tail] = Zero

(* What pop_head returns, and the queue it leaves. *)
HeadValue(q) == q.buffer[q.head]

(* A plausible mistake: the slot is not reset to the invalid value.        *)
PopHeadLeavesValue(q) ==
  IF CanPop(q) THEN [q EXCEPT !.head = NextElement(q.head)] ELSE q

PopHead(q) ==
  IF CanPop(q)
  THEN [q EXCEPT !.buffer[q.head] = Zero, !.head = NextElement(q.head)]
  ELSE q

InsertTail(q, to_insert) ==
  IF CanInsert(q)
  THEN [q EXCEPT !.buffer[q.tail] = to_insert, !.tail = NextElement(q.tail)]
  ELSE q

-----------------------------------------------------------------------------
(* The contents a queue stands for. *)

(* How many slots a walk from head has to take to reach slot s. *)
Distance(q, s) ==
  IF s >= q.head THEN s - q.head ELSE s - q.head + NUM_POSSIBLE_VIRTINES

Occupancy(q) ==
  IF q.head = q.tail
  THEN IF q.buffer[q.head] = Zero THEN 0 ELSE NUM_POSSIBLE_VIRTINES
  ELSE Distance(q, q.tail)

(* The slot i places after head, i counted from 1. *)
SlotAt(q, i) ==
  LET s == q.head + i - 1
  IN  IF s < NUM_POSSIBLE_VIRTINES THEN s ELSE s - NUM_POSSIBLE_VIRTINES

Contents(q) == [i \in 1 .. Occupancy(q) |-> q.buffer[SlotAt(q, i)]]

(* The slots from head up to tail hold virtines, all the others hold 0. *)
WellFormed(q) ==
  /\ q \in Queue
  /\ \A s \in Slots : q.buffer[s] # Zero <=> Distance(q, s) < Occupancy(q)
=============================================================================
