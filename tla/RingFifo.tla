------------------------------ MODULE RingFifo ------------------------------
(***************************************************************************)
(* One ring queue under any sequence of insert_tail and pop_head calls, as *)
(* the callers make them: one at a time, under processing_lock, and never  *)
(* inserting the address 0.                                                *)
(***************************************************************************)
EXTENDS RingQueue

VARIABLES
  queue,
  inserted,  \* did the last insert_tail move TAIL?
  popped     \* what the last pop_head returned

vars == <<queue, inserted, popped>>

TypeOK ==
  /\ queue \in Queue
  /\ inserted \in BOOLEAN
  /\ popped \in Hwaddr

Init ==
  /\ queue = EmptyQueue
  /\ inserted = FALSE
  /\ popped = Zero

(* The caller learns of a refusal by comparing the returned TAIL. *)
Insert(v) ==
  /\ queue' = InsertTail(queue, v)
  /\ inserted' = (queue'.tail # queue.tail)
  /\ UNCHANGED popped

Pop ==
  /\ popped' = HeadValue(queue)
  /\ queue' = PopHead(queue)
  /\ UNCHANGED inserted

Next == (\E v \in Virtine : Insert(v)) \/ Pop

Spec == Init /\ [][Next]_vars

-----------------------------------------------------------------------------
(* No slot is occupied outside [head, tail) and none is empty inside it:   *)
(* the value test that tells full from empty (pop_head, insert_tail) only  *)
(* works because of this.                                                  *)
RingWellFormed == WellFormed(queue)

(* The ring is a bounded FIFO: it returns the virtines in insertion order, *)
(* refuses exactly when it holds NUM_POSSIBLE_VIRTINES of them, reports    *)
(* the refusal, and returns 0 exactly when there is nothing left to pop.   *)
Fifo == INSTANCE BoundedFifo WITH
          Item <- Virtine, NoItem <- Zero, Capacity <- NUM_POSSIBLE_VIRTINES,
          items <- Contents(queue)

ImplementsFifo == Fifo!Spec
=============================================================================
