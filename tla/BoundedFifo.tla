---------------------------- MODULE BoundedFifo ----------------------------
(***************************************************************************)
(* What one of the card's queues promises its users: a first-in first-out  *)
(* queue of at most Capacity virtines.  Put reports whether the virtine    *)
(* was taken; Get hands out the oldest one, or NoItem when there is none.  *)
(***************************************************************************)
EXTENDS Naturals, Sequences

CONSTANTS Item, NoItem, Capacity

VARIABLES items, inserted, popped

vars == <<items, inserted, popped>>

Init ==
  /\ items = <<>>
  /\ inserted = FALSE
  /\ popped = NoItem

Put(v) ==
  /\ inserted' = (Len(items) < Capacity)
  /\ items' = IF Len(items) < Capacity THEN Append(items, v) ELSE items
  /\ UNCHANGED popped

GetOldest ==
  /\ items # <<>>
  /\ popped' = Head(items)
  /\ items' = Tail(items)
  /\ UNCHANGED inserted

GetNothing ==
  /\ items = <<>>
  /\ popped' = NoItem
  /\ UNCHANGED <<items, inserted>>

Next == (\E v \in Item : Put(v)) \/ GetOldest \/ GetNothing

Spec == Init /\ [][Next]_vars
=============================================================================
