--------------------------- MODULE CleanupService ---------------------------
(***************************************************************************)
(* What the card promises the guest: dirty virtines handed in are cleaned  *)
(* one at a time in the order they were accepted, and come back clean in   *)
(* that same order, each at most once.  A virtine is turned away only when *)
(* Capacity dirty ones wait already, and a clean one is given up only when *)
(* Capacity clean ones have not been fetched.                              *)
(***************************************************************************)
EXTENDS Naturals, Sequences

CONSTANTS Item, NoItem, Capacity

VARIABLES
  ready,     \* dirty virtines accepted and not begun
  cleaning,  \* the one being overwritten with the snapshot
  clean,     \* clean virtines not fetched yet
  fetched    \* the one the guest is fetching

vars == <<ready, cleaning, clean, fetched>>

Init ==
  /\ ready = <<>> /\ clean = <<>>
  /\ cleaning = NoItem /\ fetched = NoItem

HandIn(v) ==
  /\ ready' = IF Len(ready) < Capacity THEN Append(ready, v) ELSE ready
  /\ UNCHANGED <<cleaning, clean, fetched>>

BeginCleaning ==
  /\ cleaning = NoItem
  /\ ready # <<>>
  /\ cleaning' = Head(ready)
  /\ ready' = Tail(ready)
  /\ UNCHANGED <<clean, fetched>>

FinishCleaning ==
  /\ cleaning # NoItem
  /\ clean' = IF Len(clean) < Capacity THEN Append(clean, cleaning) ELSE clean
  /\ cleaning' = NoItem
  /\ UNCHANGED <<ready, fetched>>

Fetch ==
  /\ clean # <<>>
  /\ fetched' = Head(clean)
  /\ clean' = Tail(clean)
  /\ UNCHANGED <<ready, cleaning>>

(* The guest finds nothing to fetch, or is through with what it fetched. *)
Forget ==
  /\ fetched' = NoItem
  /\ UNCHANGED <<ready, cleaning, clean>>

Next ==
  \/ \E v \in Item : HandIn(v)
  \/ BeginCleaning \/ FinishCleaning
  \/ Fetch \/ Forget

Spec == Init /\ [][Next]_vars
=============================================================================
