---------------------------- MODULE MCRingFifo ----------------------------
(* A ring of four slots and three virtine addresses. *)
EXTENDS RingFifo
===========================================================================
