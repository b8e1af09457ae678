------------------------------ MODULE Hwaddrs ------------------------------
(***************************************************************************)
(* Bus addresses as the device and its driver handle them: a 64-bit hwaddr *)
(* that always travels as two 32-bit words.  A word is the set of its bits *)
(* that are 1, so that the C operator | is set union and the number 0 is   *)
(* the empty set.  Bits is the set of bit positions of one word.           *)
(***************************************************************************)
CONSTANT Bits

ASSUME BitsAssumption == Bits # {}

Word == SUBSET Bits

(* The word 0, and the low half of ~0ULL, the value of a failed read. *)
ZeroWord == {}

AllOnes == Bits

Hwaddr == [hi : Word, lo : Word]

(* The address 0, which the queues use for "no virtine here". *)
Zero == [hi |-> ZeroWord, lo |-> ZeroWord]

Virtine == Hwaddr \ {Zero}
=============================================================================
