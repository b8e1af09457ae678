----------------------------- MODULE MCCharFile -----------------------------
(* The machine and its programs for the model checker. *)
EXTENDS CharFile, TLC

BothDrivers == {"fpga_char", "pcie_echo"}

SymmetricProcesses == Permutations(Processes)
=============================================================================
