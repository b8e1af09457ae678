------------------------------ MODULE CharFile ------------------------------
(***************************************************************************)
(* The device file /dev/virtine_fpga over the life of its driver: opens,   *)
(* reads, writes and closes by processes, and the interrupt handler, while *)
(* PciDrivers loads the driver, removes it or loses the card.              *)
(*                                                                         *)
(* A read or write moves one 32-bit word in each step.  What the registers *)
(* hold is the subject of FpgaChar; here it is which registers are touched *)
(* and whether the structures they are reached through exist.              *)
(***************************************************************************)
EXTENDS PciDrivers

CONSTANTS
  Processes,   \* the programs that use the device file
  Handler,     \* fetch_clean_virtines
  NoFile,      \* a struct file pointer that is NULL
  Offsets,     \* where they read and write ...
  Lengths      \* ... and how much

ASSUME FileAssumption ==
  /\ Handler \notin Processes /\ NoFile \notin Processes
  /\ Offsets \subseteq Nat /\ Lengths \subseteq Nat

WordSize == 4        \* sizeof(u32)
AddressSize == 8     \* sizeof(unsigned long)

Callers == Processes \cup {Handler}

(* A read or write under way: bytes_read or bytes_written so far.          *)
NoIO == [op |-> "none", offset |-> 0, length |-> 0, bytes |-> 0]

IO(op, offset, length) ==
  [op |-> op, offset |-> offset, length |-> length, bytes |-> 0]

VARIABLES
  opened,    \* the processes that have the file open
  pins,      \* the references that keep fpga_char from being unloaded
  filep,     \* fpga_device.filep
  io,        \* the read or write each caller is in
  ret        \* what the last call of each process on the file has returned

fileVars == <<opened, pins, filep, io, ret>>
charVars == <<pciVars, fileVars>>

EIO == -5
EFAULT == -14

CharTypeOK ==
  /\ PciTypeOK
  /\ opened \subseteq Processes /\ pins \in 0..(2 * Cardinality(Processes) + 1)
  /\ filep \in Processes \cup {NoFile}
  /\ io \in [Callers -> [op : {"none", "read", "write"}, offset : Nat,
                         length : Nat, bytes : Nat]]
  /\ ret \in [Processes -> Int]

CharInit ==
  /\ PciInit
  /\ opened = {} /\ pins = 0 /\ filep = NoFile
  /\ io = [c \in Callers |-> NoIO]
  /\ ret = [p \in Processes |-> 0]

-----------------------------------------------------------------------------
(* Open and release. *)

(* The device file is there, and its module is not on its way out. *)
CanOpen(p) ==
  /\ p \notin opened
  /\ "node" \in held /\ ~(task.name = "remove" /\ card = "present")

(* A plausible mistake: open forgets its own reference.                    *)
OpenPinsOnce(p) ==
  /\ CanOpen(p) /\ "fpga_dev" \in held
  /\ opened' = opened \cup {p} /\ pins' = pins + 1
  /\ filep' = p
  /\ UNCHANGED <<io, ret, pciVars>>

(* The kernel pins the module that owns the file operations, and open pins *)
(* it once more.  fpga_dev is NULL until create_char_devs is about to end. *)
Open(p) ==
  /\ CanOpen(p) /\ "fpga_dev" \in held
  /\ opened' = opened \cup {p} /\ pins' = pins + 2
  /\ filep' = p
  /\ UNCHANGED <<io, ret, pciVars>>

OpenCrash(p) ==
  /\ CanOpen(p) /\ "fpga_dev" \notin held /\ "open" \notin bad
  /\ bad' = bad \cup {"open"} /\ pins' = pins + 1
  /\ UNCHANGED <<opened, filep, io, ret, loaded, card, matching, bound, taskVars, ownVars>>

Close(p) ==
  /\ p \in opened /\ io[p] = NoIO
  /\ opened' = opened \ {p} /\ pins' = pins - 2
  /\ ret' = [ret EXCEPT ![p] = 0]
  /\ UNCHANGED <<filep, io, pciVars>>

-----------------------------------------------------------------------------
(* Read and write. *)

(* Who follows a pointer to what is not there any more does not go on. *)
Stray(party) ==
  /\ party \notin bad
  /\ bad' = bad \cup {party}
  /\ UNCHANGED <<fileVars, loaded, card, matching, bound, taskVars, ownVars>>

(* Every call looks up dev_mem in the private struct first. *)
CanCall(p) == p \in opened /\ io[p] = NoIO /\ "file" \notin bad

(* An offset that is not a multiple of 4 ends the call before the loop;    *)
(* a read that has read nothing is an I/O error.                           *)
BeginIO(p, op, offset, length) ==
  /\ CanCall(p) /\ "fpga" \in held
  /\ IF offset % WordSize # 0
     THEN ret' = [ret EXCEPT ![p] = IF op = "read" THEN EIO ELSE 0] /\ UNCHANGED io
     ELSE /\ io' = [io EXCEPT ![p] = IO(op, offset, length)]
          /\ ret' = [ret EXCEPT ![p] = 0]
  /\ UNCHANGED <<opened, pins, filep, pciVars>>

BeginStray == "fpga" \notin held /\ \E p \in Processes : CanCall(p) /\ Stray("file")

(* Two plausible mistakes: one word too many, and only whole words of the  *)
(* request.                                                                *)
MoreOffByOne(c) == io[c].bytes <= io[c].length

MoreRoundedDown(c) == io[c].length - io[c].bytes >= WordSize

(* The loops' condition. *)
More(c) == io[c].bytes < io[c].length

MoveWord(c) ==
  /\ io[c].op # "none" /\ More(c)
  /\ "mapping" \in held
  /\ io' = [io EXCEPT ![c].bytes = @ + WordSize]
  /\ UNCHANGED <<opened, pins, filep, ret, pciVars>>

MoveStray(c) ==
  /\ io[c].op # "none" /\ More(c)
  /\ "mapping" \notin held
  /\ Stray(IF c = Handler THEN "handler" ELSE "file")

(* What the loop has read goes to the user, whose buffer may be bad; what  *)
(* copy_from_user says in a write is not looked at.                        *)
EndIO(p) ==
  /\ io[p].op # "none" /\ ~More(p) /\ "file" \notin bad
  /\ \E r \in IF io[p].op = "write" THEN {io[p].bytes}
             ELSE IF io[p].bytes = 0 THEN {EIO}
             ELSE {io[p].bytes, EFAULT} :
       ret' = [ret EXCEPT ![p] = r]
  /\ io' = [io EXCEPT ![p] = NoIO]
  /\ UNCHANGED <<opened, pins, filep, pciVars>>

-----------------------------------------------------------------------------
(* fetch_clean_virtines: 8-byte reads through fpga->filep until one is 0.  *)

HandlerCanRead == "fpga" \in held /\ filep \in opened

HandlerReads == io' = [io EXCEPT ![Handler] = IO("read", 0, AddressSize)]

(* The card may interrupt from request_irq on, for what an earlier load of *)
(* the driver has started too.                                             *)
IsrEnter ==
  /\ io[Handler] = NoIO
  /\ "irq" \in held /\ card = "present"
  /\ \/ HandlerCanRead /\ HandlerReads /\ UNCHANGED <<opened, pins, filep, ret, pciVars>>
     \/ ~HandlerCanRead /\ Stray("handler")

IsrNext ==
  /\ io[Handler].op # "none" /\ ~More(Handler) /\ "handler" \notin bad
  /\ \/ HandlerCanRead /\ HandlerReads /\ UNCHANGED <<opened, pins, filep, ret, pciVars>>
     \/ io' = [io EXCEPT ![Handler] = NoIO] /\ UNCHANGED <<opened, pins, filep, ret, pciVars>>
     \/ ~HandlerCanRead /\ Stray("handler")

-----------------------------------------------------------------------------
(* The driver's life beside it: a pinned module is not unloaded, free_irq  *)
(* waits for the handler, and a new private struct knows no file.          *)
Lifecycle ==
  /\ \/ \E d \in Drivers :
          \/ Insmod(d) \/ ProbeBegin(d)
          \/ Rmmod(d) /\ (d = "fpga_char" => pins = 0)
     \/ Plug \/ Pull
     \/ ProbeOrRemove /\ (Releasing = "irq" => io[Handler] = NoIO)
  /\ filep' = IF Calling = "fpga" THEN NoFile ELSE filep
  /\ UNCHANGED <<opened, pins, io, ret>>

CharNext ==
  \/ \E p \in Processes :
       \/ Open(p) \/ OpenCrash(p) \/ Close(p) \/ EndIO(p)
       \/ \E op \in {"read", "write"}, offset \in Offsets, length \in Lengths :
            BeginIO(p, op, offset, length)
  \/ BeginStray
  \/ \E c \in Callers : MoveWord(c) \/ MoveStray(c)
  \/ IsrEnter \/ IsrNext
  \/ Lifecycle

CharSpec == CharInit /\ [][CharNext]_charVars

-----------------------------------------------------------------------------
(* Whoever has the file open finds the private struct and the mapped       *)
(* registers there at every access, through all loads, failures and        *)
(* unloads, until the card itself is lost; and only an open that comes     *)
(* right between device_create and fpga_dev's assignment goes astray.      *)
FileUsersFindDevice ==
  [][ /\ "file" \in bad' \ bad => card = "gone"
      /\ "open" \in bad' \ bad => Calling = "fpga_dev" ]_charVars

(* The handler too, although it runs whenever the card says so, as long as *)
(* the file that was opened last is open: an interrupt for work from an    *)
(* earlier load, or in the middle of a removal, finds no file open.        *)
HandlerFindsDevice ==
  [][ "handler" \in bad' \ bad => filep \notin opened \/ card = "gone" ]_charVars

(* A transfer stays on whole words, begins at none unless the offset is    *)
(* aligned, and touches no register behind the word its last byte is in:   *)
(* so a read of at most 8 bytes stays inside the 8-byte clean_virtine_addr.*)
TransferStaysInside ==
  \A c \in Callers : io[c].op # "none" =>
    /\ io[c].offset % WordSize = 0 /\ io[c].bytes % WordSize = 0
    /\ io[c].bytes < io[c].length + WordSize
    /\ io[c].length <= AddressSize => io[c].bytes <= AddressSize

(* A read or write that was not refused and whose user buffer is good      *)
(* never returns short: its count covers the request.                      *)
NeverShort ==
  [][ \A p \in Processes :
        io[p] # NoIO /\ io'[p] = NoIO /\ io[p].length > 0 =>
          ret'[p] = EFAULT \/ ret'[p] >= io[p].length ]_charVars
=============================================================================
