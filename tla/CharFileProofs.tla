--------------------------- MODULE CharFileProofs ---------------------------
(***************************************************************************)
(* Reads and writes of the device file stay on the registers they asked    *)
(* for, for every offset and length and any number of processes.           *)
(***************************************************************************)
EXTENDS CharFile, TLAPS

IORecord == [op : {"none", "read", "write"}, offset : Nat, length : Nat, bytes : Nat]

(* One transfer under way. *)
Inside(t) ==
  t.op # "none" =>
    /\ t.offset % WordSize = 0 /\ t.bytes % WordSize = 0
    /\ t.bytes < t.length + WordSize

IOInv ==
  /\ io \in [Callers -> IORecord]
  /\ \A c \in Callers : Inside(io[c])

(* A transfer on whole words that began behind its request by less than a  *)
(* word does not leave the 8 bytes of an address.                          *)
LEMMA InsideAddress ==
  ASSUME NEW t \in IORecord, Inside(t), t.op # "none", t.length <= AddressSize
  PROVE  t.bytes <= AddressSize
<1>1. t.bytes \in Nat /\ t.length \in Nat
  BY DEF IORecord
<1>2. t.bytes % 4 = 0 /\ t.bytes < t.length + 4 /\ t.length <= 8
  BY DEF Inside, WordSize, AddressSize
<1> QED  BY <1>1, <1>2 DEF AddressSize

(* The transfers that open, IsrEnter and IsrNext begin. *)
LEMMA BeginInside ==
  ASSUME NEW op \in {"read", "write"}, NEW offset \in Nat, NEW length \in Nat,
         offset % WordSize = 0
  PROVE  IO(op, offset, length) \in IORecord /\ Inside(IO(op, offset, length))
<1>1. IO(op, offset, length) \in IORecord
  BY DEF IO, IORecord
<1>2. Inside(IO(op, offset, length))
  BY DEF IO, Inside, WordSize
<1> QED  BY <1>1, <1>2

LEMMA NoIOInside == NoIO \in IORecord /\ Inside(NoIO)
BY DEF NoIO, IORecord, Inside

(* Another word of a transfer that is not complete. *)
LEMMA MoreInside ==
  ASSUME NEW t \in IORecord, Inside(t), t.op # "none", t.bytes < t.length
  PROVE  LET u == [t EXCEPT !.bytes = @ + WordSize] IN u \in IORecord /\ Inside(u)
<1> DEFINE u == [t EXCEPT !.bytes = @ + WordSize]
<1>1. t.bytes \in Nat /\ t.length \in Nat
  BY DEF IORecord
<1>2. u.op = t.op /\ u.offset = t.offset /\ u.length = t.length /\ u.bytes = t.bytes + 4
  BY DEF IORecord, WordSize
<1>3. u \in IORecord
  BY <1>1 DEF IORecord, WordSize
<1>4. t.bytes % 4 = 0 /\ t.offset % 4 = 0
  BY DEF Inside, WordSize
<1>5. (t.bytes + 4) % 4 = 0 /\ t.bytes + 4 < t.length + 4
  BY <1>1, <1>4
<1>6. Inside(u)
  BY <1>2, <1>4, <1>5 DEF Inside, WordSize
<1> QED  BY <1>3, <1>6

(* Every step that changes a transfer begins one, moves a word or ends it. *)
LEMMA OneTransferChanges ==
  ASSUME IOInv, NEW c \in Callers, NEW t \in IORecord, Inside(t),
         io' = [io EXCEPT ![c] = t]
  PROVE  IOInv'
BY DEF IOInv

LEMMA IOStep ==
  ASSUME FileAssumption, IOInv, [CharNext]_charVars
  PROVE  IOInv'
<1> SUFFICES ASSUME CharNext, io' # io PROVE IOInv'
  BY DEF IOInv, charVars, fileVars
<1>h. Handler \in Callers /\ Processes \subseteq Callers
  BY DEF Callers
<1>1. ASSUME NEW p \in Processes, NEW op \in {"read", "write"}, NEW offset \in Offsets,
             NEW length \in Lengths, BeginIO(p, op, offset, length)
      PROVE  IOInv'
  <2>1. offset % WordSize = 0 /\ io' = [io EXCEPT ![p] = IO(op, offset, length)]
    BY <1>1 DEF BeginIO
  <2>2. offset \in Nat /\ length \in Nat
    BY FileAssumption DEF FileAssumption
  <2> QED  BY <1>h, <2>1, <2>2, BeginInside, OneTransferChanges
<1>2. ASSUME NEW c \in Callers, MoveWord(c)
      PROVE  IOInv'
  <2>1. io[c] \in IORecord /\ Inside(io[c]) /\ io[c].op # "none" /\ io[c].bytes < io[c].length
    BY <1>2 DEF IOInv, MoveWord, More
  <2>2. io' = [io EXCEPT ![c] = [io[c] EXCEPT !.bytes = @ + WordSize]]
    BY <1>2 DEF MoveWord
  <2> QED  BY <2>1, <2>2, MoreInside, OneTransferChanges
<1>3. ASSUME NEW p \in Processes, EndIO(p)
      PROVE  IOInv'
  BY <1>3, <1>h, NoIOInside, OneTransferChanges DEF EndIO
<1>4. CASE IsrEnter \/ IsrNext
  <2>1. io' = [io EXCEPT ![Handler] = IO("read", 0, AddressSize)]
        \/ io' = [io EXCEPT ![Handler] = NoIO]
    BY <1>4 DEF IsrEnter, IsrNext, HandlerReads, Stray, fileVars
  <2>2. 0 % WordSize = 0 /\ AddressSize \in Nat
    BY DEF WordSize, AddressSize
  <2> QED  BY <1>h, <2>1, <2>2, BeginInside, NoIOInside, OneTransferChanges
<1>5. ~ \E p \in Processes : Open(p) \/ OpenCrash(p) \/ Close(p)
  BY DEF Open, OpenCrash, Close
<1>6. ~ BeginStray /\ ~ (\E c \in Callers : MoveStray(c)) /\ ~ Lifecycle
  BY DEF BeginStray, MoveStray, Stray, fileVars, Lifecycle
<1> QED  BY <1>1, <1>2, <1>3, <1>4, <1>5, <1>6 DEF CharNext

LEMMA InsideImplies == IOInv => TransferStaysInside
<1> SUFFICES ASSUME IOInv, NEW c \in Callers, io[c].op # "none"
             PROVE  /\ io[c].offset % WordSize = 0 /\ io[c].bytes % WordSize = 0
                    /\ io[c].bytes < io[c].length + WordSize
                    /\ io[c].length <= AddressSize => io[c].bytes <= AddressSize
  BY DEF TransferStaysInside
<1>1. io[c] \in IORecord /\ Inside(io[c])
  BY DEF IOInv
<1>2. io[c].length <= AddressSize => io[c].bytes <= AddressSize
  BY <1>1, InsideAddress
<1> QED  BY <1>1, <1>2 DEF Inside

(* chardev.c 182-209 and 243-277: whatever the offsets and lengths, every  *)
(* read and write, the handler's too, stays on aligned words and touches   *)
(* none behind the word that its last byte is in.                          *)
THEOREM CharTransferStaysInside == CharSpec => []TransferStaysInside
<1>1. CharInit => IOInv
  BY NoIOInside DEF CharInit, IOInv
<1>2. IOInv /\ [CharNext]_charVars => IOInv'
  BY IOStep, FileAssumption
<1> QED  BY <1>1, <1>2, InsideImplies, PTL DEF CharSpec

-----------------------------------------------------------------------------
(* What a call on the file returns. *)

RetInv == ret \in [Processes -> Int]

LEMMA RetStep == ASSUME IOInv, RetInv, [CharNext]_charVars PROVE RetInv'
<1> USE DEF RetInv
<1>1. ASSUME NEW p \in Processes, EndIO(p) PROVE RetInv'
  <2>1. io[p].bytes \in Int
    BY DEF IOInv, IORecord, Callers
  <2> QED
    BY <1>1, <2>1 DEF EndIO, EIO, EFAULT
<1>2. ASSUME NEW p \in Processes,
             \/ Open(p) \/ OpenCrash(p) \/ Close(p)
             \/ \E op \in {"read", "write"}, offset \in Offsets, length \in Lengths :
                  BeginIO(p, op, offset, length)
      PROVE  RetInv'
  BY <1>2 DEF Open, OpenCrash, Close, BeginIO, EIO
<1>3. CASE \/ BeginStray \/ IsrEnter \/ IsrNext \/ Lifecycle
           \/ \E c \in Callers : MoveWord(c) \/ MoveStray(c)
  BY <1>3 DEF BeginStray, MoveWord, MoveStray, Stray, IsrEnter, IsrNext, Lifecycle, fileVars
<1>4. CASE UNCHANGED charVars
  BY <1>4 DEF charVars, fileVars
<1> QED
  BY <1>1, <1>2, <1>3, <1>4 DEF CharNext

(* A transfer ends only in EndIO: every other step begins one or goes on.  *)
LEMMA OnlyEndIOEnds ==
  ASSUME FileAssumption, IOInv, CharNext, NEW p \in Processes, io[p] # NoIO, io'[p] = NoIO
  PROVE  EndIO(p)
<1>1. p \in Callers /\ p # Handler
  BY FileAssumption DEF FileAssumption, Callers
<1>2. io' # io
  OBVIOUS
<1>3. ASSUME NEW q \in Processes, EndIO(q) PROVE EndIO(p)
  BY <1>1, <1>3 DEF EndIO, IOInv, Callers
<1>4. ~ \E q \in Processes : \/ Open(q) \/ OpenCrash(q) \/ Close(q)
                             \/ \E op \in {"read", "write"}, offset \in Offsets,
                                   length \in Lengths : BeginIO(q, op, offset, length)
  <2>1. ~ \E q \in Processes : Open(q) \/ OpenCrash(q) \/ Close(q)
    BY <1>2 DEF Open, OpenCrash, Close
  <2>2. ASSUME NEW q \in Processes, NEW op \in {"read", "write"}, NEW offset \in Offsets,
               NEW length \in Lengths, BeginIO(q, op, offset, length)
        PROVE  FALSE
    <3>1. io[q] = NoIO /\ io' = [io EXCEPT ![q] = IO(op, offset, length)]
      BY <1>2, <2>2 DEF BeginIO, CanCall
    <3> QED
      BY <1>1, <3>1 DEF IOInv
  <2> QED
    BY <2>1, <2>2
<1>5. ~ (BeginStray \/ Lifecycle \/ \E c \in Callers : MoveStray(c))
  BY <1>2 DEF BeginStray, MoveStray, Stray, fileVars, Lifecycle
<1>6. ASSUME NEW c \in Callers, MoveWord(c) PROVE FALSE
  <2>1. io'[p].op # "none"
    <3>1. io[p] = NoIO \/ io[p].op # "none" \/ c # p
      BY <1>6 DEF MoveWord
    <3>2. c = p
      BY <1>1, <1>6 DEF MoveWord, IOInv
    <3> QED
      BY <1>1, <1>6, <3>2 DEF MoveWord, IOInv, IORecord
  <2> QED
    BY <2>1 DEF NoIO
<1>7. ~ (IsrEnter \/ IsrNext)
  BY <1>1, <1>2 DEF IsrEnter, IsrNext, HandlerReads, Stray, fileVars, IOInv
<1> QED
  BY <1>3, <1>4, <1>5, <1>6, <1>7 DEF CharNext

(* chardev.c 182-277: a transfer ends only when its loop is through, so a  *)
(* count that is returned covers the request, and a read that has read     *)
(* nothing was asked for nothing.                                          *)
THEOREM CharNeverShort == CharSpec => NeverShort
<1>1. CharInit => IOInv /\ RetInv
  BY NoIOInside DEF CharInit, IOInv, RetInv
<1>2. IOInv /\ RetInv /\ [CharNext]_charVars => (IOInv /\ RetInv)'
  BY IOStep, RetStep, FileAssumption
<1>3. ASSUME IOInv, RetInv, [CharNext]_charVars
      PROVE  [\A p \in Processes :
                io[p] # NoIO /\ io'[p] = NoIO /\ io[p].length > 0 =>
                  ret'[p] = EFAULT \/ ret'[p] >= io[p].length]_charVars
  <2> SUFFICES ASSUME CharNext, NEW p \in Processes,
                      io[p] # NoIO, io'[p] = NoIO, io[p].length > 0
               PROVE  ret'[p] = EFAULT \/ ret'[p] >= io[p].length
    BY <1>3
  <2>1. EndIO(p)
    BY <1>3, FileAssumption, OnlyEndIOEnds
  <2>2. io[p].bytes \in Nat /\ io[p].length \in Nat
    BY <1>3 DEF IOInv, IORecord, Callers
  <2>3. io[p].bytes >= io[p].length /\ io[p].bytes # 0
    BY <2>1, <2>2 DEF EndIO, More
  <2>4. PICK r \in {io[p].bytes, EFAULT} : ret' = [ret EXCEPT ![p] = r]
    BY <2>1, <2>3 DEF EndIO
  <2> QED
    BY <1>3, <2>3, <2>4 DEF RetInv
<1> QED
  BY <1>1, <1>2, <1>3, PTL DEF CharSpec, NeverShort
=============================================================================
