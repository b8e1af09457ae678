# Verification of linux-pcie-dma

The repository holds an emulated PCIe co-processor that cleans *virtines*
(overwrites their memory with a snapshot), and the Linux driver that feeds it.
This directory holds TLA+ models of both, the TLC configurations that check
them, and TLAPS proofs. Line numbers refer to the repository's files.

## 1. Inventory

| Component | Source | State it keeps | Operations |
|---|---|---|---|
| Ring queues RQ and CQ | `qemu-fpga-char/virtine_fpga.c` 59-71, 546-667 | `buffer`, `head_offset`, `tail_offset`; no count | `reset_queue_pointers`, `next_element`, `pop_head`, `insert_tail` |
| MMIO handlers | same, 38-53, 129-324 | `split_return`, `split_write` (function-static), `doorbell`, `batch_factor`, snapshot size and address | one case for each register, read and write |
| Cleanup thread | same, 326-397 | `is_card_processing`, `num_virtines_cleaned_already`, its local `virtine_to_clean` | wait for the bell, then pop, clean, insert, interrupt until RQ is empty |
| Realize and uninit | same, 399-497 | `stopping`, the lock, the condition, MSI | create the thread; stop, join, destroy |
| Device file | `fpga-char/chardev.c` 123-320 | `fpga_device.filep`, a private struct for each open, references to the module | open, release, read, write, four ioctls |
| Interrupt handler | `fpga-char/fpga_char_main.c` 205-237 | the array of fetched addresses | read CQ until it returns 0 |
| Probe and remove | `fpga_char_main.c` 36-203, 239-252, `chardev.c` 49-121 | `fpga`, the region, vectors, IRQ, mapped BAR, char device, node; `fpga_dev`, drvdata | acquire in order, roll back from where a call fails, release |
| pcie-echo | `pcie-echo/pcie_fpga_echo.c` | its own `fpga`, region, drvdata of the same card | the same for a smaller set |
| Test programs | `fpga-char-test/` | none | open, one pread, pwrite or ioctl, exit |
| sample-char, hello-world, example | their directories | tutorial drivers | independent of the card |

How they interact:

* A program's call on `/dev/virtine_fpga` is a series of 32-bit register
  accesses. The driver takes no lock, so accesses of other programs and of the
  interrupt handler come in between.
* QEMU runs each access as one handler call, **with its iothread lock held**.
  Two cases take `processing_lock` inside it (171, 254), and so does `uninit`
  (483).
* The cleanup thread holds `processing_lock` from its test of the doorbell to
  the end of a round, and takes the iothread lock inside that for `msi_notify`
  (380).
* The interrupt reaches the guest later and independently, and starts the
  handler, which reads CQ through the device file that was opened last.
* `fpga_char` and `pcie_echo` name the same vendor and device, so the kernel
  offers the card to each loaded driver in turn until a probe does not fail.
* An open file keeps its module loaded, but not the card plugged in: when the
  card is lost, `fpga_remove` runs under the open files.

What is hard about it: two locks taken in both orders; a condition that is
signalled without its lock; queues in which head = tail means both full and
empty; 64-bit addresses that always travel as two halves through one static
variable; a pointer to a file that does not follow the file's life; interrupts
that arrive in the middle of the work for the previous one; removal while all
of this runs; thirteen calls of a probe that can each fail, with two chains of
labels to undo them; a device node that exists before what it leads to does. `PROJECT.json` lists each of these at its line under `hazards`.

What makes each component correct:

* **Queue**: it is a bounded FIFO; full and empty are told apart; no slot
  outside head..tail holds a virtine.
* **Card**: what is handed in comes back once and in order; an interrupt
  announces something; bells are answered; locks are held where shared state is
  touched; removal stops the thread first and finishes.
* **Driver with card**: virtines are conserved from `pwrite` to the handler; no
  clean virtine is left behind without an interrupt; the handler uses only
  things that exist, and its array holds what it fetches.
* **Probe and remove**: a probe that claims the card owns what its remove
  releases; a roll back releases what was acquired; nothing that stays behind
  hinders a later load; files and handler find the device as long as it is there.

## 2. Modules

| Module | Models |
|---|---|
| `Hwaddrs` | A 64-bit `hwaddr` as two 32-bit words. A word is the set of its 1 bits, so that C's `\|` is `\cup` and 0 is `{}`. |
| `RingQueue` | `struct virtine_ring_queue` and its helpers as operators, and the abstraction `Contents` of a queue to a sequence. |
| `RingFifo` | One queue under any sequence of `insert_tail` and `pop_head` calls. |
| `BoundedFifo` | Abstract: what `RingFifo` promises. |
| `VirtineFpga` | The card: handlers, cleanup thread, uninit. |
| `CleanupService` | Abstract: what the card promises a guest. |
| `FpgaChar` | The driver composed with the card (it extends `VirtineFpga`): device file, interrupt handler. |
| `PciDrivers` | Both PCI drivers and the kernel's driver core: load, probe, roll back, remove, unload, a card that comes and goes. |
| `CharFile` | The device file and the handler over the life of the driver (it extends `PciDrivers`). |
| `MCRingFifo`, `MCVirtineFpga`, `MCFpgaChar`, `MCCharFile` | Instances for TLC: guests as sets of register accesses, programs as sets of calls. |
| `RingQueueProofs`, `RingFifoProofs`, `VirtineFpgaProofs`, `CardServiceProofs`, `FpgaCharProofs`, `CharFileProofs`, `CharLifeProofs`, `CharOwnProofs` | Lemmas and theorems. |

**Correspondence, card.** The variables have the names of the fields. `thread`
is the cleanup thread's program counter, named for what it does next, and
`unplug` that of `virtine_fpga_uninit`; `vcpu[c]` is the access CPU `c` is
executing. A step is the code between two operations on state another party can
see. `MmioEnter` is QEMU taking the iothread lock and calling the handler; each
case of the two `switch` statements is then one action that performs the case
and gives the iothread lock back. A critical section on `processing_lock`
inside a case is one step, whose guard is that the lock is free: until then the
CPU waits, with the iothread lock held. Ringing the bell is two steps
(`WriteDoorbell`, `SignalDoorbell`), because the thread can move between them;
the thread's wait loop is `ThreadCheck` and `ThreadSleep`, for the same reason.
`CondSignal` wakes only a thread that sleeps. Counts (`batch_factor`,
`num_virtines_cleaned_already`) are numbers; reading `BATCH_FACTOR_REG` or
`MAX_NUM_VIRTINES_REG` returns some word, because nothing depends on it.

**Correspondence, driver on the card.** `FpgaChar` has the calls that the three
test programs make: 8-byte `pwrite` and `pread` at any register, and the ioctls.
`NextRegister` says which register the second half of such a call meets. A call
puts the accesses it makes into `todo`, and `NextAccess` issues them one after
the other. Reads assemble an address from
`low` and the word read last. `filep` is the process whose `open` set
`fpga_dev->filep` last. `IsrEnter` takes the interrupt (one handler at a time,
as Linux runs it); through a closed file it either works or faults (`oops`),
because the file's memory has been freed. A fault in an interrupt stops the
kernel, so after `oops` nothing happens any more. `IsrNext` is one turn of the
handler's loop, which keeps a virtine in `clean_virtines`; when the handler is
done these are free to be handed in again. (Nobody in the repository reads the
array: this is what it is for.) `given` is a history variable: the virtines handed in that have
not come back. A program hands in a virtine again only after it came back.

**Correspondence, probe and remove.** `PciDrivers` turns straight-line code into
data. A probe is a table of the calls it makes, each with the label to which its
failure jumps and whether `error` is set then; a roll back is the chain of
releases that such a label falls into, those of `create_char_devs` first; a
remove is a chain that is always run from its start. `task` says where the one
probe or remove is, as the driver core runs them under the device's lock.
`Succeeds` and `Fails` are the two outcomes of the next call. Failures follow the
code, not its intention: `class_create` answers `ERR_PTR` and the code looks for
NULL, so a failure is followed (`"crash"`); `device_create` and the echo driver's
`ioremap` are not looked at (`"ignored"`); a failing `ioremap_uc` leaves `error`
at the 0 of `request_irq` (`Quiet`), so that the probe rolls back and then claims
the card with nothing, and `fpga_remove` follows a NULL drvdata
(`RemoveCrash`). `held` is what the last probe owns, `left` what earlier ones
lost. What has been left claimed of the card's region may be refused to
anybody; it need not be, as `pci_request_region` gets a mask of BARs for a BAR
number.

`CharFile` puts the device file and the interrupt handler beside it. A read or
write is one word in each step, for any offset and length; `FileUsersFindDevice`
and the others look at whether `fpga` and the mapping are there at that step.
`pins` counts the references to the module, one from the kernel and one from
`fpga_char_open` for each open file; `rmmod` waits for them, the loss of the card
does not, and `free_irq` waits for a running handler. Who follows a pointer into
nothing is recorded in `bad` and does not go on.

**Mistakes.** Operators introduced by "A plausible mistake" are not part of the
specifications. Each is the mutated form of a definition, by which the
properties are shown to be able to fail.

## 3. Runs

| Run | Checks | Result |
|---|---|---|
| `ring_fifo` | `TypeOK`, `RingWellFormed`, `ImplementsFifo` | holds |
| `card_safety` | `TypeOK`, `LockDiscipline`, `CqWellFormed`, `CleanedBound`, `NotifyFindsWork`, `NotifyOnlyWhileMsiReady`, `UninitIsLast` | holds |
| `card_service` | `ImplementsService` (refinement of `CleanupService`), `SnapshotWhole` | holds |
| `card_liveness` | `BellWakesSleeper`, `RoundEnds`, `UnplugCompletes` | holds |
| `driver_io` | `DriverTypeOK`, `Conservation`, `NoStrandedCompletion`, `FetchedFitsArray` | holds |
| `char_driver` | `CharTypeOK`, `ClaimOwnsAllButFailed`, `OwnsWhatItReleases`, `LeftBehind`, `TransferStaysInside`, `FileUsersFindDevice`, `HandlerFindsDevice`, `NeverShort` | holds |
| `card_goes_on` | `CardGoesOn` (line 394: "Repeat this forever") | violated: lock-order deadlock |
| `bell_answered` | `BellIsAnswered` (lines 86-87) | violated: lost wakeup |
| `card_flag` | `SleepingCardIsIdle` (lines 97 and 347) | violated: flag left set |
| `cleaned_is_kept` | `CleanedIsKept` (lines 91-92) | violated: CQ overflow |
| `torn_read` | `ReadsWholeAddress` (lines 133-138) | violated: halves mix |
| `handler_file` | `HandlerHasOpenFile` (`fpga_char_main.h` 26) | violated: closed file used |

**What the violated ones show.**

1. `card_goes_on`: the thread has cleaned a virtine and wants the iothread lock
   for its interrupt; a CPU reading `CQ_HEAD_OFFSET_REG` has that lock and wants
   `processing_lock`. Neither continues, and with the iothread lock gone QEMU
   as a whole stands still. Writing `RQ_TAIL_OFFSET_REG + 4` and unplugging do
   the same.
2. `bell_answered`: the bell rings after the thread read `doorbell` (335) and
   before it sleeps (336). The card sleeps with the doorbell rung.
3. `card_flag`: a bell with RQ empty sets `is_card_processing` and nothing
   resets it.
4. `cleaned_is_kept`: with CQ full the result of `insert_tail` (367) is
   dropped, and the virtine with it.
5. `torn_read`: the handler's and a program's reads of CQ interleave, and
   `split_return` gives the high half of one address to the reader of the other.
6. `handler_file`: the program that opened the file last closes it (or exits,
   as the test programs do); the next interrupt reads through its struct file.

The properties that hold are stated around these: `LockCycle` names the
deadlock, so that `card_liveness` says that it is the *only* way in which a
round or a removal does not end; `BellWakesSleeper` is the part of the bell's
promise that the missing lock does not spoil; `NotifyFindsWork` and
`ImplementsService` say that a full queue is the only place where virtines get
lost; `Conservation` says that with a single writer and a single reader the
unlocked driver loses nothing. `FetchedFitsArray` needs that no more virtines
circulate than the array has entries; a program that makes up more of them while
the handler runs overruns it. `SnapshotWhole` excepts the time of the four
writes themselves, in which the thread can copy a mixture.

`char_driver` finds the code's error paths better than they look, and says
exactly where they are not. A probe that claims the card owns all its remove
releases, except after the quiet failure of `ioremap_uc`. The roll back releases
at worst what the probe has just failed to get (`free_irq` of an interrupt that
was not requested). A failed request for vectors or for the interrupt is the
only thing that keeps the region claimed over an unload. A file user goes
astray only in an open between `device_create` and the assignment of `fpga_dev`,
or after the card is lost; the handler only if the file opened last is not open,
or after the card is lost. These exceptions are real behaviours of the code: the
properties are violated without them.

### Bounds

* `NUM_POSSIBLE_VIRTINES` is 100 in the code, 4 in `ring_fifo` and 2 in the
  others: enough to wrap, to be full, and for a non-empty queue that is not full.
  The theorems hold for every value above 1.
* `Bits = {b1}`: one bit for each half, hence three virtine addresses and 0. Two
  different addresses whose halves differ are what tearing needs.
* `BatchFactors` is `{1, 3}` in `card_safety` (more than a queue holds), `{2}` in
  `driver_io`, where the card starts with 1 and a program may change it, else `{1}`.
* `driver_io` and `card_service` have two virtines, as many as a queue and the
  array have room for, one of them below 4 GB. `card_service` has one snapshot
  beside the one of realize: mixtures of the two are possible. The batch factor
  has no part in what the service promises, nor the snapshot in what `driver_io`
  checks, so each is left out of the other run.
* `CPUs`: two for `card_safety`, with symmetry between them (its properties are
  invariants); one for liveness, where several CPUs differ from one only by the
  order in which they get the iothread lock. `driver_io` and `card_service` have
  two programs and the handler.
* Guests are sets of accesses with no order imposed: `SmallGuest` writes either
  half, so also 0 and half-old addresses; `HighGuest` has a high half that is
  never 0, so it never hands in 0; `PollingGuest` adds the registers no
  property depends on.
* `MaxFaults` = 1 in `char_driver`: one call of one driver fails, in any of its
  probes; the region that stays claimed then makes further ones fail. Any of the
  thirteen calls may be the one. `MaxEnables` = 3 bounds the kernel's count of
  enables, which every successful load raises by two and every unload lowers by
  one: three probes in a row, of either driver.
* `Offsets` `{0, 2}` and `Lengths` `{0, 6}`: aligned or not, nothing, and a length
  that ends inside a word. What a transfer does depends on nothing else;
  the theorem about it is for all. The two programs are symmetric.
* No other counter is capped: `num_virtines_cleaned_already` is bounded by the
  property `CleanedBound`, and all else is finite.
* Deadlock checking is off in the card's and driver's runs because these systems
  do stop: after removal, in the lock cycle above, and after a fault in the
  handler. `card_liveness` and `card_goes_on` say when.

### Fairness

`FairSpec` assumes weak fairness of the thread, of each handler once entered and
of uninit once begun (host threads that can run do run), and strong fairness of
taking a lock (`ThreadLock`, `ThreadIrqLock`, `ReadCqHead`, `WriteRqTailHi`,
`UnplugStop`): a mutex that becomes free again and again is obtained in the end.
POSIX mutexes do not promise this by name; the lock is contended by a few
threads that do other work in between, and without it even a correct round could
be starved. Nothing is assumed of the guest, of spurious wakeups, or of anybody
asking for removal. The violated liveness properties fail under the same
fairness.

## 4. Proofs

| Theorem | States |
|---|---|
| `RingFifoTypeOK`, `RingFifoWellFormed` | The queue's invariants |
| `RingImplementsFifo` | `RingFifo` implements `BoundedFifo` |
| `CardTypeOK`, `CardLockDiscipline` | Types and lock ownership of the card |
| `CardNotifyOnlyWhileMsiReady`, `CardUninitIsLast` | Removal |
| `CardCqWellFormed`, `CardCleanedBound`, `CardNotifyFindsWork` | CQ, batches and interrupts |
| `CardImplementsService` | `VirtineFpga` implements `CleanupService`, for guests that write no high half of 0 |
| `DriverIsGuest` | Every behaviour of `FpgaChar` is one of `VirtineFpga`: the driver is one of its guests |
| `CharDriverTypeOK`, `CharNoStrandedCompletion` | Types of driver and card; no clean virtine left without an interrupt |
| `CharImplementsService` | `FpgaChar` implements `CleanupService`, for programs of which one hands virtines in |
| `CharSnapshotWhole` | No mixture of two snapshots is used, if one program sets them |
| `CharConservation`, `CharFetchedFitsArray` | Virtines are conserved from `pwrite` to the handler, whose array holds what it fetches |
| `CharTransferStaysInside`, `CharNeverShort` | Reads and writes of the device file, for all offsets and lengths |
| `CharFileTypeOK` | Types of both drivers and the device file, the enable count and the module's references |
| `CharClaimOwnsAllButFailed`, `CharOwnsWhatItReleases`, `CharLeftBehind` | What probes and removes own, release and leave, over any number of failures and reloads |
| `CharFileUsersFindDevice`, `CharHandlerFindsDevice` | Who uses the device finds it there, for any number of processes, failures and reloads |

Assumptions: `NumAssumption` (more than one slot), `BitsAssumption` (a word has a
bit), `ActorsAssumption` (the parties are different), `HostAssumption` (the
guest makes 32-bit accesses to registers and writes batch factors out of
`BatchFactors`), `SnapshotAssumption` (realize allocates the first snapshot),
`DriverAssumption` and `GuestAssumption` (the card's guest is the driver's
programs and handler, and may make the accesses they make), `DriversAssumption`
(the steps of a probe that are assignments do not fail) and `FileAssumption`
(the handler is no process; offsets and lengths are numbers). So the theorems hold for 100 slots, 32-bit
words, any number of CPUs or programs and any guest. Every invariant, action property and refinement that a
passing run checks is the statement of one of them; liveness is not.

Some theorems have a hypothesis of their own about who calls what. Each names
one of the places where the code shares state without a lock or drops what does
not fit. Each holds in the run that checks the property:

| Hypothesis | Says | Needed by | Without it |
|---|---|---|---|
| `HighHalves` | no high half of 0 is written to RQ | `CardImplementsService` | address 0 makes a hole in RQ |
| `OneWriter` | one program hands virtines in, nobody else writes that register | `CharImplementsService`, `CharConservation`, `CharFetchedFitsArray` | halves of two addresses meet in `split_write` |
| `OnlyHandlerFetches` | no program reads `CQ_HEAD` | `CharNoStrandedCompletion`, `CharConservation`, `CharFetchedFitsArray` | a program takes the handler's work away, or half of an address (`torn_read`) |
| `OneSetter` | one program calls `SET_SNAPSHOT`, nobody else writes those registers | `CharSnapshotWhole` | halves of two snapshots stay in the registers |
| `VirtinesFit` | no more virtines exist than a queue has slots | `CharConservation`, `CharFetchedFitsArray` | a full queue drops virtines (`cleaned_is_kept`), the array is overrun |

`CharFileTypeOK` asks for finitely many processes, because `CharTypeOK` bounds
the module's references by their number. `CharImplementsService` is not a case of
`CardImplementsService`: the driver's programs may hand in virtines below 4 GB,
whose high half is 0, and it is the order of the driver's two writes, and not the
values, that keeps 0 out of RQ.

The argument:

* *Queue.* `WellFormed` says that exactly the slots at a distance below
  `Occupancy` from head hold a value. It is inductive, and it is what makes the
  code's value test right at head = tail (`ValueTests`). `InsertTailEffect` and
  `PopHeadEffect` compute the queue each helper leaves; from these
  `InsertTailAppends` and `PopHeadTakesFirst` show that `Contents` changes as a
  FIFO does, and each step of `RingFifo` is then a step of `BoundedFifo`.
* *Card.* `TypeOK` needs `BatchWrites`: a count that travels in an access is one
  the guest may write. `LockDiscipline` is inductive with `TypeOK`: it ties each
  lock to the places that hold it.
* *Removal.* The thread can only be in `notify` with the iothread lock, which
  uninit holds from `msi_uninit` to the end of the join; `UninitInv` adds that
  the thread has ended and no CPU is in a handler when uninit has finished.
* *Batches.* `CqWellFormed`, `CleanedBound` and `NotifyFindsWork` do not stand on
  their own. `QueueInv` adds that a virtine being cleaned is not 0, that the
  count is strictly below some batch factor outside `Counted`, and that CQ ends
  in the virtine just cleaned everywhere between its insertion and its
  interrupt. It needs `LockDiscipline`: only because the thread keeps
  `processing_lock` through the interrupt does no CPU pop in between.
* *Service.* With `HighHalves` what is handed in is never 0, so RQ stays
  `WellFormed`, and CQ is by `CqWellFormed`. The refinement maps the queues to
  their `Contents`; `InsertTailAppends` and `PopHeadTakesFirst` turn each step of
  card and handlers into a step of the service or a stutter. What these lemmas
  need of the guest is `WholeAddresses`: the write of a high half completes an
  address.
* *Driver on card.* Each step of `FpgaChar` makes the accesses in `todo`, which
  `GuestAssumption` lets the guest make, or leaves the card alone
  (`DriverStepIsCardStep`). So `DriverIsGuest` carries the card's invariants over.
* *No stranded completion.* Three invariants: no program is in a call that reads
  CQ (`ProgramsInv`); what the handler is doing follows from `todo`, its `vcpu`
  and `low` (`HandlerInv`); and where neither an interrupt is pending nor
  the handler has a chance to see a further virtine, CQ holds at most as many as
  were cleaned since the last interrupt (`BatchInv`). The delicate step is the
  handler's last read: it found CQ empty, and what the thread inserts after that
  counts for the next interrupt.
* *Calls on shared registers.* A call is a few writes between which anybody else's
  accesses come. `OwnStep` and `OthersStep` say that what a program has to do
  changes only by its own steps, `QuietStep` that a program in other calls stays
  away from a set of registers. `WriterInv` follows the two writes of a `pwrite`
  (`Writer`) and says what `split_write` holds after the first. That gives
  `WholeAddresses`, and so the service. `SnapshotInv` does the same with the four
  writes of `SET_SNAPSHOT` (`Setter`); with nobody in that call the registers hold a
  whole snapshot.
* *Conservation.* To count the copies of a virtine is not inductive by itself: a
  count does not say where the copy is. `FlowInv` names the places that can hold
  one (the slots of both queues, a `pwrite` under way, the thread's local
  variable, the handler's read, an entry of its array) and says that every
  virtine given is in one place, no place holds any other, and no virtine is in two
  (`Once`). A step moves a virtine from one place to a free one, lets one
  appear in a `pwrite` that begins, or clears the array (`Moved`, `Stayed`,
  `Appeared`, `Vanished`). That the place is free is the point: a virtine outside a
  queue leaves fewer than its slots for the virtines in it, so `insert_tail` finds
  room (`Room`, by the pigeonhole principle and `VirtinesFit`). The array's
  entries hold different virtines, so it fits for the same reason.
* *Transfers.* Each caller's transfer is on whole words and less than a word
  past its length (`Inside`); a step touches one caller's. Only the end of the
  loop or a failing copy ends it (`OnlyEndIOEnds`), hence `NeverShort`.
* *Life of the device.* The properties speak of accesses; the invariant has to
  say of every place of a probe what is owned there. `OwnInv` does: how far
  `fpga_probe` has come decides whether `fpga`, the mapping, the node and
  `fpga_dev` are held, and node or `fpga_dev` are held by nobody but
  `fpga_probe` and the bound `fpga_char`, never in a roll back. That holds since
  no step after the node's can fail (`FailsStep`). `FileInv` adds that each open
  file has two references, so `rmmod` is held off, and that the device is there
  as long as a file is open and the card is not lost (`DeviceStays`).
  `FpgaProbeTable` and its like are all that is used of the tables.
* *What probes own.* `OwnsInv` speaks of positions: a probe at step `i` holds what
  the steps before `i` acquire, less what failed (`Acquired`); a roll back or a
  remove at `i` holds what the chain from `i` on releases (`Rest`), and what the
  chain forgets. The tables of labels decide whether the two agree when a call
  fails; `FpgaFailure` and `EchoFailure` go through them call by call. The
  exceptions are in the invariant too: the private struct, the region after a
  failure of vectors or interrupt, and a driver that claims with nothing, which
  only a failed mapping leads to. `EnableInv` ties the kernel's count of enables
  to the position, and `PinInv` counts two references for each open file.

Only model-checked: the liveness properties `BellWakesSleeper`, `RoundEnds` and
`UnplugCompletes` (the prover handles neither fairness nor `ENABLED`), and that
the code violates the six statements of the other runs. Statements by induction over data, what a queue contains after n calls for one,
are out of the prover's reach and are stated as invariants and refinements
instead.

## 5. Not modelled

* The bytes of snapshot and virtine: DMA is a part of `ThreadClean`. The bytes in
  users' buffers, and so what a read of other lengths than 8 delivers.
* 64-bit register accesses, which the card's region accepts and no code of the
  repository makes.
* Which BAR `pci_request_region` claims, rebinding through sysfs, a second card,
  and a card that is plugged in again after it was lost.
* An open that finds no memory: it returns and changes nothing.
* Memory ordering: `doorbell` and `is_card_processing` are accessed with
  `qatomic_*`, everything else the thread shares is accessed under a lock, or is
  a word (`batch_factor`, slots read by the polling registers).
* realize's failure paths; the thread running before the first snapshot exists
  (no bell can ring then).
* sample-char, hello-world and example: not part of the system. sample-char is an
  introduction to character devices that its own README (line 69) calls very poor,
  hello-world logs two lines, and example is third-party code.

## 6. Plan

Done, in this order: `Hwaddrs`, `RingQueue`, `RingFifo`/`BoundedFifo`;
`VirtineFpga` with `CleanupService`; `FpgaChar`; the proofs of the first two;
`PciDrivers` and `CharFile`; the handler's array, the snapshot and the other
registers in `FpgaChar`; the proofs of the refinement, of `FpgaChar`, of
transfers, and of the life of the device; the proofs of conservation, of the
snapshot, of the service under the driver, and of what probes and removes own.

Left:

1. A `copy_to_user` that fails after the read has popped CQ (`chardev.c` 233),
   with the card below it.
2. realize's failing `msi_init`.
