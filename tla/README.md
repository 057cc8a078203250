# A verification of AXPbox

AXPbox emulates an AlphaServer ES40: up to four Alpha CPUs on a Tsunami
chipset, with PCI devices behind it. This directory holds TLA+ modules of
its components, TLC configurations that check them on small instances, and
theorems, proved by TLAPS for every size, about what most of the runs
check. `PROJECT.json`
relates every definition to the lines it models, every property to the hazard
it is for, and lists the mutants that show that each property can fail.

Run a check with `tlc -config Nic.cfg MCNic`, a proof with
`tlapm ProcessorProofs.tla`. A path such as `System.cpp:1773` is below
`src/src/`.

## The system

One process. `CSystem` owns the memory, the Tsunami registers and a table of
components. Each CPU, network interface, disk controller, serial port and the
ALi chipset runs a thread of its own; the main thread looks every 100 ms
whether one has died (`CSystem::Run()`). They call each other directly: a
guest instruction of a CPU becomes `CSystem::WriteMem()`, which becomes a
method of a device *in the CPU's thread*, while the device's own thread works
on the same fields. Few of these fields are locked. That is where most of what
can go wrong here goes wrong.

| Component | State | Operations | Interacts with |
|---|---|---|---|
| Cchip (`System.cpp`) | DRIR, DIMn, MISC | `interrupt()`, `cchip_csr_write()`, `clear_clock_int()` | every device thread calls `interrupt()`; it drives the pins of every CPU |
| CPU pins (`AlphaCPU`) | EIR, timers, `check_int`, `check_timers` | `irq_h()`, `execute()` | own thread and all callers of `interrupt()` |
| Lock flags (`System.cpp`) | `cpu_lock_flags`, addresses, mutex | `cpu_lock()`, `cpu_unlock()`, `cpu_break_lock()`, `WriteMem()` | all CPUs, devices that write memory |
| Translation buffers (`AlphaCPU.cpp`) | entries, last found, next | `FindTBEntry()`, `add_tb()`, `tbia()`, `tbiap()`, `tbis()` | PALcode of the guest fills and invalidates |
| Instruction fetch (`AlphaCPU.hpp`) | lines, PC, `pc_phys`, `rem_ins_in_page` | `get_icache()`, `next_pc()`, `set_pc()`, flushes | `LoadROM()` switches the cache |
| Pchip windows (`System.cpp`, `PCIDevice.cpp`) | WSBA, WSM, TBA, PCTL | `PCI_Phys()`, `do_pci_read()`, `do_pci_write()` | every bus master |
| PCI configuration (`PCIDevice.cpp`) | registers, masks, ranges | `config_read()`, `config_write()`, `register_bar()` | the system's memory map |
| Network (`DEC21143.cpp`, `Ethernet.cpp`) | CSRs, both rings' positions, queue, SROM, MII | `nic_read()`, `nic_write()`, `run()`, `dec21143_rx()`, `dec21143_tx()`, `ResetNIC()` | CPU thread, network thread, capture callback |
| Interrupt controllers (`AliM1543C.cpp`) | asserted, mask, mode | `pic_interrupt()`, `pic_deassert()`, `pic_write()`, `pic_read_vector()` | ISA devices in any thread; line 55 of the Cchip |
| Interval timer (`AliM1543C.cpp`) | counter, max, status, mode | `pit_write()`, `pit_clock()` | ALi thread and CPU thread |
| TOY clock, printer port (`AliM1543C.cpp`) | registers | `toy_read()`, `toy_write()`, `lpt_*` | |
| IDE (`AliM1543C_ide.cpp`) | per channel registers, data, two semaphore pairs | `ide_*_read()/write()`, `execute()`, `do_dma_transfer()` | CPU thread, a thread per channel |
| SCSI (`SCSIBus`, `Disk`, `Sym53C810`, `Sym53C895`) | phase, initiator, target; registers, SCRIPTS state | `arbitrate()`, `select()`, `set_phase()`, `free_bus()`, `execute()`, `eval_interrupts()` | CPU thread, SCRIPTS thread |
| Serial, keyboard, floppy, DMA, flash, DPR | registers, ring buffers | `ReadMem()`, `WriteMem()`, `receive()`, `execute()` | socket or window threads, PIC |
| State files (`System.cpp`) | | `SaveState()`, `RestoreState()` | every component, in order |
| Memory map (`System.cpp`) | registered ranges, chipset registers | `ReadMem()`, `WriteMem()`, `RegisterMemory()` | every access that is not to memory |
| Threads (`System.cpp`, `run()` of each) | `StopThread`, semaphores | `Run()`, `start_threads()`, `stop_threads()`, `check_state()` | main thread, all others |
| PALcode (`cpu_pal.hpp`, `AlphaCPU_vmspal.cpp`) | internal registers, modes, stacks, contexts | `HW_MTPR`, `HW_MFPR`, `vmspal_call_*()`, `vmspal_ent_*()`, `virt2phys()` | translation buffers, interrupts |
| Instructions, floating point (`cpu_*.hpp`, `AlphaCPU_*float.cpp`, `es40_float.hpp`) | registers, FPCR | one per instruction | PALcode by traps |
| Graphics (`S3Trio64.cpp`, `Cirrus.cpp`), windows (`gui/`) | register files, planes, latches, marks of tiles, text snapshot | `io_write_b()`, `vga_mem_write()`, `update()`, `text_update()` | CPU thread, adapter's thread, window |
| Configuration, tracing, base library | | | |

What makes each of them correct, and what is hard about it:

* **Interrupts.** A request that stays asserted must reach the CPU, and one
  that has gone must not; through a raw register, masks, a countdown of 100
  instructions, two flags that let `execute()` skip work, and an interval clock
  that re-evaluates everything. All of it is unlocked.
* **Locks.** A store-conditional may only succeed if nobody wrote the block,
  although the check in `WriteMem()` is not atomic with the store.
* **Translation and fetch.** Caches with a "found last" shortcut: nothing old
  or foreign may be used.
* **Windows.** A transfer is translated chunk by chunk.
* **Network.** Frames may not be lost, repeated, torn or reordered when the
  ring is full or the interface is reset; the two sides of a ring agree by one
  bit; poll demands race with suspension; CSR5 is updated by two threads.
* **Interrupt controllers and timer.** The line must cover what is pending;
  a byte-wise programming sequence races with a clock.
* **IDE, SCSI.** Hand-shakes by semaphores and phases between a thread that
  executes a command and a CPU that may start the next at any time.
* **Serial, keyboard.** Rings at their limits, interrupts evaluated twice.
* **State files.** Compression at the boundaries of runs; files of other systems.
* **Threads.** A stop in the middle of a hand-over, and the start after it.
* **Addresses.** Windows that move, overlap and alias; interrupt lines that are
  renamed while asserted.
* **PALcode.** Nested returns, each saving a stack that another one loads; masks
  and requests whose combination must not go unseen; faults inside the handlers
  of faults.
* **Numbers.** Overflow, rounding, carries into the exponent, denormals.
* **Graphics.** What was derived from registers, and what was marked, follows
  the last write although another thread draws meanwhile.

`PROJECT.json` lists the hazards line by line.

## Modules

What counts as a step, and what the data has become, module by module.

| Module | Models | How |
|---|---|---|
| `Interrupts` | `interrupt()`, `irq_h()`, `execute()` up to the instruction, writes to DIM, MISC and IER | An instruction is four stages, `clock`, `timers`, `ints`, `instr`. A call of `interrupt()` is one step. `cpu[c]` holds what decides about interrupts; the rest of the CPU is a `Jump` |
| `InterruptThreads` | the same calls, load by load | Every `\|=` is a load and a store; `call[t]` is the program counter of a thread inside a call. Masks and enables are all on |
| `LoadLocked` | lock flags, `WriteMem()` | The mutex is modelled, the unlocked reads are steps. Addresses are the 256-byte blocks that are compared |
| `TranslationBuffer` | one buffer of a CPU | An entry maps a page or a block of two. The guest's page tables and its discipline are external actions |
| `InstructionFetch` | `get_icache()` with and without cache | A line holds one instruction; memory holds two values of an instruction |
| `VmsPal` | the replaced VMS PALcode: modes, stacks, REI, CHMx, SWPCTX, ASTs, software interrupts | A routine is a step; a frame is a record on the stack of its mode |
| `VmsFault` | `virt2phys()`, the handlers of misses and faults, PROBER, PROBEW | A page table of a directory and entries; every access of every kind in every table is checked against what the tables say |
| `PalRegisters` | `HW_MTPR`, `HW_MFPR`, the functions of `HW_LD` and `HW_ST` | A quadword is the set of its bits |
| `Operate` | overflow, high product, shifts, counts, bytes, multimedia instructions | Quadwords of four bytes of two bits, against arithmetic on numbers |
| `Float` | IEEE and VAX units of `HAVE_NEW_FP`, and the conversions and conditions of the default unit, through the host's doubles | A register is sign, exponent, fraction; the reference is the number it stands for, as a ratio |
| `SystemMap` | `ReadMem()`, `WriteMem()`, Cchip, Dchip, Pchips, TIGbus; and `PCI_Phys()` and bulk DMA | An address is its upper and lower 24 bits, a value the set of its bits; the addresses of a bus master have four bits, as sets, so that masking is intersection |
| `Pci` | `config_write()`, `register_bar()`, `RegisterMemory()`, `do_pci_interrupt()` | Two devices, one with windows of its own; values of base address registers are numbers |
| `StateFile` | `SaveState()`, `RestoreState()` of the system and of each component | A turn of the loop over memory, or a component, is a step |
| `Threads` | `Run()`, `start_threads()`, `stop_threads()`, `run()` of CPU, IDE, SCSI and the rest | `thread[c]` is the next step of a component's thread; semaphores have the maximum of one, and to set one at it throws: in the main thread the emulator has `failed`, in a CPU's the CPU is `dead` |
| `NicReceive` | `dec21143_rx()` | A frame is an identity and a number of parts; descriptors are slots of a ring with OWN |
| `NicTransmit` | `dec21143_tx()`, poll demands | Ways to lay a frame out in descriptors are enumerated |
| `NicStatus` | CSR5, CSR7, `run()`'s interrupt | Events are names; updates are loads and stores |
| `NicSerial` | `srom_access()`, `mii_access()` | Bit by bit; contents are symbolic |
| `PacketQueue`, `Fifo` | `CPacketQueue`, and what it promises | A ring with head, tail and count implements a sequence |
| `Ide` | a channel: registers, `execute()`, `ide_raise_interrupt()`, bus master, both semaphore pairs | A sector is one word of the data register; tracks of two sectors; the driver goes by BSY, DRQ and the interrupt, not by where the thread is: `overtaken` records that it has ever gone on before the thread was through |
| `Sym53C8xx` | SCRIPTS of a command, `Disk`, `SCSIBus`, both interrupt levels, the timer | The thread tests `executing`, takes the lock and executes an instruction, in two steps; the program is that of a driver, whose starts and signals come at any moment: `overran` records an instruction after a halt, and a semaphore that is set already ends the CPU's thread (`dead`) |
| `SymScripts` | the other SCRIPTS instructions: registers, memory, calls, jumps; single step, abort | Registers of two bits, written byte by byte; programs are enumerated |
| `Pic` | both 8259s | A call is a sequence of steps that threads interleave |
| `Pit` | counters 0 and 2 | Bytes of two bits; the thread's and the CPU's loads and stores |
| `Toy` | `toy_read()`, `toy_write()` | The host's clock is a sequence of times |
| `Serial` | `execute()`, `receive()`, `eval_interrupts()`, `ReadMem()` | The index and the byte of the ring are separate stores; the connection brings tokens |
| `Keyboard` | controller, keyboard, mouse, and the thread that promotes bytes | A call is a step; a byte is named for what it belongs to |
| `Floppy` | the floppy controller and its DMA channel | Byte by byte |
| `Flash`, `Dpr` | the flash memory; the dual-port RAM with its commands, unit data and CPU headers | A driver that may give up, and accesses in between |
| `VgaAdapter` | `vga_mem_read()`, `vga_mem_write()`; `io_write_b()`, `io_read()` | Two planes of two-bit bytes; every write mode, against a definition per pixel. The files of registers and what is derived; an interrupt may come between index and data |
| `VgaScreen`, `VgaText` | marks of tiles, `update()`, `text_update()` | The adapter's thread and the CPU's, access by access |
| `ProcessorProofs`, `InterruptThreadsProofs`, `NicProofs`, `NicReceiveProofs`, `NicTransmitProofs`, `StorageProofs`, `ProgressProofs` | | theorems about the parts of `MCProcessor`, about `InterruptThreads`, about the parts of `MCNic`, about the disk controllers of `MCStorage`, and about threads; those about `LoadLocked` are in its own module |
| `MC*` | | values of constants, and compositions |

`PacketQueue` is to `NicReceive` what `Fifo` is to `PacketQueue`: the receive
path uses the sequence, and the refinement shows the array behind it to be one.
`Sym53C8xx` composes controller, bus and disk; `Threads` the main thread with
the threads of four components; `Floppy` its controller with the DMA controller.

`MCNic`, `MCProcessor`, `MCProgress`, `MCResults` and `MCStorage` put parts
that share no state side by side: a constant-valued variable `part` chooses, in
the initial state, which part a behaviour is about; only that part takes steps.
A property of a part is then stated for its behaviours. The runs are sums of
state spaces, not products. A fairness condition on `\/ part = "a" /\ A \/ part
= "b" /\ B` is, since `part` never changes, that of `A` in the behaviours of
`a` and that of `B` in those of `b`.

A pure function is a component with a first step that chooses the operands and
a second that computes: the invariant compares the result with a definition
that does not share the algorithm.

## Runs

| Run | Bounds | What it shows |
|---|---|---|
| `Processor` | one CPU, a device and an error line, every mask, delay 2, tick 3; two CPUs writing MISC, tick 2; and the other parts of `MCProcessor` | `CountdownSound`, `NoLostCheck`: the two flags that let `execute()` skip work are never wrongly clear. `LevelAfterCall`, `LevelSettles`: the pins follow the requests. `InterruptTaken`. With two CPUs, `PinsShown` and `OneWins`. And of what a processor translates, fetches, computes, and of its PALcode: `NothingStale`, `NumbersRight`, `PalRight` |
| `InterruptThreads` | one CPU, two lines, driven by one device thread or the CPU | Every interleaving inside the calls: `DrirHoldsRequests`, `PinReportedByCpu`, `ExactBetweenCalls`, and that ticks repair what races did (`LevelSettles`, `CountdownSeen`) |
| `Nic` | rings of two and three, up to five frames, every layout, mode and reset | `ReceivedInOrder`, `Delivered`, `SentAsQueued`, `QueuedIsSent`, `DescriptorsOwned`, `EventsSettle`, `SerialReads`, `ImplementsFifo` |
| `Storage` | an IDE disk with a CD-ROM drive, or a read-only disk; both SCSI controllers with a disk of four blocks; two commands after one another, the second as soon as the first allows | `HandedOver`: however soon the driver goes on, no semaphore of the IDE channel is set twice and no start of SCRIPTS is lost; SCRIPTS that stop have said so. `DataIntact`: the sectors that a command moves are the right ones, and `CommandsEnd`: it ends, until the driver has overtaken the thread of the channel or SCRIPTS have run on after a halt |
| `Progress` | as in `MCProgress` | What must come about: `InterruptsCome`, `DevicesAnswer`, `ThreadsRun`, `ThreadsWork`, `SomeLockSucceeds`; and `InputRight`, that what comes is right and in order |
| `Results` | as in `MCResults` | What must never go wrong: `NotOvertaken`, `AddressesRight`, `Restored`, `OnlyGuestMisleads`, `ClocksRight`, `RegistersRight`, `PictureRight`. Each is the conjunction of what the modules of its parts state |

Why the bounds are enough. A delay of 2 has a countdown that is running, at its
last step and done; a tick period above it lets a countdown end between ticks.
Two lines let one go while the other stays. A ring of two wraps after two
frames, and a frame of two parts then fills it; five frames wrap it twice. Two
TB entries are replaced by the third fill; a block and a page that overlap need
two. A transfer of five bytes crosses two pages of two. Two programmings of a
timer let the second race the first. A state file of four words has a run at
either end, of one word, and between two others. Formats of three exponent and
two fraction bits have denormals, ties and carries into the exponent, and a
second format to narrow to. Tracks of two sectors and transfers of three cross a
track; a count of zero is the largest. Two tiles by two have boundaries in both
directions. Each part explores all of its state space within its bounds;
`Processor` and `Results` have about a million states each.

Six runs are expected to fail, each with a finding:

* `InterruptThreads_TwoDevices`: `interrupt()` updates DRIR unlocked; two
  device threads at once lose a request, and since a device remembers the level
  it drove, it is not repeated.
* `NicTransmit_OneDemand`: a poll demand that falls between the read of a free
  descriptor and the suspension of the transmit process is overwritten; a
  driver that writes one demand per frame waits for ever. The `Nic` run shows
  that one that repeats its demands does not.
* `Pic_TwoThreads`: the EOI tests that nothing is pending, another thread
  asserts an interrupt and raises line 55, and the EOI lowers it.
* `Ide_PromptWrite`: `execute()` clears BSY and raises the interrupt before it
  counts the cycle of the command; a WRITE that the driver gives in between
  starts in its second cycle and writes what the buffer held.
* `Ide_WriteMultiple`: the second block of a WRITE MULTIPLE is written one
  sector after the start of the first.
* `Threads_StopInDma`: components stop in the order of the configuration file;
  a CPU that is stopped before it starts the bus master leaves the thread of the
  IDE controller waiting, and `stop_threads()` joins it for ever.

## Known deviations

Met while modelling, without a run of their own. A property either leaves the
case out by a guard that names it, or states what remains true.

*Interrupts, memory, chipset.*
MISC<DEVSUP> is stored (`System.cpp:1386`) and never looked at, while the
comment at 1717 gives it a purpose. `execute()` tests a timer (`AlphaCPU.cpp:408`)
and reads it again to decrement it (411): when another thread's `irq_h()`
deasserts the line in between, the timer becomes -1, `irq_h()` takes it for a
pin on its way, and an assertion that follows is never reported. A timer "in
use" in `LevelSettles` is one that is not 0; `CountdownSeen` is about those
above it. `PinReported` of
`InterruptThreads` fails as soon as a device thread calls `interrupt()`: its
`irq_h()` loads EIR before the CPU clears b_irq<2> and stores it afterwards, so
the pin is back without `check_int`; it takes a tick period of 3 to reach this.
With two CPUs it fails although only CPUs call: one clears `check_int` after the
other's interrupt has set it. `PinReportedByCpu` is about one CPU that makes every call. Bulk DMA copies to memory without breaking locks
(`PCIDevice.cpp:632`); the device of `LoadLocked` writes through `WriteMem()`.
DIM2, DIM3, DIR2 and DIR3 are those of CPUs 0 and 1, because
`System.cpp:1360`, 1366 and 1447 take `(a >> 10) & 2`; the mask of PCTL is a
nibble off the table above it (985-1110); PERRMASK stores all its bits. A reset
of the PCI bus leaves windows and asserted lines behind, base address registers
of 0 or of all ones keep their window, and 8- and 16-bit writes to them move
none; windows are not registered again when a state file is read.
`pit_write()` takes the first byte as the high one (`AliM1543C.cpp:808`), the
comment above (767-775) lists the other order; `PeriodExact` is about the count
the code assembles. The TOY clock reads the host's time again at each write of
its index, so a time that the guest sets is lost, and 12-hour mode says 0 for
12. A state file's writes are not checked, nor the reads of its memory part; a
file with fewer components than the system is accepted.

*CPU.*
REI among outer modes (`AlphaCPU_vmspal.cpp:628`) does not set `check_int`, so
an AST that becomes deliverable waits. After a double miss `dtbm_double_3` has
overwritten `p5`, and `dtbm_single` (1163) does not restore it: a store to an
invalid page is reported as a read. `VmsFault` names these `Misread`. SWPCTX to
the own context reads what it has not yet saved. The entries to the replaced
interrupt routines are commented out (`AlphaCPU.cpp:435-459`); `VmsPal` has
them enter as the routine would. Of the internal registers, PCR, CRR, SLR,
I_STAT and DC_STAT are never set by anything. PERR stores the differences of the
bytes and not their sum. In `Float`: ties of S numbers are not rounded to even,
`ieee_trap()` tests are always true, conversion to an integer takes dynamic
rounding for plus, patterns of FPMAX; in the default unit: results out of range are
clamped, a negative S number keeps its sign in bit 59. HAVE_NEW_FP is undefined
in `config_debug.hpp:21`.

*Network.*
Stopping reception sets the transmit state (`DEC21143.cpp:604`). `ResetNIC()`
keeps the frame being received, although the comment at 1441 promises the state
after power-up. A first buffer of size zero has the second one appended twice
(1266). Two interfaces share a static descriptor (994); the run has one.

*Storage.*
A DMA command that is refused leaves `semBusMaster` set; DEVICE RESET of disk 1
leaves BSY; a driver that starts the bus master before the thread waits races
with it. BSY falls and the interrupt comes before the thread is through
(`AliM1543C_ide.cpp:1431`, 1461, 1739): of a command given in between the thread
may clear `command_in_progress` (1740), so that it is never done, or count the
cycle (2184, `Ide_PromptWrite`); and DRQ is set before `data_size` (1397, 1871),
so that a first word written in between is taken for the last. `DataIntact` and
`CommandsEnd` are about drivers that have not `overtaken` the thread in one of
these ways. `chip_reset()` clears `irq_asserted` without lowering the line. The
second level of interrupt registers is not moved down after DSTAT
(`Sym53C895.cpp:2627`), because DFE stays set, while the comment at 2520-2547
says it is; an INT just after an abort is lost (`lost` in `SymScripts`). A start
of SCRIPTS while the semaphore is set throws in the CPU's thread, which keeps
the register lock. The thread does not look again at `executing` when it has the
lock (`Sym53C895.cpp:584`): an instruction runs on after a halt by the timer, and
an interrupt that it raises goes into the second level, which is not moved down;
`DataIntact`, `CommandsEnd` and `StopsAreReported` are about behaviours without
one (`overran`). Likewise a reset at that point executes at address 0, which is
not modelled. ABRT without SIGP clears a pending SIGP; LOAD to SFBR throws.

*Threads.*
`CAliM1543C_ide::start_threads()` creates the thread and clears `StopThread`
after it (`AliM1543C_ide.cpp:245-248`). A CPU that is stopped after the
controller may have left a command and its semaphore set; the new thread, which
then looks at once, may find `StopThread` still set and end: `ThreadsRun` excepts
a controller with a command left to do, `ThreadsWork` the command (`Lost`).
`stop_threads()` sets the semaphore of a thread whatever it holds (260), and so
may throw in the main thread when work has just been given (`failed`); a CPU that
gives work to a controller whose semaphore `stop_threads()` has just set throws
in its own thread (`dead`), which the main loop finds.

*Consoles.*
Serial: `receive()` wraps the ring over what was not read, and stores index and
byte in the order the compiler has them; the properties except `lapped` and
`torn`. What is sent is followed by a NUL. Keyboard: an immediate byte overwrites
one that was not read (1204); a full queue of the controller throws (903); mouse
movements are never reported. Floppy: the count of the DMA channel is taken as
the number of bytes; masking any channel masks channel 0 (`DMA.cpp:218-220`).
Dual-port RAM: command F0 goes on to the error code (`DPR.cpp:515`); header
cells of CPUs that the last system had stay set.

*Graphics.*
A write during a pass over the screen may lose its mark until the next write of
its tile (`S3Trio64.cpp:3060`, 3186), and one between `text_update()` and the
copy of the snapshot is not drawn until the place changes again; the properties
except what is `owed` or `missed`. A grown window has only its old tiles marked,
and a changed height of characters marks nothing. Line doubling splits a tile
too high (3884, 3003). Reading index 6 of the graphics controller returns
another register (2733). 16-bit writes to 3c0 and reads of 3c6 to 3c8 throw.

## Fairness

Weak fairness of a CPU's thread, of a device's thread, of the remaining steps
of a call that has begun: threads are scheduled by the host and never stop
while the machine runs; semaphores are waited for by one thread each. Weak
fairness of the guest is assumed only where a property is about a guest that
goes on: a driver that takes frames that are there and restarts the interface it
has reset (`Delivered`), one that repeats its poll demand (`QueuedIsSent`), a
service routine that reads the vector, or the device, while the line is asserted
and ends the interrupt (`InterruptsCome`, `DevicesAnswer`), a driver that waits
for its command and moves its data (`CommandsEnd`). The main thread goes on with
a stop that it has begun (`ThreadsWork`). Nothing is assumed of frames, keys,
devices or software that start something new. `SomeLockSucceeds` needs only that
a `WriteMem()` or `cpu_lock()` in progress is finished; it is a statement about
behaviours in which some CPU tries infinitely often.

## What is proved

Listed under `theorems` in `PROJECT.json`. In every case TLC has checked the
inductive invariant on small instances before it was proved. Hypotheses of a
theorem, as opposed to the named `ASSUME`s of the modules, which TLC evaluates,
say what the guest, or the configuration, must not do; each is named below with
what happens otherwise.

### `ProcessorProofs`: interrupts, translations, instruction lines

For every finite set of CPUs, disjoint sets of device and error lines, positive
delay and clock period, and any values written:

* `TypeCorrect`.
* `Inductive`: `IInv`, type correctness together with, for every CPU: the flag
  `checkTimers` is set just when some timer runs; an asserted pin has no timer
  running; a pending enabled interrupt has `checkInt` set; and the pins of the
  clock and of other CPUs are never delayed. `CountdownSound` and `NoLostCheck`
  are not inductive by themselves: that `irq_h()` lowers a pin without
  forgetting the others needs the equivalence, and that a countdown that ends
  does not raise a pin that is up needs the exclusion. The lemmas follow the
  code: what one call of `irq_h()` does to its pin and leaves of the others
  (`IrqHEffect`, `IrqHInv`), then the evaluation of lines, MISC and countdown
  built from it; the theorem has a step per action.
* `CountdownSoundAlways`, `NoLostCheckAlways`, by `IInv`.
* `LevelFollows`: the action property `LevelAfterCall`.
* `MiscMatchesPinsAlways`, from `IInv` and itself.
* `OneWinner`, assuming that each CPU writes its own bit of MISC<ABW> only.
* `InterruptsInEveryPart`: what is proved of `Interrupts` holds in `MCProcessor`.

`NothingStaleAlways` is about the caches of a CPU, for any number of TB entries
and cache lines, address spaces, pages, page size and code. The guest, which is
a part of the models, invalidates what it unmaps and flushes what it overwrites
before it uses it; without this the architecture promises nothing.

* `TbInductive`: types together with: an entry has ASM set just when its page is
  global; it agrees with the page table about every page not *owed* an
  invalidation; and no two entries map a page in the same space. The last is
  why `tbis()`, which invalidates the one entry it finds, leaves none, and why a
  fill may go to a fresh slot when the page is not found: a page of the block
  that an old entry maps would have been found, because the guest fills only
  when the whole block is not owed and then both have the same granularity.
  `TbTyped` and `TbCurrent` follow.
* `FetchInv`: a line is of every space just when its address is, and holds what
  memory does unless the guest owes a flush for it; while instructions remain in
  its page, `pc_phys` is where the PC is mapped; and a cache that was switched
  off stays off, since `LoadROM()` restores what the configuration says.

### `InterruptThreadsProofs`: `interrupt()`, load by load

For any number of lines and devices, any countdown and tick period:

* `RequestsHeld` (`DrirHoldsRequests`), with one thread that drives lines,
  besides any number of CPUs that evaluate them. `DrirInv` adds what is known
  in the middle of the update: what a thread has loaded is still what DRIR
  holds. The hypothesis is what `InterruptThreads_TwoDevices` shows necessary.
* `ExactCalls` (`ExactBetweenCalls`) and `PinsReported` (`PinReportedByCpu`),
  on a machine with one CPU, which makes every call. `SoloInv` follows a call
  through its labels: where the pin does not yet follow the requests, it says
  what the rest of the call will do about it. `Known deviations` has what
  happens with two CPUs, or with a device thread.

### `NicProofs`, `NicReceiveProofs`, `NicTransmitProofs`: the network interface

`QueueTypeCorrect`, `CountersAgree` and `Implements`, for every capacity, set of
frames and lengths: with the mapping of the array to the sequence of its
elements from `head`, every step of `PacketQueue` is a step of `Fifo` or a
stutter. `CountersAgree` (the tail is where head and count say) is the
strengthening it needs. `QueueIsFifo` carries it to the run's specification.

`FramesReceived`, `FramesSent` and `DescriptorsSafe` are the properties
`ReceivedInOrder`, `SentAsQueued` and `DescriptorsOwned` of the run, for rings
and queues of any length, frames of any lengths and any number of them. They
come from theorems about `NicReceive` and `NicTransmit` by themselves:

* Reception. `OwnInv`: from the test of OWN until it is cleared, the static
  descriptor is that of `cur_addr`. `RingInv`: what the driver owns lies between
  its next descriptor and `cur_addr`. `OrderInv`: what the driver has, what
  waits for it in the ring, and the part that is coming are in order;
  `NothingTwice` follows, resets or not. Without resets `AcceptedInv` and
  `CompleteInv` add that the queue is the rest of what was accepted and that
  every part in front of the coming one has been delivered, hence
  `InOrder`. Hypotheses: one interface, because the descriptor is a static
  variable (`DEC21143.cpp:994`), and resets only while the thread sleeps.
* Transmission. `ThreadInv`, and `FramesInv`: what waits lies between `cur_addr`
  and the driver's next free descriptor; each waiting descriptor has its place in
  a frame that is to go out; they are in order, complete, and a second
  descriptor of a frame is behind its first or behind what has been gathered of
  it. `OutInv`: what is out is what was queued first, in each operating mode.
  Hypothesis: no frame is laid out as an empty first buffer and a second one
  (see the deviations), or over more descriptors than the ring has.

### `LoadLocked`: reservations

For any number of CPUs and devices and any blocks:

* `Inductive`: `IInv`, types together with what is known of a `WriteMem()` in
  progress and of the reservations that are older than it. The property alone
  speaks of the store only; what makes it true is that on the way there a
  reservation of the block that still stands is *ahead* of the loop: of the
  block that is written, not being renewed, and of a CPU the loop has not
  passed. That the loop never passes the last CPU while it breaks a lock is
  needed for the types.
* `TypeCorrect`, and `NotOvertakenAlways`, by `IInv`.

### `ProgressProofs`: threads

`ThreadsRunAlways` (`ThreadsRun`): while the system runs, no component's thread
is missing or has ended. `ThreadsInv` says, for each place in the order of the
configuration file and each phase of the main thread, what is true of the
component there: before the place a start has passed, it goes on and its
`StopThread` is clear; behind it, there is no thread; a stop in the reverse
sense. The CPU, which is created with `StopThread` still set, is the exception
that waits at its semaphore. The IDE controller's thread is created so too and
has no such semaphore: it sleeps only while there is nothing in its own, and
`CommandKept` says that something is there only if a command is left to do. The
property excepts that case, and a CPU whose thread an exception has ended; both
are among the deviations.

### `StorageProofs`: the disk controllers

*The IDE channel.* For any numbers of sectors, of sectors per track and largest count, any block
size, counts, commands and number of commands. The driver goes on when BSY, DRQ and the
interrupt let it, wherever the thread is.

* `IdeSound`: `IdeShape`, without a hypothesis: the registers of the channel have
  their types, and `OneHasCommand` and `OneHasTransfer`: of the semaphores of a
  pair and the places of the thread and the driver, one at a time holds the
  command, or the transfer, so that neither is set twice.

The rest has the hypothesis `AlignedDriver`: the blocks that the driver sends do
not cross the end of the sector register, which loses what is carried, and of
WRITE MULTIPLE there is one (`Ide_WriteMultiple` shows what happens with two).
It speaks about a behaviour for as long as the driver has not overtaken the
thread (`~ideOvertaken`); `Ide_PromptWrite` shows that this is needed.

* `IdeInductive`: `IdeInv`. Its parts, defined in `MCStorage` and named for what they say:
  * `IdeTyped`, with the two above; `Control`: which places of the driver go with
    which places of the thread, and BSY and DRQ with both.
  * `Fresh`, `InLimits`, and for each kind of command, `Reading`, `Writing`,
    `WritingMultiple` and `PacketPhases`: where the address and count registers
    stand when the command has come to `Base`, the sectors that the driver has
    moved before those in the buffer. `Aborted`: a refused command stands at the
    start. `Filled`, `BufferRead`, `BufferPacket`, `BufferWritten`: the buffer
    holds the sectors from `Base` on.
  * `Sizes`, `BufferDma`, `MemoryRead`, `MemoryWritten`, `MovedFits` and
    `DmaOver`: the same for the bus master, the PRDs and memory.
  * `MediumRight`: the media hold the data written up to `Base`, or all of it
    once BSY is clear, and otherwise what they held before.

  The properties speak about the end of a command; each part above is what
  carries one of them over the next call of `execute()`.
* `IdeHandsOver` and `IdeDataIntact`: the halves of `HandedOver` and `DataIntact`
  that are about IDE, in every part of `MCStorage`; `HandedOver` does not depend
  on who overtakes whom, its range of the counts does.

*The SCSI controllers.* For either chip and any numbers of commands and timer
expiries, with the driver's program of `MCStorage` and its jobs, of which the
proofs use their types, that a READ or WRITE is not empty and that there are two
segments (`JobIs`). `ThreadOf810` and `CpuOf810` show that the two chips differ
in the block move only, so that each step is looked at once.

* `ScriptsSound`: `Sound`, whatever the driver and the timer do: types, and a
  start is never lost: SCRIPTS that are to run have a thread on its way, or one
  that will find its semaphore set.
* `ScriptsInductive`: `ScriptsInv`, who may run, while `Settled`: no instruction
  has run on after a halt, and no exception has ended the CPU's thread.
  * `Levels`: SIP, DIP and the line say what the registers hold. `RunsFree`: what
    has been raised and not acted on (`Raised`, in the registers or in the
    driver's hands) has stopped SCRIPTS. `Stopped`: SCRIPTS that do not run wait
    for reselection, have raised an interrupt, or are to be started.
  * `FlyOnly`, `Waiting`, `SignalHeld` and `ComesBack`: an interrupt on the fly
    leaves SCRIPTS running, so the driver may give the next command before they
    have come back to where they wait. The signal is not lost because SCRIPTS are
    on the way to WAIT RESELECT, which takes it, and come there by the interrupt
    on the fly only.
* `ScriptsDataInductive`: `DataInv`, what has been moved, under the same condition. `BeforeCommand` says of
  the phases before the command that nothing has been moved; `DiskGives` and
  `DiskTakes` of the data phases that memory holds a front of what the disk gives,
  and the disk a front of what the driver gives; `MemoryIsAsked` and
  `MediumIsWanted` what there is when the status is good. `AtEnds` excludes the
  ways round: an end that is reported with the status still to come, or a phase
  mismatch that is answered at the place of a command not yet sent.
* `ScriptsHandOver` and `ScriptsDataIntact`, and with the IDE halves, under
  `AlignedDriver`, `HandsOver` (`HandedOver`) and `SectorsRight` (`DataIntact`).

### Not proved

Liveness and everything that rests on fairness is outside the prover's reach.
`NumbersRight` and `SerialReads` take powers of two and the bits of a number,
`Operate`'s and `Float`'s results an induction over data, as do the filters and
folds over rings in `InputRight`. `MCResults` reaches the bitwise operators of
`SymScripts`, in whose presence the prover has no back end. `PalRight` is nine
statements about three modules, one of them a comparison of every access with
every page table, that are within reach but not done. These are model-checked.

## Not modelled

`PROJECT.json` gives a status and a reason per component. Left out altogether:
the parser of the configuration file and the configuration program, which run
once, sequentially, before anything else; tracing and lockstep, which are not
part of a normal build; the base library, which comes from Poco and appears as
the semantics of the mutexes and semaphores of the models that use them; the
windows, fonts and events of the user interfaces, which are I/O; and, of the
graphics adapters, colours and linear modes, which are tables of pixels. Of the
printer port, power management and USB only the part in state files is modelled:
they store what is written and act on nothing else.

Within the modelled components: square root, logical instructions and branches;
cycle counters; the virtual tags that HW_MTPR shares among translation buffers;
the 1:1 mapping of physical mode in the PALcode; mode pages and other settings
of disks that are stored and read back; data of DIMM units; characters that are
panned or split on the screen; memory mapping 0 of the VGA.

## What could follow

Theorems worth proving next: `PalRight`, part by part; `LineCovers` of `Pic` for one thread; `BytesTranslated` of the bus masters and the other parts of
`AddressesRight`, once the bits of `SymScripts` are sets and `MCResults` is in
the prover's reach. Compositions worth checking: `Pic` under `InterruptThreads`,
and the device threads of `Ide` and `NicStatus` with the stops of `Threads`.
