# Specifications of nxbx

TLA+ modules for [nxbx](https://github.com/ergo720/nxbx), an emulator of the
original Xbox. The guest's x86 code is run by lib86cpu on one thread; the devices
are C++ classes that answer its port and memory accesses, and some have threads
of their own. The modules model what these threads share and the order in which
they touch it; what is computed with the data is left out.

1. [The system](#1-the-system)
2. [The modules](#2-the-modules)
3. [What is checked](#3-what-is-checked)
4. [What is proved](#4-what-is-proved)
5. [Where code and comments disagree](#5-where-code-and-comments-disagree)
6. [Not modelled](#6-not-modelled)
7. [Plan](#7-plan)

Paths are relative to `src/` of the repository unless they start with `src/`.

## 1. The system

### Threads

| thread | started by | runs |
|---|---|---|
| UI | `qt/main.cpp` | the window's handlers, `console::start`, `console::exit(true)`, creating and deleting consoles |
| CPU | `console::start` | `console::cpu_thread`: guest code, every register access of the guest, the periodic events between two blocks of guest code, at the end `console::deinit` |
| I/O worker | `io::init` | `io::worker`: one packet of the guest's file requests after the other |
| fifo | `pfifo::Impl::init` | `fifoHandler`: the pusher and the puller as two coroutines |
| graph | `pgraph::Impl::init` | `graphHandler`: the methods the puller has submitted |

They share memory under four mutexes (`s_queue_mtx`, `s_completed_io_mtx`,
`m_fifo_mtx`, `m_graph_mtx`), one lock-free queue and a number of atomic flags on
which a thread waits.

### Components

**Host I/O** (`nxbx/io.cpp`, `nxbx/kernel.cpp`). *State*: the queue of packets and those put
aside, the flag the worker waits on, the map of completed packets, the map of
open handles with a cached directory entry for each. *Operations*: the ports
IO_START, IO_RETRY, IO_QUERY, IO_CHECK_ENQUEUE on the CPU thread; open, close,
read, write, remove in the worker; stop and restart. *Interactions*: the CPU
thread only ever *tries* to lock the queue, so that the guest does not stall, and
puts a packet aside when it fails; the worker calls the FATX and XDVDFS drivers.
*Hard*: the flag may be set or cleared around the wait; packets put aside and
queued must not overtake each other; a step of a packet may fail after
others have changed the metadata; cached entries may differ from the disk.
*Correct if* every packet is handled once, in order and answered, the worker
never sleeps over work, and a failed packet changes no file that is there (it may leave the directory entry of the one it was to make).

**FATX metadata** (`nxbx/fs/fatx.cpp`). *State*: for each partition, in `metadata.bin` and
`PartitionN.bin`: the FAT, a table that says of each cluster what it is part of, the directory
streams; in memory: the free count, the last allocated cluster, the end of the file, whether the
partition is known to be corrupted. *Operations*: find, create, overwrite, append, delete and flush an entry; launch,
format, resynchronisation, flush at the end. *Interactions*: the I/O worker calls it, the host's file
system stores it. *Hard*: an operation is several writes, each of which may fail and between any two of which the process
may end; places are remembered from one search to the next; chains wrap round the end of the FAT. *Correct if* what was created is found, every
cluster belongs to one chain that ends, the table agrees with the chains, and the count is that of the free clusters.

**Discs** (`nxbx/fs/xdvdfs.cpp`). *State*: the offsets of the image. *Operations*: validate an image, search a path through search trees, read. *Correct if* a
path is found exactly when the image has it.

**Interrupt controllers** (`nxbx/hw/pic.cpp`, `raise_irq` of `nxbx/hw/machine.cpp`). *State*: request, service and mask registers
of two 8259s, the state of initialisation, the CPU's line. *Operations*: raise
and lower of a line, OCW1 to OCW3, ICW1 to ICW4, the acknowledge. *Interactions*:
every device, the cascade between the two, lib86cpu. *Hard*: what is announced is
decided before it is acknowledged and everything may change in between.
*Correct if* no request that may be delivered is forgotten and the acknowledge
takes the one with the highest priority.

**Lock-free queue** (`common/spsc-queue.hpp`). *State*: two indices, and a copy of the other's in
each thread. *Operations*: emplace, try_emplace, pop, try_pop, empty. *Hard*: decisions
on old copies, the slot that stays free. *Correct if* it is a bounded queue.

**Command fifo** (`nxbx/hw/video/gpu/pfifo.cpp`). *State*: the registers of pusher and puller, cache1 between
them, the flags they wait on. *Operations*: fetching and decoding a push buffer, filling and emptying
cache1, faults; the register writes of the title; reset, disabling, deinit.
*Interactions*: the title through registers and interrupts, PGRAPH through
`submitMethod`, PMC through `updateIrq`. *Hard*: two coroutines share one flag and
one mutex, keep local copies over switches, and wait for the title. *Correct if*
what the push buffer says arrives at the engine, complete, in order and once.

**Graphics engine** (`nxbx/hw/video/gpu/pgraph.cpp`). *State*: the queue of methods, status and trigger of an
interrupt, the channel. *Operations*: binding objects, switching channels with
the title's help, executing methods, register writes, reset, deinit. *Hard*: the
title answers an interrupt while the thread is between raising it and waiting.
*Correct if* work is never slept over and objects are bound under their channel.

**Interrupts of the GPU** (`nxbx/hw/video/gpu/pmc.cpp`, with `pcrtc.cpp`, `ptimer.cpp`). *State*: INTR_0 of
each engine and of PMC, the enables, the line. *Operations*: `updateIrq` and its callers on three threads.
*Hard*: no lock at all. *Correct if* the line says what the engines say.

**Console and window** (`nxbx/console.cpp`, `common/host.cpp`, `qt/main_window.cpp`). *State*: `m_state`, `g_console`,
`g_shutdown_requested`, `s_valid_machine`, the queued events. *Operations*: create, start, exit, deinit,
`Host::Fatal`, open a file, power off. *Hard*: exit and deinit run on several threads,
events arrive late. *Correct if* a console is freed once nobody uses it, joins end, and
events reach the console they are about.

**Timers and CPU loop** (`nxbx/hw/pit.cpp`, `cmos.cpp`, `cpu.cpp`, `usb/ohci.cpp`, `video/gpu/ptimer.cpp`, `pcrtc.cpp`). *State*: of each timer its period and
the last time it fired; the deadline of the CPU loop; the clock's seconds and hour; the USB controller's state, interrupt registers and ports. *Operations*: a poll of
all timers, which raises what is due and computes the deadline; the register writes that start, stop and reprogram them. *Interactions*: lib86cpu runs guest code up to the deadline,
or later. *Hard*: late polls, a timer started between two polls, counters written in halves, counts compared for equality, resets. *Correct if* no event is late,
lost or counted twice, and lines follow their causes.

**SMBus** (`nxbx/hw/smbus.cpp` with `smc.cpp`, `eeprom.cpp`, `adm1032.cpp`, `conexant.cpp`). *State*: the host's registers and the ring of bytes of a block; the devices' registers; the EEPROM and its file.
*Operations*: cycles of a command, byte, word or block, abort, status. *Hard*: one offset for both directions of the ring, an interrupt line raised by one register
and lowered by another. *Correct if* the EEPROM holds what the title stored, in the next session too, and the line tells of a cycle that has ended.

**VGA** (`nxbx/hw/video/vga.cpp`). *State*: register files, values derived from bits of many registers, the DAC, planes and latches. *Operations*: port and memory accesses.
*Hard*: which write refreshes which derived value; the title chooses the order. *Correct if* what is derived follows the registers and the memory holds what was drawn.

**Configuration and memory windows** (`nxbx/hw/pci.cpp`, `video/gpu/pbus.cpp`, `pramin.cpp`, BOOT_1 of `pmc.cpp`). *State*: the address port, the GPU's configuration space, the RAM, the byte order. *Operations*:
accesses of one, two and four bytes through two windows on each. *Correct if* both windows show the same bytes.

The rest (settings, log, paths, XBE and PE headers, the Qt shell) is host-side text and file handling.

The hazards each component is exposed to are listed with their lines in `PROJECT.json`.

## 2. The modules

| module | code | what it is |
|---|---|---|
| `IoFiles` | `io.cpp`, `fatx.cpp` as used | the handlers of all packet types on handles, cached entries and metadata, one packet per step |
| `FileStore` | | abstract: a plain store of files that `IoFiles` implements |
| `HostIo` | `io.cpp`, `kernel.cpp` | extends `IoFiles` with the two threads, the queue, the locks and the flag |
| `IoService` | | abstract: a service that handles each packet once, which `HostIo` implements |
| `Pic` | `pic.cpp`, `machine.cpp` | both controllers, the guest, devices and the CPU |
| `SpscQueue` | `spsc-queue.hpp` | every load and store of producer and consumer |
| `BoundedFifo` | | abstract: a bounded queue that `SpscQueue` implements |
| `Pfifo` | `pfifo.cpp` | the fifo thread and the title |
| `Pgraph` | `pgraph.cpp`, `pmc.cpp` | the graph thread, the puller's end of the queue, the title |
| `PmcIrq` | `pmc.cpp` and its callers | `updateIrq` on three threads |
| `Console` | `console.cpp`, `host.cpp`, `main_window.cpp` | UI, CPU and a device's thread |
| `Fatx` | `fatx.cpp` | one partition: every operation as the sequence of its writes |
| `Periodic`, `Cmos`, `Ohci` | `cpu.cpp`, `cmos.cpp`, `ohci.cpp` | what a poll answers; clock and USB controller as functions of a record |
| `Timers` | `cpu.cpp`, `pit.cpp`, `ptimer.cpp`, `pcrtc.cpp` | the five timers, the loop that polls them, the title's writes |
| `Smbus` | `smbus.cpp` and its devices | host, four devices, the EEPROM's file |
| `Vga` | `vga.cpp` | registers, derived values, DAC, memory |
| `Windows` | `pci.cpp`, `pbus.cpp`, `pramin.cpp`, `pmc.cpp` | two windows each on the configuration space and on the RAM |
| `Xdvdfs` | `xdvdfs.cpp` | validation of an image and the search for a path |
| `HostIoProofs`, `PicProofs`, `SpscQueueProofs`, `PfifoProofs`, `ConsoleProofs`, `FatxProofs` | | theorems about the module each is named for, in `HostIoProofs` also about `IoFiles` |
| `GpuProofs` | | theorems about `Pgraph` and `PmcIrq` |
| `MachineProofs` | | theorems about the specification of `MCMachine`: timers, SMBus, VGA, windows, discs |
| `MCIoFiles`, `MCHostIo`, `MCPic`, `MCPfifo`, `MCPmcIrq`, `MCFatx` | | small values of the constants |
| `MCMachine` | composes `Timers`, `Smbus`, `Vga`, `Windows` and `Xdvdfs`, with their constants; a behaviour uses one of them |

**State and steps.** Variables have the names of the fields they model. In the
modules with threads, a step is one access to memory that another thread sees, or all
that is done in one hold of a mutex when everyone who touches the data holds it;
`pc` variables say where a thread is. `Pfifo` takes one step for each word or method, since the coroutines
hold `m_fifo_mtx` from one switch to the next. The devices of `MCMachine` are on the CPU thread only: a step is
one access of the title, with all it calls. `atomic_flag::wait(false)` is a
step that is enabled while the flag is set; the clear after it is part of the step only where the lock is held in
between. Definitions whose comment begins with "Variant" are wrong forms of the
definition that follows them; each property is shown to notice one.

**What stands outside.** The title is external: what it may do is given by
constants (`Guests` of `Pic`, `Games` of `Pfifo`, `Titles` of `Pgraph`, `Writes` and `Raisers` of `PmcIrq`, `Uses` of `Fatx` and `Timers`, `SmbusUses`, `Titles` of `Vga`, `WindowTitles`) and, in `IoFiles`, by
what the guest was told (`GuestRequests`). Some properties hold for every title, some only for one that keeps to a
protocol. These modules have a variable that is chosen in `Init` and says which guest or title this is; a property
that needs a protocol names it as its condition, so that one run covers all of them.
lib86cpu is external: it acknowledges an interrupt when the line is up and returns when
told to. The Qt event queue delivers in order.

**Data.** Files have sizes and no bytes; times are small numbers of ticks; a register of the VGA is the set of its bits; push buffers are sequences of
abstract words; handles find an object, a software object or nothing; vectors of interrupts are the number of the line.

## 3. What is checked

All runs are complete searches of the instance in their cfg. The sizes are small because what
can go wrong needs two of a thing, seldom three: two names to confuse, two threads to interleave,
one entry more than fits.

| run | cfg | properties | distinct states |
|---|---|---|---|
| `files` | `IoFiles_packets` | `HandleMapSound`, `FailureKeepsFiles`, `ImplementsStore` | 34 thousand |
| `host_io` | `HostIo_safety` | `NoLostWakeup`, `AcceptedIsQueued`, `DirentBackedByHost`, `ImplementsService` | 375 thousand |
| `host_io_live` | `HostIo_live` | `EveryPacketAnswered` | 15 thousand |
| `pic_nesting` | `Pic_nesting` | `NothingForgotten`, `SendsHighest`, `AckNests` | 557 thousand |
| `spsc_ring` | `SpscQueue_ring` | `SlotsApart`, `SurePop`, `ImplementsFifo`, `WaitingEnds` | 153 thousand |
| `pgraph_title` | `Pgraph_title` | `NoLostWork`, `SteadyRightChannel`, `WaitHasCause`, `SwitchResumes`, `StopsUnlessTrapped` | 436 thousand |
| `pfifo_title` | `Pfifo_title` | `InOrder`, `RegistersSound`, `NoLostDoorbell`, `FaultHasCause`, `AllDelivered`, `StopEnds` | 62 thousand |
| `pmcirq_title` | `PmcIrq_title` | `RegistersFollow`, `LostIsFound` | 111 thousand |
| `console_join` | `Console_join` | `SessionsSound`, `JoinReturns` | 10 thousand |
| `fatx` | `Fatx_partition` | `ListingAgrees`, `PartitionSound`, `TypesAgree`, `NeverFalselyFull` | 322 thousand |
| `machine` | `Machine` | `DeadlineCovers`, `TimeIsKept`, `LinesFollow`, `StoredAsMeant`, `VgaFollows`, `SearchFinds` | 619 thousand |

Some invariants are conjunctions: `HandleMapSound`, `RegistersSound`, `RegistersFollow`, `SessionsSound` and `PartitionSound` join the type invariant of their module with the
property named below; the type invariants of the other modules are proved (section 4). The twelfth run, `host_io_stop`, is in section 5.

Deadlock is checked for `files`, `pic_nesting`, `spsc_ring` and `pmcirq_title`. The other systems rightly
stop: a guest thread that has nothing to send, a buffer that is delivered, a console that is closed, a clock at its bound, a driver whose process is killed.

### Host I/O

* `files`: two names, two directory slots, two handles, a directory on the disc, one open packet for each outcome the
  handler tells apart (every disposition, a file that becomes read-only, an access that is refused, a directory), transfers that take a
  cluster and transfers inside one, raw writes, stops and restarts, packets on handles that are not open. Every call of the host file system may fail
  (`HostFaults`), the flush of an entry at a close or a stop among them, and the user may remove a host file nobody has open. Cached entries own the slot they are flushed to
  (`CachedDirentOwnsSlot`), the handle map is what the guest believes
  (`HandlesAgree`), a packet answered with an error changes no file that is stored or open (`FailureKeepsFiles`; the entry of a file it was to make may stay), and the whole implements
  `FileStore`, a store with write-back: an open name has the size and attributes of the last successful packet on it, and after a close or a stop the same or, where the flush failed, those it had stored.

  `intact` is true until one of two things happens that section 5 describes: a create is answered with success without storing its entry (an empty file whose directory must grow),
  or a raw write goes over the directory or formats the partition. `HandlesAgree` and the types are claimed in any case, the rest while `intact` is true. Both steps can be taken from every state
  where the code can take them, and what they leave is checked; TLC does not go on from there (`CONSTRAINT MCWhileIntact`), while the theorems of section 4 do. What a raw write puts in place of an entry is
  one of `RawDirents`. The two handles are interchangeable (`MCSymmetry`).
* `host_io`: two guest threads, two files, all interleavings of the CPU thread with the worker.
  `NoLostWakeup`, `AcceptedIsQueued` (nothing acknowledged is put aside, so nothing overtakes it), `DirentBackedByHost` (with a host that does not fail, a
  directory entry never promises bytes the host file has not got), and refinement of `IoService`: each
  packet is handled once between submission and answer. Threads and handles are interchangeable (`MCSymmetry`); the run has no liveness property.
* `host_io_live`: `EveryPacketAnswered`. Fairness: weak for the worker and for what the CPU thread
  does inside a port access; strong for the guest's polling, since the kernel polls in a loop (`kernel.cpp`) and each
  poll may find the lock taken.

The guest kernel of the model does not open a file twice, as `Sharing` would let it; section 5 says what happens then.

### Interrupt controllers

`pic_nesting`: three lines per controller, one of them the cascade; one device on the master, two on the slave, all register writes. Of two kinds of guests
(`Guests`), one masks lines of the master and changes trigger modes of the slave, the other rotates the slave's priorities. `NothingForgotten`: a request that may be delivered is
announced; `stale` marks the three steps after which the code does leave one
unannounced until the next change (a spurious acknowledge, an initialisation of the other controller, a change of priorities without an EOI). `SendsHighest`: the next acknowledge takes the
deliverable request with the highest priority. The action property
`AckNests`: an acknowledge on a controller whose priorities are fixed interrupts only lower ones.

### Lock-free queue

`spsc_ring`: four slots, so indices wrap and the queue is full with three elements. `SlotsApart`, `SurePop`, refinement of `BoundedFifo`, and `WaitingEnds`: a
thread that spins goes on once the other one has made room or published an element. Fairness: weak, inside a call; nobody has to call.

### Graphics engine

`pgraph_title`: two channels and a queue of one entry, so that full and empty, same and other channel all occur. Four titles: one
that answers its switches and nothing else; the same with software faults; one that also writes INTR at any time ("stray"); one that also
disables the engine. `NoLostWork` holds for all, `WaitHasCause` for those that do not disable the engine,
`SteadyRightChannel` and `SwitchResumes` for a title that is neither stray nor disables it. `StopsUnlessTrapped`: stopping ends both threads unless one
waits for the title. Fairness: weak for the threads, strong for the title's answer, whose
handler runs in every pass over its interrupt.

### Command fifo

`pfifo_title`: cache1 of two entries, so that it fills and wraps, and eight `Games`, a push buffer each with what else the title does:

* a bind, a call, a method of two parameters, a return, a jump, with accesses of pusher and puller turned off and on ("push", "pull", "toggle");
* words that are refused, methods for software, handles that are not found; the title acknowledges, does the work itself
  and steps over it, also on a console that is closed ("stop");
* a handle that the title adds before the puller starts again ("retry");
* an engine that is disabled at any step ("disable"), which zeroes the registers without the lock.

`InOrder` compares what was submitted and what waits in cache1 with what the
buffer means. The meanings are written out in `MCPfifo`; `MeaningAssumption` compares them with the reading of the buffer, which
goes from place to place with `After` and knows neither registers nor cache1. `InOrder` holds unless the engine is disabled, or the title turns the puller off at a method it means to try again; `MarksAgree` ties the two marks to the pointers; `NoLostDoorbell` says the thread sleeps only when there is nothing to fetch or
submit, for titles that leave the puller on; `IdleNotBusy`, in `RegistersSound` with `MarksAgree`, holds also with a disabled engine: it is how a title knows the pusher is at rest; `FaultHasCause`: the puller is
stopped only while the title has an interrupt to answer. `AllDelivered` is for a title that does nothing else, `StopEnds` for buffers none of whose methods faults.
Fairness: weak for the thread, for a title that submits all and answers interrupts, and for deinit.
The zeroing by PMC_ENABLE is one step of the model, against one per register in the code.

### Interrupts of the GPU

`pmcirq_title`: one engine whose interrupt comes from the CPU thread and one with a thread of its own, which raises interrupts or not (`draws`). If it does not,
INTR_0 and the line are exact whenever no thread is at work (`LineFollows`).
If it does, an interrupt may be wiped out; it is found at the next vertical blank, if that is enabled
(`LostIsFound`). Fairness: weak for `updateIrq`, strong for the vertical blank, since `cpu.cpp` runs the
periodic events between blocks of guest code however many registers the guest writes.

### Console

`console_join`: three consoles, a file opened while one runs, failures to initialise, `Fatal` on two threads. `NoStaleShutdown`: a shutdown that was requested for one
console is not carried out on the next. `JoinReturns`: the UI thread gets out of waiting for the CPU thread. The end of the devices' deinit and of `io::stop`, which the CPU thread runs on its way out, is taken as given (`FreeMachine` is one
step); `StopCompletes` and `DeinitReturns` in section 5 show that both may hang, and then the join does not return. Fairness: weak for the threads; the CPU returns when told to.
`Prompt` says that the user acts only when no event is queued and no thread is about to start.

### FATX metadata

`fatx`: two files and a directory with a file in it, on five clusters of two bytes and two directory entries, so that a directory must grow, a
file of two clusters may wrap round the end of the FAT, and the disk is full with two files. An operation is its sequence of writes to the two files of the
partition; with "fault" any one of them fails, and the operation ends there as the code does; with "kill" the process ends
between two. A behaviour has one of nine sets of uses, each of two or three of the things the driver does (`AUses` of `MCFatx`): all at
once would add states, and properties would be refuted by combinations section 5 already lists.

* `ListingAgrees`: a search from the root finds exactly what was created and not removed since.
* `FilesOwnClusters` (in `PartitionSound`): chains end, are as long as the file's size asks for, share no cluster and spare the root's.
* `TypesAgree`: the cluster table, by which raw accesses find a file, says of each of its clusters whose it is and which part.
* `NeverFalselyFull`: the free clusters of the partition are all counted, except as many as were taken from the FAT's padding in their place, so that nobody is told of a full disk too early.
  Without that exception it holds on five clusters and fails on larger partitions: entries behind the last cluster are allocated like any other and taken from the count.

`Without` names what each of them excludes, and section 5 how that refutes it.

### The machine's devices

`machine`: five independent parts of the machine that the title programs, all on the CPU thread. They share no state, so a behaviour uses one of them and the run is their sum.

* **Timers** (`Timers`, `Cmos`, `Ohci`). Time is a counter up to eight ticks (`MaxTime`), a second has four; that is enough for two seconds of the clock and for two to four periods
  of the others, and to write a register at any tick between them. Eleven titles (`MCUses`) use one device or two; with "late", lib86cpu returns one tick after the deadline.
  `DeadlineCovers`: the CPU is never let run past the next event of a device that was started or changed with a poll. `TimeIsKept`: `Rhythm`, no period is skipped, doubled or stretched however late
  the polls; `ClockKeepsTime`, the seconds counted are those that passed; `HourReadsBack`, an hour that was written is read. `trailing` records which devices the
  title has put out of step in the ways of section 5.
* **SMBus** (`Smbus`). A ring of three bytes and an EEPROM of two, blocks shorter and longer than the ring. `EepromAsMeant`: the bytes of a block are the last ones the title wrote to the FIFO, wherever the ring stood, and the
  next session finds what the last one saved. The title may start a cycle while the status of the last one is set, so that two can be set at once. `SmbusLineFollows`, for a title that writes CONTROL only to start cycles: the line
  is never up without a status, and it is up exactly while one is set if the title clears all statuses in one write; section 5 says what a partial clear does. A block may go to the EEPROM byte by byte, and to the
  controller and the thermometer too, which a title does that leaves the FIFO alone.
* **VGA** (`Vga`). Nine titles, each with the bits of a few registers that one derived value depends on, in any order. `VgaFollows`: access modes, window, renderer, size, fonts, pens and write protection follow the registers. `PaletteFollows`: so does the
  palette the DAC. `MemoryAsMeant`: for a title that draws pixels with all write modes and operations, and for one that stores bytes in any of the access modes, the planes hold what was drawn or stored. Two planes of one bit tell planes, and a masked bit from one that is not, apart.
* **Windows** (`Windows`). Two double words, two blocks of the instance memory, accesses of all widths and both byte orders. `WindowsAgree`: both windows on the configuration space and both on the RAM agree with what the title meant.
* **Discs** (`Xdvdfs`). Every search tree of up to three names with a directory below, an image with a game partition, one that is no disc. Paths have one name or two, but are of any length in the module. `SearchFinds`: a search ends with the file of that path or, if there is none, with none.

`LinesFollow` is `SmbusLineFollows` and `UsbLineFollows`, `StoredAsMeant` is `EepromAsMeant`, `PaletteFollows`, `MemoryAsMeant` and `WindowsAgree`.

## 4. What is proved

With TLAPS, for all values of the constants that satisfy the named assumptions of
each module. Every proof is that of an inductive invariant and a conclusion.

* **Host I/O** (`HostIoProofs`): `ThreadTypes`, `WorkerNeverSleepsOverWork`, `AcceptedNotOvertaken`, `PacketsHavePlaces`, `ServiceImplemented`. `NoLostWakeup` alone is not inductive: the
  worker may be anywhere between clearing the flag and testing the queue. `HostInv` adds who holds which lock
  (`LocksAgree`), that work in the queue is flagged or about to be (`WorkIsFlagged`, `FlagIsNotified`), that
  `g_pending_packets` agrees with the vector of packets put aside (`PendingAgrees`), and that a joined worker is done.
  `ServiceImplemented` is the refinement of `IoService`: `PlacesInv` says that the packet of a thread is in exactly one place, put aside, queued, in the worker or posted,
  and that of an idle thread nowhere; from it the request the abstract service sees is the one the packet holds (`RequestsFollow`), whichever place it is in.
  A submission, a handler, an answer, a stop and a start are the steps of the service, and every other step of the two threads is invisible.
* **Interrupt controllers** (`PicProofs`): `RegistersTyped`, `RequestsAsserted`, `NeverForgotten`, `HighestIsSent`, `AcknowledgesNest`, for any number of lines per controller.
  The lemmas say that ranks are distances, that the highest deliverable line is unique, and what `updateState` leaves. `AcknowledgesNest` needs `NestInv`: the line to send is above those in service
  on the master while the CPU line is high, and on the slave while the master has its announcement, which an acknowledge takes away because the cascade line is never level triggered.
* **Lock-free queue** (`SpscQueueProofs`): `QueueTyped`, `SlotsStayApart`, `SurePopNeverWaits`, `QueueRefines`, for any capacity. `QueueInv` says that each
  cached copy errs on the safe side (`CopiesSafe`), in terms of the distance between indices on the ring, that a thread
  about to use a slot has it (`ClaimsHold`), and which values the slots hold (`ValuesHold`), from which the refinement
  follows step by step.
* **Graphics engine** (`GpuProofs`): `PgraphTyped`, `WorkNeverLost`, `ChannelIsRight` (`SteadyRightChannel` for every set of titles), `WaitIsCaused` (`WaitHasCause`).
  `WorkInv` says that whoever has changed what the thread works on has still to ring, or has rung (`LastRing`), and that a thread past its wait looks again (`Attentive`).
  `ChannelInv` says that a trigger that is clear was answered (`Asking`, `Answered`), under the condition `Steady`, which `TitleStays` shows no step changes.
* **Handles and metadata** (`HostIoProofs`): `FilesInvariant`, `HandlesSound`, `FailuresKeepFiles`, `StoreImplemented`, `DirentsBacked`. `FilesInv` adds to the types
  what an entry of the handle map may be, that nothing the guest has closed is held, that a path has one handle and, while `intact` is true, one dirent. `ServeDoes`
  says of each kind of packet what it leaves, in terms of which both the failures and the refinement are decided: `StoreImplemented` maps every packet to a step of `FileStore`
  or to a stutter, over closes, stops and restarts and flushes that fail; a step that ends `intact` is the store's own `GivenUp`. `DirentsBacked` (`DirentBackedByHost`) has the conditions of the run as hypotheses: the host does not fail (`~HostFaults`), no
  file is opened twice (`~Sharing`), and a path stays a file or a directory (`KindsKept`); section 5 says what happens without the second, and without the first a
  dirent may be flushed whose bytes were not written. Like the others it says nothing once `intact` is false.
* **Command fifo** (`PfifoProofs`): `PfifoInvariant`, `RegistersAgree`, `FaultsAreRaised`, `DoorbellsArrive`, `OrderInvariant`, `OrderKept`, for any buffers, objects and size of cache1 above one. `MarksAgree` alone is not
  inductive: a method that faults is put back, with the marks as they were. `SteadyMarks` says what they mean for the GET the puller is going to have; `StopAgrees` that the pusher rests with its busy bit clear;
  `FaultAnswered` that the title answers a fault once, while the puller is stopped at it. For a title that leaves the puller on, `PullerFirst` says that
  cache1 never fills, `SuspendedAnswered` that a pusher stays suspended until the title has lifted the error, and `Doorbells` that what the pusher has read is what the registers say, or that it is about to be told.
  For the order, `AtPlace` says that the pusher's registers are a place in the reading of the buffer, not behind that of DMA_PUT, and `Contents` that the methods asked for up to there are those
  submitted and those in cache1, entry by entry of the ring. A push keeps this because of `RoomToPush`: a pusher that goes on finds a free entry, also after it was suspended and while the
  title repairs a fault, and a method that faults finds its own entry when it is put back. `Pushed` and `Taken` are the arithmetic of the ring.
* **Interrupts of the GPU** (`GpuProofs`): `PmcTyped`, `RegistersFollowEngines`. `FollowInv` says, for a thread that is alone, what it has gathered at each access of `updateIrq` and what it has read besides.
* **FATX metadata** (`FatxProofs`): `CountInvariant`, `CountHolds`, for any number of clusters, padding, files, sizes, names and uses but the two of `NeverFalselyFull`. That the count misses no free cluster is not
  inductive: an allocation that goes round the end of the FAT leaves a cluster free that it counts as taken, and one more is lost each time it does. `CountInv` says why that does not add up: the driver counts what it *owes*
  its FAT but for `Padding`, and `Owed` is the number of free entries, and one more while some are before the last cluster allocated. To go round, there must be some (`Allocates`: it takes what it counts from `Owed`);
  afterwards there are none, and to get new ones something must be released, which counts one more than it frees, since the last entry of the chain keeps its mark (`Frees`). A restart counts the entries
  anew and reads the last cluster with them; what it may owe on top is made up for by the padding. What an operation takes is said write by write (`Takes`, `Passes`), because any of its writes may
  fail and the process may end after any. `PaddingTaken` is the step from the FAT to the partition's own clusters.
* **Console** (`ConsoleProofs`): `ConsoleInvariant`, `ConsoleTyped`, and for a user who waits for the window (`Prompt`, as in the run) `SessionsHold`. `NoStaleShutdown` looks at the head of
  the queue only; `QueueOrdered` says that behind the start of a console there are events of that console alone, and `ReplacedIsDone` that the window knows of none while a console is replaced.
* **Timers** (`MachineProofs`): `TimersInvariant`, `DeadlineHolds`, `TimeKept`, for any periods, alarms and lateness. `TimersInv` relates the time each device last fired to the number of its events (`Beats`), says that
  a device whose polls are prompt has its next event in the future (`Prompt`), that the deadline is no later than any of these (`AllAhead`), and how the interrupts and the seconds of the clock share their ticks.
* **SMBus** (`MachineProofs`): `SmbusInvariant`, `EepromHolds`, and with the USB controller `LinesHold`, for any size of the ring and of the EEPROM. `SmbusInv` has `LineOK`
  (interrupts are enabled while a status is set, the line is never up without one, and it is up exactly while one is set if the title clears all at once), `RingOK` (the ring holds, up to its offset, the last bytes that were sent) and `EepromOK`.
* **VGA** (`MachineProofs`): `VgaInvariant`, `RegistersKept`, `PaletteKept`, `MemoryInvariant`, `MemoryHolds`, for any titles, number of colours, addresses and bits of a byte. `VgaInv` states each derived value as a function of
  the registers (`KeptFollows`) with what it becomes right after a reset, and what the DAC and the palette have in common in the middle of an entry (`PaletteHolds`).
  `MemoryInv` says where the bytes of a title are that stores bytes: in each access mode every byte has planes of its own (`PlanesApart`), and before the first one all are blank;
  and of a title that draws, that the latches hold a pixel it has read. Why a pixel comes out right is a lemma for each write mode and operation.
* **Windows** (`MachineProofs`): `WindowsInvariant`, `WindowsHold`, for any number and size of blocks. `PortOK` says that the address in the ports selects what the title means or nothing at all, `MirrorOK` that
  the instance memory is the RAM with its blocks in reverse order; `RaminIs` and `QuadPlace` are the arithmetic of that.

* **Discs** (`MachineProofs`): `DiscInvariant`, `SearchesFind`, for any images and paths. `DiscInv` says that a search has gone through the directories that the names before name (`Came`), the only way there is,
  and that an entry by the name it looks for, if there is one, is in the subtree of the entry it looks at (`Near`).

`EepromHolds`, `PaletteKept`, `MemoryHolds` and `WindowsHold` are the conjuncts of `StoredAsMeant`, which `StoredHolds` puts together.

The assumptions are those the code justifies. A device's handle is none of a file's, and a path of the disc is none of the partition's (`NamesAssumption`: device handles are fixed numbers
and every path begins with its device); an open packet is one of those the kernel builds (`OpensAssumption`); the FAT of a partition does not fill its last page exactly (`SizesAssumption`: so it is with each partition of `g_hdd_partitiong_table`, section 5 says what happens otherwise); push buffers consist of words (`GamesAssumption`), what a buffer means is what its reading asks for, and
each value of DMA_PUT is a place of the reading, in their order (`MeaningAssumption`);
and some handle is not in the table of objects (`ObjectsAssumption`); the engines that interrupt with every frame are those the CPU thread runs (`PmcAssumption`); a title of the VGA sets bits a register has, draws pixels or stores bytes but not both (what was drawn has no meaning as bytes), and with two planes selects those only (`VgaAssumption`); one that
writes the address of the configuration space at once does not write it by halves too (`WindowsAssumption`); and the directories of an image are search trees, as the
search relies on, whose entries for directories lead to one (`XdvdfsAssumption`).

Model-checked only:

* `ListingAgrees`, `PartitionSound` and `TypesAgree` of `Fatx`: what a chain is, and what a search through the directories finds, are recursive functions, and what they compute needs induction over data.
* All liveness, which the prover does not support.

## 5. Where code and comments disagree

The run `host_io_stop` has `expect: violation`: it checks `StopCompletes`, which the comment in `io.cpp` on stopping the worker
promises. TLC's counterexample: the worker clears the flag that `stop()` has just set, and the join does not return. The worker got past its wait
before, since the flag was still set from a packet or from the stop of the console before, which nothing clears. The trace shows the second: a first stop with the flag clear ends well and leaves it set, and the second stop hangs.
Either way the worker reads `stop_requested()` before the stop and takes the lock after it.

The modules state more properties of this kind, at their end. They can be seen to fail by
checking them with the constants given here in place of those in the module's cfg.

| property (module) | constants | what happens |
|---|---|---|
| `UnknownHandleReported` (`IoFiles`) | as in `IoFiles_packets` | a packet on a handle that is not in the map is answered with success: the error (`io.cpp:526`) is never copied into the packet |
| `OpenTellsActualSize` (`IoFiles`) | as in `IoFiles_packets` | bytes written into the last cluster are not counted (`fatx.cpp:1299`), and a later open reports the old size |
| `FailureKeepsFiles`, `ImplementsStore` (`IoFiles`), parts of `HandleMapSound` | as in `IoFiles_packets`, without their condition `intact` | an empty file whose directory must grow is answered with success and its entry is not stored (`fatx.cpp:1182`), and a raw write goes over the entries of a directory or formats the partition (`fatx.cpp:1565`, `1604`) while their files are open: entries are flushed into slots that belong to others |
| `RemoveTellsOutcome` (`IoFiles`) | as in `IoFiles_packets` | the status of `delete_dirent_for_file` is ignored (`io.cpp:668`) |
| `CacheIsACopy` (`IoFiles`) | `Sharing = TRUE`, `OpenRequests <- MCFewOpens` | a second open keeps the old cached entry, since `emplace` inserts nothing (`io.cpp:368`) |
| `RightChannel` (`Pgraph`) | `Titles = {{"stray"}}` | an acknowledge that tested the status before a switch was requested clears its trigger (`pgraph.cpp:683`) |
| `IdleMeansIdle` (`Pgraph`) | `Titles = {{}}` | STATUS reads idle between `submitMethod` and the wake-up of the graph thread (`pfifo.cpp:423`) |
| `DeinitReturns` (`Pgraph`) | `Titles = {{}}` | a switch requested after deinit has cleared the trigger (`pgraph.cpp:1000`) waits for ever |
| `NothingLeftBehind` (`Pfifo`) | `Games = {Retry({"retry"})}` | after a fault at the last method the empty mark stays set (`pfifo.cpp:466`) |
| `InOrder` (`Pfifo`) | `Games = {Retry({"retry", "pull"})}`, without its condition | a fault with cache1 full clears the full mark; the pusher writes over the faulting method |
| the second part of `NoLostDoorbell` (`Pfifo`) | `Games = {Flow({"pull"})}`, without its condition | the puller, waiting for access with cache1 full, consumes the notification of a new DMA_PUT (`pfifo.cpp:440`) |
| `InterruptNotLost` (`PmcIrq`) | `Order <- AllOrder`, `Raisers <- AllRaisers` | one thread's `updateIrq` undoes another's (`pmc.cpp:213`): a pending interrupt is neither in INTR_0 nor on the line |
| `BusyWhileRunning` (`Pfifo`) | `Games = {Flow({"toggle"})}` | a write to DMA_PUSH clears the read-only busy bit (`pfifo.cpp:167`) |
| `DisabledIsReset` (`Pfifo`) | `Games = {Short({"disable"})}` | the pusher writes its own DMA_GET back after the reset |
| `StopEnds` (`Pfifo`) | `Games = {Fault({"stop"})}`, without its condition | a fault after deinit has cleared `m_puller_has_err` (`pfifo.cpp:761`) hangs it |
| `OneRequestPerSession` (`Console`) | `Fatals = {"cpu", "dev"}` | two threads find `g_shutdown_requested` clear (`host.cpp:20`) |
| `ExitReachesMachine` (`Console`) | as in `Console_join` | `exit()` reaches for a machine that the CPU thread has freed meanwhile (`console.cpp:59`) |
| `RunsReadyMachine` (`Console`) | `Prompt = FALSE` | the window shuts down a console whose thread is just starting (`console.cpp:68`) |
| `NoStaleShutdown` (`Console`) | `Prompt = FALSE` | a late shutdown is carried out on the next console (`main_window.cpp:79`) |
| `StartsConsole` (`Console`) | `MayFail = TRUE` | a console that failed to initialise is started through a null pointer (`main_window.cpp:122`) |
| `WaitHasCause` (`Pgraph`) | `Titles = {{"disables"}}`, without its condition | the reset by PMC_ENABLE takes away the interrupt that is waited for (`pgraph.cpp:962`) |

Of `Fatx`, without the words that `Without` or the property's own condition excludes:

| property | `Uses` | what happens |
|---|---|---|
| `FilesOwnClusters`, `TypesAgree` | `{{"extend"}}` | the part of the FAT that was read before the allocation is written back after it (`fatx.cpp:847`): the new cluster is free again and the chain does not end. The cluster table gives the new cluster the number of the last old one, since what is counted are the links of the old chain (`fatx.cpp:825`) |
| `NeverFalselyFull` | `{{"extend"}}`, with `TotClusters = 8` | the same write frees clusters the count has taken |
| `NeverFalselyFull` | `{{"large", "remove", "restart"}}`, with `TotClusters = 7` and `Padding = 0`, which `SizesAssumption` excludes | after a restart an allocation goes round the end of the FAT and leaves a cluster free that it has counted (`fatx.cpp:609`), and no padding makes up for it |
| `FilesOwnClusters`, `NeverFalselyFull` | `{{"resize"}}` | a file that is enlarged takes all its new clusters from the count, not the difference, and the new ones are not linked to its chain (`fatx.cpp:1215`) |
| `ListingAgrees`, `FilesOwnClusters` | `{{"large", "remove"}}`, `{{"large", "truncate"}}` | a chain that wraps round the end of the FAT is linked through the root's entry |
| `ListingAgrees` | `{{"empty"}}` | an empty file whose directory must grow is answered with success and has no entry (`fatx.cpp:1182`) |
| `ListingAgrees` | `{{"fault"}}`, `{{"kill", "restart"}}` | the writes of an operation that fails or is cut off are not undone |
| `ListingAgrees` | `{{"sync", "restart"}}` | a resynchronisation resets the remembered size of metadata.bin and leaves the file as long as it was (`fatx.cpp:1775`): the next stream is written at the end and the cluster table names an older one |
| `TypesAgree` | `{{"kill", "remove", "restart"}}` | a removal marks the dirent as the last of its writes: when it is cut off, the entry is still there and its clusters are free |
| `CorruptedIsRecreated` | `{{"fault", "restart"}}` | the mark of a corrupted partition is kept in memory, and a later session that ends well has cleared the stored one (`fatx.cpp:1628`) |

The model keeps the cluster table as one element of 256 entries. Longer tables are outside of it: `read_elem`
(`fatx.cpp:442`) lets the first element end at cluster 256, inclusive, so a chain that has clusters below 256
and cluster 256 gets the entry of the latter written to the start of the first element. It reads the FAT at once, too.
Where the code needs several reads, `allocate_free_clusters` links what it finds in the next one over its first entry, as it does
at the beginning of the FAT (`fatx.cpp:609`), and `free_allocated_clusters` uses four times (with 16 bit entries, twice) as many
entries as it has read (`fatx.cpp:709`): neither the runs nor the theorems say anything of a chain that spans two reads.

Of the modules in `MCMachine`; a property that names a condition is checked without it:

| property | title (constants) | what happens |
|---|---|---|
| `DeadlineCovers` | `Uses = {{"vblank"}}`, `{{"usb"}}`, `{{"alarm"}}` | a vertical blank, a USB frame or an alarm that is switched on by its enable register is not polled (`pcrtc.cpp:87`, `ohci.cpp:271`, `ptimer.cpp:119`): its first event comes when another timer's does, and all later ones are as late |
| `DeadlineCovers`, `Rhythm` | `{{"alarm", "ratio"}}` | an alarm moved closer, or a shorter ratio, may lie in the past at once (`ptimer.cpp:176`) |
| `DeadlineCovers`, `ClockKeepsTime` | `{{"cmos", "periodic"}}` | the seconds advance only with every n-th periodic interrupt (`cmos.cpp:445`); when that is switched off the clock is polled late |
| `Rhythm` | `{{"cmos", "periodic", "late"}}` | the poll that counts a second leaves the time of the last interrupt as it is: one interrupt more |
| `PeriodicKeepsTime` | `{{"cmos", "periodic"}}`, `MaxTime = 12` | the comment at `cmos.cpp:430` says that every n-th periodic interrupt updates the clock; the count is compared after it was assigned, and may miss its maximum |
| `HourReadsBack` | `{{"hours"}}`, `{{"hours", "decimal"}}` | in the 12 hour format the hours from 1 to 11 are read as zero (`cmos.cpp:134`), and a decimal hour is compared before it is converted (`cmos.cpp:276`) |
| `UsbLineFollows` | `{{"usb"}}` | a reset clears the interrupt registers and leaves the line up (`ohci.cpp:315`) |
| `SmbusLineFollows`, its second part | `SmbusUses = {{"cells", "partial"}}` | a title that starts a cycle before it has cleared the status of the last one, then clears one of the two: any clear lowers the line (`smbus.cpp:142`), with the other status still set |
| `SmbusLineFollows` | `SmbusUses = {{"cells", "loose"}}` | a write to CONTROL with interrupts enabled raises the line without a cycle (`smbus.cpp:162`); clearing a status lowers it only if interrupts are enabled then (`smbus.cpp:142`) |
| `VgaFollows` | a title with "consoles" | the table of writable CRT registers is static and outlives the console (`vga.cpp:703`) |
| `VgaFollows`, right after a reset | any | modes and window are those of no register value (`vga.cpp:1392`) |
| `PanningFollows` | one that writes the attribute registers | the panning is computed when it is written, not when mode or width change (`vga.cpp:449`) |
| `PaletteFollows` | "abandon" | a title that starts over in the middle of an entry leaves the DAC and the palette apart (`vga.cpp:579`) |
| `MemoryAsMeant` | "bytes", "latches" | a read fills the latches from the double word with the number of the byte, whatever the access mode (`vga.cpp:1018`) |
| `CompareIgnores` | "pixels" with registers 2 and 7 | a plane that is not to be compared makes the comparison fail when its colour bit is set (`vga.cpp:1042`) |
| `PartitionIsRead` (`Xdvdfs`) | as in `Machine` | the offset of a game partition is assigned to the name (`xdvdfs.cpp:64`): the image is detected and nothing on it is found |

Met while modelling and not part of a property: read_raw_partition and write_raw_partition take an offset in bytes for the number of a cluster (`fatx.cpp:1444`); NVPLL with a divisor of zero ends the emulator
(`pramdac.cpp:62`), and so does a write to the VGA's memory before a pitch is set (`vga.cpp:988`); the ports of the USB hub have no number (`ohci.cpp:175`), so that each looks at the mask of the first;
writes to the GPU's base addresses are stored and move no window (`pbus.cpp:120`); a word at the last command of the EEPROM reaches behind its array (`eeprom.cpp:89`; `Sensible` excludes it);
an alarm of PTIMER that is lowered by more than its period lies far in the past, or wraps and never comes (`ptimer.cpp:86`), since the difference of the two alarms is in units of the counter and what it is added to in microseconds (`ptimer.cpp:177`).
The failed operations of `IoFiles` are not undone either: a create that fails after its entry was stored leaves the entry (`fatx.cpp:1105`, `1149`), and a close is answered with success although the flush of its entry failed
(`fatx.cpp:1611`); `FileStore` states both, as `LeaveBehind` and as the choice in `After`.

## 6. Not modelled

* lib86cpu, Qt, the title and the kernel, but for what they may do at the interfaces above.
* Weak memory: every access is sequentially consistent. The flags and indices are
  atomics with acquire and release order in the code, the mutexes cover the rest; the fields that are neither are in the hazards.
* `setup_paths`, path parsing and time stamps in Host I/O; the contents of methods, surfaces and plain registers of the GPU.
* Of FATX: raw transfers of a partition (`IoFiles` has what they may leave of the directory and of the files, and nothing of the clusters), the configuration area, the paths and time stamps in the files, metadata of older versions.
* Of the timers: reading counters, the date other than seconds and hour, the conversion of host ticks. Access modes of the PIT other than low and high byte end the emulator.
* Of the VGA: drawing (`update` is never called), the cursor, extended CRT registers, marks of modified lines, window bounds. Of USB: endpoint lists, which the code does not walk.
* PFB, PVIDEO and most of PRAMDAC keep what is written; nothing depends on it.
* Leaving the application, and `nxbx_fatal` during initialisation, in `Console`.
* The undefined behaviour of unlocking `m_fifo_mtx` twice (`pfifo.cpp:396` and `240`) is taken as a mutex that stays unlocked.
* The components listed as `not_modelled` in `PROJECT.json`, each with its reason.

## 7. Plan

Done: the core, FATX, timers, SMBus, VGA, the windows and discs. Next, in this order:

1. `GpuPath`: composition of `Pfifo`, `SpscQueue` and `Pgraph`, for the wait on an idle engine with the lock held.
2. `Fatx`: raw transfers; a composition with `IoFiles` in place of its own metadata.

A new component brings one run; the type invariants that are proved make room for its properties, and section 5 for what it refutes.
