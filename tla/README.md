# AI Aura OS: TLA+ specifications

This directory holds a formal model of the AI Aura OS kernel: TLA+ modules
translated from the C source, TLC configurations that check them on small
instances, and proofs checked by TLAPS. `PROJECT.json` lists the runs, the
properties each one checks, the source lines behind every definition, the
hazards the properties are aimed at, and the findings.

    tlc -workers 2 -config MCEventBus.cfg MCEventBus     # a run
    tlapm EventBusProofs.tla                             # a module of proofs

## 1. The system

AI Aura OS is a single-address-space i386 kernel. `kernel_main` initialises
everything in a fixed order and then calls `scheduler_tick()` for ever. There
is one thread; what runs concurrently with it is two interrupt handlers (IRQ0,
the timer, and IRQ1, the keyboard), and what interleaves with it are callbacks
(scheduler tasks, event handlers, plugin hooks) that may call back into the
component that is calling them.

| Component | State | Operations | Interacts with | What is hard |
|---|---|---|---|---|
| Event bus `kernel/eventbus.c` | handler table, event ring with head, tail, count | subscribe, unsubscribe, publish, process | published to by scheduler, plugins, mirror, aura_core; drained by task `event_drain` | handlers change the table and publish during a dispatch; the full ring |
| Scheduler `kernel/scheduler.c` | task table, counter, 32-bit tick | add, remove, tick, list | calls every task; publishes once per tick | tasks add and remove tasks, themselves included, in mid-scan; the tick wraps |
| Keyboard `kernel/keyboard.c` | character ring, shift and caps flags | poll (as IRQ1 handler and as task), getchar, push | IRQ1, `menu_tick`, `serial_poll` | no masking: IRQ1 cuts into the main thread's loads and stores |
| Clock `kernel/pit.c`, `kernel_heartbeat` | `g_tick_count` | IRQ0 handler, heartbeat task | read by plugins, event stamps, mirror, menu | unlocked increment on both sides |
| Heap `kernel/memory.c` | block list in the heap itself | kmalloc, kfree, memory_stats | none in the tree yet | split and join arithmetic, order of frees |
| Plugin manager `kernel/plugin.c` | slot table, counter | register, unregister, activate, deactivate, tick_all | calls hooks; publishes | hooks call the manager; hooks fail |
| Module loader, modules, adapters | `loaded` flags | load, unload, load_all, adapter_register | plugin manager | the flag is set after the nested init |
| Environment `env/env.c` | variable table | set, get, save, load | FAT12; saved by shutdown and panic | truncation, buffer limit, restore after a crash |
| FAT12 `env/fat12.c` | disk: directory, two FATs, data; FAT cache | init, read_file, write_file | environment, ATA | failed sector writes, power loss between sectors |
| ATA `adapters/ata.c` | none of its own; the drive's registers and cache | init, read_sectors, write_sectors | FAT12 | timeouts with the drive still at work, errors after the data, the volatile cache |
| In-memory files `env/fs.c` | file table | create, write, read, delete | nobody | name and size limits |
| Mirror `kernel/mirror.c` | snapshot slots, sync counter | sync, capture, restore, verify, dump | scheduler task `mirror_sync`, menu | the checksum against the order of assignments; restore against state that moved on |
| Menu `kernel/menu.c` | slot of the next snapshot | run, tick | keyboard, mirror, shutdown and panic, all the printing | the slot wraps past the boot snapshot |
| Interrupts `kernel/idt.c` | IDT, handler table, PIC masks | init, register, mask, unmask, dispatch, EOI | keyboard, PIT | masks and the cascade line, spurious interrupts, EOIs that name no line, edges lost in the initialisation |
| VGA `kernel/vga.c`, serial output `adapters/adapter_serial.c` | screen, position, cursor, serial hook | put, print, printf, scroll, clear; mirror a character | everybody prints | wrap and scroll at the borders, the unbounded wait for the transmitter |
| Paging `kernel/paging.c` | page directory and table | one pass at boot | guards the heap | page numbers from literals of two files |
| Kernel loop `kernel/kernel.c` | kernel state | boot, the loop, panic, shutdown | all | whether the order and periods of the tasks keep the event queue from filling |
| Boot sector, linker script | - | one pass at boot | - | straight-line |

What makes each modelled component correct: the bus is a bounded FIFO and
calls every handler that was left alone once; the scheduler runs every task
exactly on its period, keeps one task running, and its counter agrees with its
table; the keyboard loses no character except where it says so; the clock
counts what it says, and ages computed from its stamps are durations; captured
snapshots verify and are kept; heap blocks tile the heap, are mapped, and have
unmapped pages around them; plugin names are unique and
hooks alternate; a save is durable, harms nobody else, and an interrupted one
leaves an old or a new file; a sector write that is acknowledged is stored, and
a read delivers what is stored; no interrupt is lost or left in service; the
screen and COM1 show what was printed; and the running kernel never loses an
event.

## 2. The modules

| Module | Models | Notes |
|---|---|---|
| `BoundedFifo` | - | abstract specification of the event queue |
| `EventBus` | `kernel/eventbus.c` | refines `BoundedFifo` (`ImplementsFifo`) |
| `Scheduler` | `kernel/scheduler.c` | |
| `Keyboard` | `kernel/keyboard.c`, its callers in `menu.c`, `adapter_serial.c` | |
| `KernelClock` | `kernel/pit.c`, `kernel_heartbeat` | |
| `Mirror` | `kernel/mirror.c`, `kernel/menu.c` | extends and composes `KernelClock` |
| `Heap` | `kernel/memory.c` | |
| `Paging` | `kernel/paging.c` | extends and composes `Heap` |
| `Plugins` | `kernel/plugin.c` | |
| `Loader` | `modules/*.c`, the registration of the adapters | extends and composes `Plugins` |
| `Fat12` | `env/fat12.c`, outcomes of `adapters/ata.c` | |
| `Env` | `env/env.c`, boot, shutdown and panic of `kernel/kernel.c` | extends and composes `Fat12` |
| `Ata` | `adapters/ata.c` against a drive (external) | what `Fat12` takes for granted of a read or write |
| `Interrupts` | `kernel/idt.c`, the set-up in `pit.c`, `keyboard.c`, `kernel.c` against two 8259s (external) | |
| `Console` | `kernel/vga.c`, output of `adapters/adapter_serial.c` | |
| `KernelLoop` | the loop of `kernel/kernel.c` | composes `Scheduler` and `BoundedFifo` (`INSTANCE`), refines `Scheduler` (`UsesScheduler`) |
| `KernelLemmas` | - | lemmas shared by the proofs: arithmetic, bounded induction, existence of recursive functions |
| `EventBusProofs`, `SchedulerProofs` | - | theorems about the module of that name |
| `RaceProofs` | - | theorems about `Keyboard`, `KernelClock` and `Mirror`: the state that a handler and the main thread both change, and what is stamped with it |
| `HeapProofs` | - | theorems about `Heap` and `Paging` |
| `LoaderProofs` | - | theorems about `Plugins` and `Loader` |
| `StorageProofs` | - | theorems about `Ata`, `Fat12` and `Env` |
| `KernelProofs` | - | theorems about `Interrupts`, `KernelLoop` and `Console` |
| `MCRaces` | - | `Keyboard` and `Mirror` for TLC |
| `MCAdapters` | - | `Loader` and `Console` for TLC |
| `MCKernel` | - | `Interrupts` and `KernelLoop` for TLC |
| `MCEventBus`, `MCScheduler`, `MCHeap`, `MCEnv`, `MCAta` | - | instances of one module, or of the one that extends it |

Definitions named like `RemovedCompacting` or `DueSigned`, standing just before
the definition they resemble, are mutants: the same piece of code with a
plausible bug. `PROJECT.json` says which property each one breaks. They are
used by no specification.

### How code becomes actions

* **Callbacks.** `eventbus_process`, `scheduler_tick` and the plugin
  operations are split where they call a callback. While the callback runs, any
  operation a callback may call is enabled. `EventBus` and `Scheduler` need a
  program counter and a loop index; in `Plugins` operations nest, so the
  operations in progress are a stack of frames. A hook may call the manager for any
  plugin, its own included: an operation writes its state into its slot when the
  hook returns, whatever has become of it. Bounds: `MaxDepth`; `MaxDrift`, how
  often an operation may be undone in this way.
* **Interrupts.** A handler runs with interrupts off and is one atomic step. The
  main thread's routines are sequences of single loads and stores.
  In `Keyboard` a routine is the list of its memory operations (`PollOps`,
  `GetcharOps`, ...), executed one per step. The variables are not `volatile`,
  so their order is the compiler's choice: the lists are the order of
  `gcc -m32 -O2` as in the Makefile, notably that `keyboard_poll` keeps the
  modifier flags in registers until it returns and that `keyboard_getchar`
  stores the count before the tail.
* **Disk.** In `Fat12` a sector write is atomic and has four outcomes: done;
  failed and done (a timeout after the transfer); failed and not done; and
  acknowledged but lost, because `ata_write_sectors` does not look at the error
  bit after the data. `lost` records that the last one has happened:
  `OthersUntouched` holds all the same, the other properties of the file do
  not claim anything then. `MaxLost` bounds how often it happens. The FATs are
  bytes: two 12-bit entries share three of them, as `fat12_next_cluster` and
  `fat12_set_cluster` pack them. A disk of the constant `Disks` is what a host
  left, kept in the history variable `host`: its bytes, whether they are a FAT12
  `volume` at all, which `fat12_init` does not look at, and the `chain` of
  clusters of AIOS.ENV, of which the code reads and writes the first only. Other
  files, directories and bad sectors are any marks outside that chain
  (`Theirs`). What is promised of volumes says so (`host.volume`); on other
  disks the code does the same things, and `ForeignDiskUntouched` shows it. Power
  loss may come between any two steps and erases everything in memory. `Ata` has
  the call itself, register by register, and shows when a read is right: `Fat12`
  assumes that a read that returns OK is, which is `ReadIsFresh` without its exception, the calls after one that has
  given up before its data were transferred (`outOfStep`).
* **Hardware.** The drive, the 8259 controllers and the UART are modelled from
  what the drivers use of them, as loosely as their manuals allow: the drive
  may take any time for any command and fail any of them, a device may withdraw
  its request at any time, a transmitter is busy for any time. These
  definitions are marked external in `PROJECT.json`.
* **Composition.** The state of `KernelLoop` is that of `Scheduler` and of
  `BoundedFifo`, its tasks are those of `kernel_main`, and each of its steps
  uses theirs. `UsesScheduler` shows that the loop is a behaviour of
  `Scheduler`, so that what is shown there for any tasks holds for these.
* **Calls that are refused** (a full table, a bad argument) change nothing and
  are stuttering steps, except where a result is kept because a property is
  about it (`pub_ret`, `ret`).
* **Data.** Event payloads, key codes, names, words and file texts are reduced to
  what the code tells apart. Conversions that matter are kept: truncation of
  names (`Trunc`), wrap of the tick (`TickMod`), rounding (`RoundUp`), the
  serialised environment as lines with their lengths.

History variables (commented `history:`) record what happened for the sake of
a property and are read by no guard, except the bounds named below.

## 3. The runs

| Run | Instance | What it shows |
|---|---|---|
| `eventbus` | ring of 2, two topics of two places, two callbacks | `RingInv`, `UntouchedHandlersRunOnce`, `ImplementsFifo`, `EveryEventIsTaken` |
| `scheduler` | 3 places, periods 0 and 3, tick modulo 4 | `CountInv` (types, one running task, counter against table), `NeverOverdue`, `RunsEveryNTicks`, `RemovedStaysRemoved` |
| `races` | *keyboard*: ring of 2, up to 4 bytes, two shift keys, IRQ1 anywhere; *mirror*: 4 slots, up to 5 syncs, counter modulo 4, timer interrupts anywhere | `BufferInv` and `ModifiersUnlessRaced` (right outside the named windows); `LostOnlyInHeartbeat`, `AgeIsElapsed`, `SnapshotInv` (captures verify, the latest are kept), `BootSnapshotKept` |
| `clock_timer` | the same; do the ticks follow the timer? | violated: one heartbeat is enough |
| `heap` | 160-byte heap in five pages, requests of 4 to 36 bytes, one too large, one that wraps | `HeapInv` (tiling, joining), `WalkInv` (accounting, first fit), `ResultHoldsRequest`, `PagingGuardsHeap` |
| `adapters` | *plugins*: 2 slots, 3 plugins, operations nested 3 deep (4 with the loader), for any plugin; *console*: screen of 2 by 3, five characters, tab stops of 2 | `PluginInv` (counter, unique names), `HooksPaired`, `LoadedAfterInit`, each with its named exception; `ScreenInv`, `SerialCarriesText`, `PrintReturns`; the assumption `NumbersAreRight` |
| `plugins_tick` | the same; is a plugin whose hook failed in ERROR? | violated by a failing tick |
| `storage` | four volumes, two FAT sectors, failures, lost writes and power loss anywhere | `StorageInv` (no leak but the rest of a longer AIOS.ENV), `OldOrNew`, `SavedIsOnDisk`, `OthersUntouched`, `BootRestores` |
| `storage_message` | the same; does shutdown report a save as a save? | violated: it reports the opposite |
| `storage_foreign` | a disk of other bytes; is it left alone? | violated: it is mounted and written |
| `ata` | two sectors, four calls, two polls to a timeout | `DriveInv` (what was acknowledged is stored), `ReadIsFresh`, `NoStrayWrite`, `CallReturns` |
| `kernel` | *interrupts*: timer, keyboard and line 12, a driver on lines 2 and 12; *kernel loop*: the real tasks and periods, queue of 4, tick modulo 23 | `ServiceInv`, `NoInterruptWithoutHandler`, `RequestIsDelivered`, `EveryByteIsRead`; `QueueInv` (nothing refused, one tick of waiting at most), `EventsDispatched`, `UsesScheduler` |

`MCRaces`, `MCAdapters` and `MCKernel` each check two modules that share no
variable. One of the two moves while the other is as it was at boot: what both
do together is what each does, in some order, and every property is about one
of them.

The names ending in `Inv` are conjunctions of a module's type invariant with
its state invariants, each of them a named definition with a comment of its own.

### Bounds, and why they are enough

* `eventbus`: two topics so that a handler may touch the topic being dispatched
  or another; two places and two callbacks so that there is a place before and
  behind the running handler, and a callback may be registered twice. A ring of
  2 wraps and fills; every other size is covered by the theorems.
* `scheduler`: three places give a task in front of and behind the running one;
  period 3 with a tick modulo 4 meets every phase of the wrap, and so does the
  first run of a new task; 3 is the longest period that fits the counter.
  `MaxDrift` bounds only how often an already dead task is removed, which moves
  the counter and nothing else. Two names, one of which is truncated to the other.
* `races`, keyboard: a buffer of 2 is full after two of the four bytes, so a push is
  dropped, the ring wraps, and an IRQ1 can hit a push and a getchar of the same
  behaviour. Three bytes press both shift keys and release one, the fourth is a
  character, the other release or caps lock.
* `races`, mirror: the counter (modulo 4) wraps within 3 interrupts and 3 heartbeats,
  and two interrupts fit into one heartbeat, which is what sets the counter back;
  after the boot capture four more syncs let the user's two slots wrap and a
  plain sync fall between captures. One sync in two is announced, so that the
  publication and the full queue (of one) happen. The run ends when its bounds
  are used up or the kernel halts, hence `CHECK_DEADLOCK FALSE`.
* `heap`: units of 4 bytes keep the real proportions (header 20, alignment and
  least remainder 8). At most five blocks exist: a free block can have used and
  free neighbours on both sides. A page has 8 units, so blocks begin and end
  within pages and at their borders. A size has 128 values instead of 2^32; the
  request 127 wraps, 60 fits no block.
* `adapters`, plugins: two slots for three plugins, so that a registration can be
  refused, one freed slot lies in front of one in use, and a plugin can come back in
  another slot than its own; depth 3 lets a hook unregister its plugin, register
  it again and bring it up before the outer operation goes on. `MaxDrift` of two
  meets a slot revived, and one counted out twice. `MaxErrors` only caps a
  statistic. Three slots go beyond what TLC does in a few minutes; the theorems
  hold for any number.
* `storage`: the FAT has two sectors of five bytes, so the entry of cluster 2
  shares a byte with that of cluster 3, and the latter lies in both sectors: a
  half-flushed FAT holds half an entry. One write of a behaviour may be lost
  (`MaxLost`): with two, only `OthersUntouched` would say anything more. A value
  has one character (the default) or three (a longer one, cut). Two long ones and
  a short one fill the sector of 17 characters exactly up to the terminator;
  three long ones do not fit. The volumes: one without AIOS.ENV, which the first
  save creates in the cluster between the two of another file; one with a deleted
  entry in front of an AIOS.ENV of two clusters; a full directory; no free
  cluster. `storage_foreign` has one disk of other bytes instead (`MCImages`).
* `kernel`, interrupts: the timer has the highest priority, the keyboard comes next, and
  line 12 goes through the slave and the cascade (line 2): a nesting of two
  controllers and a line above and below it.
* `ata`: four calls after `ata_init` are a write, one that gives up, one that
  meets what it left behind, and a read that sees the result; two sectors tell a
  stray write from a right one. `PollMax` only says how long the driver waits.
* `adapters`, console: six cells fill and scroll within five characters, with tabs,
  backspaces, carriage returns and newlines at every column; `MaxChars` bounds
  the text since the last clear. `NumbersAreRight` is evaluated for all numbers
  of 8 bits, the least one (whose negation is itself) included.
* `kernel`, kernel loop: nothing is scaled but the two long intervals (256 syncs, 1000
  ticks of aura_core), which become 2 so that all publications coincide in some
  tick. A queue of 4 is the least for which `QueueInv` holds (the four plugins
  of boot fill it); the kernel's has 64. 23 ticks are no multiple of any
  period, so the phases of the tasks shift with every wrap. The kernel may halt, hence
  `CHECK_DEADLOCK FALSE`.

### Fairness

* `EventBus!FairSpec`: `event_drain` is a task of period 1 of an endless loop, so
  `eventbus_process` is called again and again; the CPU executes what is
  called; handlers are cooperative, that is they return. Weak fairness on each;
  nothing is assumed of who subscribes and publishes.
* `Interrupts!FairSpec`: the CPU accepts what the controller delivers and
  executes a dispatch to its end; strong fairness for the steps of the main
  thread, which interrupts delay but do not starve, because a dispatch is far
  shorter than the time between two interrupts. Nothing is assumed of the
  devices, of the other driver or of when the kernel halts.
* `Ata!FairSpec`: the CPU executes the driver. Nothing is assumed of the drive,
  which may never answer: `CallReturns` rests on the bounded polls alone.
* `Console!ConsoleFairSpec`: the CPU executes `vga_putchar`, and the UART sends what it
  is given; it uses no flow control. Without the second assumption the wait of
  `adapter_serial.c:46` has no end. `MCAdapters` assumes the same
  (`ConsoleFairness`).
* `KernelLoop!KernelFairSpec`: the CPU executes `kernel_main` and what it calls. The
  menu's keys are nobody's duty.
* `MCKernel!MCSpec`: that of `Interrupts!FairSpec` and `KernelLoop!KernelFairSpec`,
  each where the other of the two modules rests.

### Findings

* `storage_message`, `kernel.c:62`: `env_save` returns the length, so a
  successful save is reported as skipped.
* `clock_timer`, `kernel.c:37`: the heartbeat task increments `g_tick_count` as
  well as IRQ0, so the clock depends on the speed of the loop. `pit.h:8` says
  that it does not. `LostOnlyInHeartbeat` says what the counter does count.
* `plugins_tick`, `plugin.c:97`: a failing tick leaves its plugin ACTIVE, and it
  is ticked again; `docs/plugin_api.md:69` has it in ERROR.
* `storage_foreign`, `fat12.c:141`: `fat12_init` never looks at sector 0, so
  every disk is mounted; the next save writes FATs, a directory entry and a
  data sector over what is there. On the image of the Makefile that is the kernel.
  `fat12.h:20` says that the BPB is read.

Met while modelling and not the subject of a run. Where a property has an
exception for it, the property is named: it shows that there is no other.

* *Clock.* A timer interrupt between the load and the store of the heartbeat is
  overwritten (`kernel.c:37`; `LostOnlyInHeartbeat`).
* *Keyboard.* Both shift keys share one flag, which the release of either clears
  while the other is down (`keyboard.c:84`; `ModifiersUnlessRaced`).
  A modifier handled by IRQ1 while the poll task holds the flags in registers is
  overwritten (the same). `keyboard_getchar` is not protected against IRQ1
  (`keyboard.c:103`), nor is a push of the main thread: characters are lost or
  returned twice and the count stays wrong (`FifoUnlessRaced`).
* *Plugins.* A hook that has its own plugin unregistered frees the slot while
  its operation is still under way. The operation then writes its state into
  the freed slot (`plugin.c:78`, `:87`), which is in use again and not counted;
  a second unregistration counts it out once more (`plugin.c:62`). `drift` counts these
  returns and `crossed` holds the slots two operations had in work at once
  (`PluginInv`, `HooksPaired`, `LoadedAfterInit`). No plugin in the tree does it.
  `loader_unload` clears the flag and leaves the plugin registered, so that a
  later load fails as a duplicate (`loader.c:42`).
* *Files.* A save over an AIOS.ENV of several clusters marks the first as the
  last and leaves the others without a file (`fat12.c:253`; `Rest` in
  `StorageInv`); `env/aios.env` of the repository has 633 bytes. An empty
  AIOS.ENV with cluster 0 is written into the root directory area (`fat12.c:58`;
  excluded by `DisksAreBytes`). An interrupted save that lengthens AIOS.ENV can
  leave its last line cut off (`OldOrNew`). `env_save` drops what does not fit
  its buffer and reports success (`env.c:100`; `BootRestores`).
* *ATA.* `ata_write_sectors` does not look at the error bit once the data are
  sent, and sends the flush without waiting for BSY, so that a busy drive
  ignores it and a write that failed is acknowledged (`ata.c:140`; `DriveInv`).
  A call that gives up leaves its command with the drive, and the next call takes
  the late answer for its own (`ata.c:131`; `outOfStep` in `ReadIsFresh` and
  `NoStrayWrite`).
* *Interrupts.* `irq_unmask` of a line of the slave leaves the cascade masked
  (`idt.c:321`); no driver of the tree uses such a line (`RequestIsDelivered`).
* *Scheduler.* A task that removes itself is set back to READY, runs again and is
  no longer counted (`scheduler.c:79`; `RemovedStaysRemoved`, `CountInv`).
* *Mirror.* A restore puts the environment back to the defaults, not to what it
  was at the snapshot, so values loaded from AIOS.ENV are gone and the next
  shutdown saves the file without them (`mirror.c:104`; the comment there calls
  it the best approximation available). `mirror_sync` sums the fields up before
  it sets the label (`mirror.c:62`), so the live snapshot fails `mirror_verify`
  from `menu_run` to the next sync (`CapturesVerify`).
* *Memory.* The seven largest requests wrap to 0 in `kmalloc` (`memory.c:53`),
  which then returns an empty block (`ResultHoldsRequest`). A second `kfree` of
  a block that was joined with its predecessor passes the magic test and breaks
  the list (`Kfree` models callers that free once); nothing in the tree calls
  either. The page directory lies in the page above the heap, which is the upper
  guard page itself (`paging.c:25`, whose comment places it above the guard
  region): the CPU walks it by its physical address, so this does no harm.

## 4. What is proved

| Theorem | Statement | For all |
|---|---|---|
| `EventBusProofs!RingStaysCoherent` | `Spec => []RingInv` | ring sizes, topics, places, callbacks, payloads |
| `EventBusProofs!BusImplementsFifo` | `Spec => ImplementsFifo` | the same |
| `EventBusProofs!EveryHandlerRunsOnce` | `Spec => []UntouchedHandlersRunOnce` | the same |
| `SchedulerProofs!CountAgrees` | `Spec => []CountInv` | table sizes, counter widths, periods, names |
| `SchedulerProofs!RemovedForGood` | `Spec => RemovedStaysRemoved` | the same |
| `SchedulerProofs!CounterIsNotEarly` | `Spec => []CounterNeverRefusesEarly` | the same |
| `SchedulerProofs!NoTaskIsLate` | `Spec => []NeverOverdue` | the same |
| `SchedulerProofs!PeriodsAreExact` | `Spec => RunsEveryNTicks` | the same |
| `RaceProofs!BufferIsSound` | `Spec => []BufferInv` | buffer sizes, numbers of bytes |
| `RaceProofs!FlagsFollowKeys` | `Spec => []ModifiersUnlessRaced` | the same |
| `RaceProofs!ClockLossBounded` | `ClockSpec => []LostOnlyInHeartbeat` | counter widths, interrupts, heartbeats |
| `HeapProofs!ListIsWhole` | `PagedSpec => []HeapInv` | heap, header, alignment and page sizes, word widths, sets of requests |
| `HeapProofs!WalksSeeEveryBlock` | `PagedSpec => []WalkInv` | the same |
| `HeapProofs!RequestIsHeld` | `PagedSpec => ResultHoldsRequest` | the same |
| `HeapProofs!PagesGuardHeap` | `PagedSpec => []PagingGuardsHeap` | the same |
| `LoaderProofs!TableInOrder` | `LoaderSpec => []PluginInv` | table sizes, descriptors, modules, depths of the nest of hooks |
| `LoaderProofs!HooksAlternate` | `LoaderSpec => []HooksPaired` | the same |
| `LoaderProofs!FlaggedAfterInit` | `LoaderSpec => LoadedAfterInit` | the same |
| `RaceProofs!SnapshotsAreKept` | `MirrorSpec => []SnapshotInv` | numbers of slots, counter and checksum widths, labels, queues |
| `RaceProofs!BootSlotIsKept` | `MirrorSpec => BootSnapshotKept` | the same |
| `RaceProofs!AgesAreDurations` | `MirrorSpec => []AgeIsElapsed` | the same |
| `KernelProofs!ServiceIsMatched` | `Spec => []ServiceInv` | devices and lines of other drivers |
| `KernelProofs!EveryInterruptHasHandler` | `Spec => []NoInterruptWithoutHandler` | the same |
| `KernelProofs!QueueSuffices` | `KernelSpec => []QueueInv` | queues of four or more, table sizes, tick widths, publication intervals |
| `KernelProofs!LoopUsesScheduler` | `KernelSpec => UsesScheduler` | the same |
| `KernelProofs!BuiltinTasksOnTime` | `KernelSpec => []S!NeverOverdue /\ S!RunsEveryNTicks` | the same |
| `KernelProofs!ScreenIsRight` | `ConsoleSpec => []ScreenInv` | screens of two or more rows, tab stops, alphabets, texts, widths of an int |
| `KernelProofs!SerialIsComplete` | `ConsoleSpec => []SerialCarriesText` | the same |
| `StorageProofs!AckedWritesAreStored` | `Spec => []DriveInv` | sectors, contents, lengths of the polling loops, calls |
| `StorageProofs!ReadsAreFresh` | `Spec => []ReadIsFresh` | the same |
| `StorageProofs!WritesHitTheirSector` | `Spec => NoStrayWrite` | the same |
| `StorageProofs!VolumeIsKept` | `StorageSpec => []StorageInv` | disks, sizes of directory, FAT and sector, variables, lost writes |
| `StorageProofs!SavesReplaceTheFile` | `StorageSpec => []OldOrNew` | the same |
| `StorageProofs!SavesReachTheDisk` | `StorageSpec => []SavedIsOnDisk` | the same |
| `StorageProofs!OtherFilesAreSafe` | `StorageSpec => []OthersUntouched` | the same |
| `StorageProofs!BootsRestore` | `StorageSpec => BootRestores` | the same |

The assumptions are those the modules name, and TLC evaluates them in the runs.
Sizes are positive naturals; `NULL` is no handler, 0 is a payload; periods fit
the counter and `Trunc` is defined on the names; a machine word holds more than
the size of the heap and a header; the heap is a whole number of pages, apart
from the kernel's pages and the page tables, with room for a guard page on
either side (`MemoryLayout`, the layout `paging.c` and `memory.h` fix); every
module has a descriptor; timer and keyboard are wired to their lines and no
device to the cascade; the `None` of `Ata` is neither the content of a sector nor
a result; what a snapshot sums up fits the checksum, and exclusive or stays
within it (`ChecksumWidth`), the labels of the code have a sum
(`LabelsOfTheCode`); a disk is any bytes, but that
an entry of AIOS.ENV names a data cluster (`DisksAreBytes`); a volume has two
equal FATs, AIOS.ENV is a chain that ends with an end mark, and the
clusters of other entries are marked and none of its own, the marked clusters
being otherwise arbitrary (`VolumesAreSound`); truncating a key twice is truncating it
once (`EnvConstants`); the event queue has four places or more, where the kernel's
has 64 (`RoomForEvents`); a screen has more than one row, and texts, digits and
controls are made of its characters (`ScreenSize`, `Characters`).

*Event bus.* `TypeOK` is inductive by itself: `ProcessTake` is guarded by a
positive count and `Enqueue` by a count below the depth. Coherence and the
refinement need one another's facts only through `RingInv`, which is `TypeOK`
together with `RingCoherent`: the place `Enqueue` writes is the one after the
last pending event only if tail, head and count agree. Under it the lemmas
show that the sequence `Pending` is appended to by `Enqueue` and loses its head
in `ProcessTake`; all other steps leave the mapped state alone.
`UntouchedHandlersRunOnce` speaks of the end of a dispatch only; `CallsInv` says
at every point of it that a callback left alone has been called once for each
of its places among those read so far. It survives the calls of the handlers
because a registration takes or frees one place and moves no other.

*Scheduler.* The counter's invariant is not inductive alone. `CountInv` adds to
it `TypeOK`, `OneRunningTask` and `RunningEntry`: while a task is being called
its entry is RUNNING or, if it was removed, a ZOMBIE. Without the last part
`TaskReturn` could turn an EMPTY place into a READY task and the sum would be
off. The steps on cardinalities rest on the library's finite-set theorems.
`CounterNeverRefusesEarly` follows: live places are at least as many as the
counter says, so a full counter leaves no EMPTY one. `RemovedStaysRemoved` is an
action property: one case per action says what it does to a ZOMBIE, and only
`TaskReturn` brings one back, that of the running task.
That no task is late or early needs `PunctualInv`, which ties `gap`, the number
of ticks a task has waited, to what the code compares. For a task that has run
(`Regular`) the counter stands `gap` after `last_run`, modulo its width; `gap` is
below the period where the scan has passed the task and at least 1 where it has
not. For one that waits for its first run (`Fresh`) `gap` is at most one more
than the counter, because the task would have been due in the last tick before a
wrap unless it was added in it: this is where the extra tick of `NeverOverdue`
comes from. The arithmetic is `Distance`: the unsigned difference of two readings
less than a lap apart is the distance between them.
Through `UsesScheduler` these results hold of the kernel's own tasks, where
nothing is ever removed.

*Keyboard.* The main thread stands at one of 23 places (`Places`), the suffixes of
its lists of loads and stores; `Labels` tells them apart by their next operation
and their length. `BufferIInv` says of each place what the three stores still to
come will repair: the accepted characters lie from `kb_tail` on at every place
(`Contents`), while `kb_count` and `kb_head` lag behind or run ahead of them
(`CountAt`, `HeadAt`) and the registers hold what was loaded (`RegistersAt`). All
this holds until a push of the handler hits a place inside the ring. What holds
even then is `CountFits`: a store that increments the count follows a load that
left room, one that decrements it a load that was positive, so that `kb_count`
stays in range whatever the race does to it. `FlagsAt` does the same for the
modifier flags: each is right in memory unless `keyboard_poll` has it in a
register, and then it is right there; a copy that will not be stored is
unchanged; and the byte `keyboard_poll` has seen in the status is still in the
controller (`ByteWaits`), which is why a byte taken between the reads of status
and data is an exception of the property. What `shift_held` says is that a shift key
is down and the last byte of a shift key was no release (`ShiftShown`).

*Clock.* The equation is not inductive alone: the store of a heartbeat writes
what was loaded. `ClockInv` adds `LoadedIsOld`: the register holds the count
without the interrupts of the window. The arithmetic is one lemma, `ModSucc`:
counting on from a remainder is counting on from the number. Every step of
`Mirror` that is not a step of `KernelClock` leaves the clock alone, so the
theorem holds there too.

*Mirror.* `MirrorIInv` follows the snapshots slot by slot. The live one is
labelled after it is summed up, so its first sum is stale and every later one
right (`LiveAt`); the others are copied whole and never touched but by a
capture into the same slot (`SumsAt`), and the user's slots are a ring in which
the captures of the history lie in their order (`RingSlots`). That an age is a
duration needs the histories of the clock: `StampAt` says that a stamp is what
the clock showed at its sync, and that interrupts lost since then also came
since then.

*Heap and paging.* The lemmas speak of any table of headers and any set of
blocks (`Listed`): what splitting a block, marking it and letting it absorb its
successor do to a list that tiles the heap. `Listed` says more than `Tiled`: the
prev pointer of every block but the first leads to a block whose next pointer
leads back, which `kfree` relies on when it joins with the predecessor.
`PagedInv` is `AllocInv` (the list; where a call stands in it; no block that fits
has been passed over) with `TableInv` (what `paging_init` has mapped so far). Of
the request and the block `kmalloc` returns the proof needs that rounding up
either wraps to 0 or does not decrease.

*Plugins.* Hooks call the manager, so several operations are under way at once.
`ManagerInv` adds to the table's invariant one on the frames: an operation that
waits for a hook finds its slot in the state in which it left it and, unless the
slot has been crossed by another operation, it is the only one that has it in
work; `loader_load` waits right below the activation it asked for, or has just
seen its end. A crossed slot may be in any state when the hook returns: if it is
free, the return is one of those `drift` counts, which is all the counter can
lose. Names stay unique and hooks alternate in the other slots, because what
reaches a slot in work without crossing it is its own operation only. `FlagsOK`
carries this to the flags of the loader.

*Interrupts.* `DispatchInv` adds that a dispatch is never interrupted (the gate
turns interrupts off) and that the handlers are registered before their lines are
opened (`HandlersFirst`, one conjunct per place of the initialisation). With one
call under way at most, the line an EOI without a number ends is the one in
service.

*ATA.* Neither the promise of a write nor that of a read is inductive: both are
about what happens when a call ends, and the drive may be late. `AtaInv` adds to
them, as long as no call gave up before its data were transferred, that at each
point of a call the drive is in one of a few phases (`InStep`: resting, at the
command just given, ready for the transfer, failed, writing the sector it was
sent, done with it, or still busy with a write of a call that has given up) and
that a sector on its way is on its way to its place while nobody has been told
that it is there (`OnItsWay`). One lemma per action says that the phases follow
each other. The two exceptions of the properties, an error after the data were
sent and a call that gave up too early, are the code's and not the proof's: the
driver guards against neither.

*Storage.* A save is a sequence of sector writes, each of which may fail, be
lost or be the last before a power loss. `StorageIInv` says at each point how far
it has come: the entry and the cluster being written belong to no other file and
the cache marks the cluster (`WriteAt`); the cache is FAT1 until the save
begins to change it (`CacheAt`); on a volume AIOS.ENV has none of the
clusters of others, `Theirs`, and the cache has their marks (`OthersAt`); and, as
long as the drive does what it says, every mark belongs to the others, to the
rest of the AIOS.ENV the host left, or has a directory entry (`Owned`), because
the entry is written before the FATs (`MarksAt`), and what has been stored so far
is the data, then the entry, then the FATs up to a sector (`SaveAt`). Only the
first two speak of other files, and they hold on a volume alone; how a save
proceeds and what a boot reads is the same on any disk. The clusters of the
others survive a half
flushed FAT although entries share bytes and straddle sectors: an entry on
which cache and FAT agree is the same in every mixture of their sectors
(`Mixed`), and setting one entry changes no other (`SetClusterIs`).
That a boot restores what was saved is `RestoreIInv`: the table begins as the
defaults and only grows, places are never given up (`Grown`), and keys are
stored truncated (`Truncated`), so that loading the lines of the file over the
defaults rebuilds the saved table in the same order.

*Kernel loop.* The argument for the queue is a budget. `LoopInv` says that the
task table is that of `kernel_main` (`TasksInPlace`), that `event_drain` is due in
every tick because its `last_run` is one tick behind whenever the scan is in front
of it (`DrainDue`), how many events can have been published by each place of the
scan (`RoomLeft`: at most four before the drain), and that none is older than
the current tick behind it (`EventsAreNew`). The refinement `UsesScheduler` goes
step by step. The theorems of `SchedulerProofs`, instantiated with the state of
the loop, then give `BuiltinTasksOnTime`.

*Console.* The reference is a page without an end. `PageOf` is a function of the
text alone, and the lemma `PageOfIs` says that a further character changes the
page by `Typed`. `ScreenAt` says that the screen is the `View` of that page and
the position the end of it; `InkedView` and `GrownView` show that storing a
cell and scrolling are what `Typed` does, seen through the view, and `PutShows`
puts them together for each kind of character, the tab as the next multiple of
the tab stop. The cursor lags behind until `vga_update_cursor` (`CursorAt`). For
COM1, `WireAt` adds to what was sent what is still owed of the character under
way (`Owed`): a byte given to an empty transmitter moves from the one to the
other, and the loop of `serial_write` sees to it that it is empty.

What recursion computes is proved where the recursion is a function over
numbers: such a function exists (`RecursionExists`) and a claim about it holds
for all its arguments because it has no least counterexample
(`BoundedInduction`). The lengths that `Serialised` and `Parsed` go by, the lines
that `env_load` sets one after the other, `PageOf`, `Carried` and the digits of a
number are treated this way.

Only model-checked:

* liveness and everything under fairness: the prover does not handle ENABLED.
  These are `EveryEventIsTaken`, `RequestIsDelivered`, `EveryByteIsRead`,
  `CallReturns`, `PrintReturns` and `EventsDispatched`;
* that the digits printed denote the number (`NumbersAreRight`), which TLC
  evaluates for every number of 8 bits. `FormattedIsText` proves only that
  they are characters.

## 5. What is not modelled

* `env/fs.c`: `kernel_main` calls `fs_init` and nothing calls any other
  operation, so its table holds the root directory for ever.
* The boot sector, the linker script and the build: straight-line code and
  recipes.
* What is only printed (lists, dumps, banners), colours, and statistics that
  nothing reads.
* Fixed port writes that set a device up once: the divisor of the PIT, the line
  parameters of the UART, the vectors of the PICs.
* The byte loops of `kstring.c`, except for what they keep of a string.
* The registers an interrupt saves, and the layout of descriptors and page table
  entries as bits.
* Transfers of more than one sector per call of the ATA driver: `fat12.c` makes
  none.

## 6. Plan

1. *Core* (done): event bus, scheduler, keyboard, clock, heap.
2. *Life cycles and persistence* (done): plugins and loader; FAT12 and
   environment.
3. *Mirror and menu* (done), on top of the clock.
4. *Interrupts* (done): masks, cascade, handler table, end of interrupt.
5. *Kernel loop* (done): the composition of scheduler, bus and the tasks of
   `kernel_main` with their real periods.
6. *Devices* (done): the ATA protocol, screen and serial output, paging.
7. *Proofs* (done): every invariant and every action property of a passing run
   is a theorem of its specification. What is left to TLC is liveness and
   `NumbersAreRight`.
