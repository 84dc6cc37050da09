# A TLA+ development of the Simurgh hardware abstraction layer

Layer 01 of Simurgh OS is a set of Rust crates that stand between the
firmware and a kernel: `hal-core` (the traits), one `hal-<arch>` crate for
x86_64, arm64 and riscv64, `hal-manifest` (the description of the machine that
the kernel is given), `hal-direct` (operations granted to a token holder at run
time) and `kernel-stub` (a `kernel_main` that reports and halts). There is no
operating system below it and no scheduler in it. What makes it hard is
hardware: interrupts that arrive between any two instructions of a call,
handlers that call back into the HAL, counters and comparators that run by
themselves, tables that firmware wrote, and pools of fixed size.

The modules model the control of that code on one core, and the harts of
riscv64 that enter `_start` beside it. Data is reduced to
what the properties tell apart. `PROJECT.json` maps each definition to its
source lines.

## 1. Inventory

| Component | State | Operations | Interacts with |
|---|---|---|---|
| Timer (`timer.rs`) | frequency, capability, callback, tickless flag; comparator and counter in hardware | `now_ns`, `set_oneshot`, `cancel_oneshot`, `set_tickless`, `set_timer_callback`, `on_timer_interrupt` | trap dispatch calls it; callbacks re-arm it |
| Interrupt controller (`interrupt.rs`) | handler table in a `RefCell`, enable registers, pending and active state, the published pointer | register, unregister, mask, unmask, `send_ipi`, dispatch, end of interrupt | trap entry of `cpu.rs`; kernel handlers call back in |
| Page tables (`memory.rs`) | root table, static pool and its cursor | `setup_identity_mapping`, `map_page`, `alloc_table`, `activate_page_tables` | boot, and `hal-direct` at run time |
| UEFI and ACPI (`memory.rs` of x86_64, arm64) | region list, IOMMU bit, GIC base | descriptor iteration, XSDT and MADT walks | gives regions to the manifest and a base address to the GIC driver |
| Device tree (`memory.rs` of riscv64) | one tracked node and its depth | token walk, defaults | as above, for the PLIC |
| Compute discovery (`compute.rs`) | device array and count; BARs and the 0xCF8 selector in hardware | PCI scan, BAR sizing, `rescan`, lookups | power domains, manifest |
| Power (`power.rs`) | domain list; thermal registers in hardware | construction, `read_dvfs_state`, `request_dvfs`, `read_temperature`, `domains_above_threshold` | reads the device list; queried by the layers above |
| Raw manifest (`hal-manifest/raw.rs`) | three bounded arrays with counts | three pushes | filled by `built_hardware_manifest`, read by the kernel |
| Dynamic manifest (`hal-manifest/lib.rs`) | the Root Task's heap copy, with a token slot per device | `from_raw`, `set_capability_token`, queries | made once from the raw manifest |
| CPU (`cpu.rs`) | saved contexts, descriptor and vector tables | `context_switch`, trap entry, `bootstrap_current_core`, feature detection | every handler runs below the trap entry |
| Boot (`lib.rs`, `boot.rs`, `kernel-stub`) | `.bss`, boot stack, argument register; `BootInfo` | `_start`, rust entry, `validate`, `kernel_main` | joins all of the above |
| HAL-Direct (`hal-direct`, `direct.rs`) | none of its own; PMSELR_EL0 in hardware | `verify_token`, `map_mmio_region`, `read_performance_counter`, `pin_thread_to_core`, `set_numa_policy` | the clock, page tables and pool |

What correctness means, part by part:

* Timer: an accepted deadline is neither lost nor early, whatever happens
  between the check of the clock and the write of the comparator.
* Interrupts: no borrow of the table collides with dispatch, a masked line is
  silent, every claim is ended, and what is let through is dispatched.
* Page tables: the tables form a tree, `Ok` means mapped as asked, and a call
  that fails half-way leaves all other translations alone.
* Device tree and UEFI: what firmware says is what the rest of the system
  sees; reads stay inside what firmware announced; walks end.
* Discovery: a probe leaves no trace on a device, the device list agrees with
  the bus up to its capacity, and every scan ends.
* Power: a query on any domain answers or fails, never panics, and an invalid
  reading is nobody's temperature.
* Boot: the rust entry starts as its contract says on every machine, what
  firmware said reaches everyone, and boot ends on malformed tables too.
* HAL-Direct: what is done was granted, to the byte rounded to a page, by a
  token that was valid when the call began.
* Context switch: a thread finds itself as it left itself.

The hazards behind these, each at its line, are in `PROJECT.json`.

## 2. Modules

| Module | Models | Used by |
|---|---|---|
| `Timer` | TSC-deadline timer, Generic Timer, SBI timer | `MCTimer`, `TimerProofs` |
| `InterruptCtrl` | local APIC, GICv3, PLIC, handler table, dispatch | `MCInterruptCtrl`, `InterruptProofs` |
| `AddressSpace` | abstract: what `setup_identity_mapping` promises | instantiated by `PageTables` |
| `PageTables` | the table walk of the three architectures | `MCPageTables`, `PageTablesProofs` |
| `FdtWalk` | riscv64's `walk_device_tree`, `from_device_tree` | instantiated by `BootHandoff` |
| `Discovery` | PCI scan, power domains, device part of the manifest | `RootTask` |
| `DynamicManifest` | `hal_manifest`'s conversions and queries, as operators | `RootTask`, `BootHandoff` |
| `PowerThermal` | the power and thermal queries, as operators | `RootTask` |
| `RootTask` | composes the three: the Root Task's copy, its token slots, queries, on a machine that rescans | `MCDiscovery`, `DiscoveryProofs` |
| `ContextSwitch` | `context_switch` and the trap entry, by instruction groups | `MCContextSwitch`, `ContextProofs` |
| `BootEntry` | `_start` of the three architectures | `BootHandoff`; run as it is |
| `BootHandoff` | composes `BootEntry`, `FdtWalk` and `DynamicManifest`: the path from `_start` to `kernel_main` | `MCBootHandoff`, `BootProofs` |
| `HalDirect` | tokens and the four operations behind them | `MCHalDirect`, `HalDirectProofs` |
| `Arithmetic` | lemmas: quotients and digits, least elements, induction and recursion up to a bound | the proofs about page tables, boot, discovery and HAL-Direct |

Conventions shared by the modules:

* `arch` is chosen in `Init` and never changes: one behaviour is one linked
  crate. Where the crates differ, the alternatives are disjuncts.
* Two contexts, `"thread"` and `"isr"`, stand for the kernel and for a handler
  that interrupts it. An interrupt handler runs to its end before the thread
  continues (the trap masks interrupts), but it may come between any two steps
  of a call unless interrupts are masked. `guarded` says whether the kernel
  masks them around its calls; the HAL's code does not do it for the kernel.
* A call the code refuses with `Err` and without an effect is a stuttering step.
* A definition introduced by "Slip:" is a wrong version of the one after it. No
  specification uses it; it is there to show that a property notices it.

### Timer

`set_oneshot` is two actions, `set_oneshot` (reads the clock, decides) and
`write_deadline` (converts and writes). Conversion is the code's floored
division, cut to the width of the comparator. `Tick` and `Expire` are the
hardware: on x86_64 expiry latches a vector and clears the MSR; on arm64 and
riscv64 the line is asserted as long as the comparator is in the past. `Take`
is trap, dispatch and `on_timer_interrupt` up to the callback; the callback is
whatever the `"isr"` context does before `Return`. Dispatch finds controller
and timer through two global pointers, which `set_global_controller` and
`set_global_timer` publish, at any time or never. `dispatch_unpublished` is the
early return without a controller, which on x86_64 leaves the interrupt
unended; `dispatch_null_timer` reads a timer through a null pointer, and either
faults or finds no callback there. `wedged` is a fault: that one, or the
general-protection fault of a write to an MSR the CPU lacks. `armed`, `fired`
and `dropped` are history variables.

### InterruptCtrl

A call is a record in `call`: the table is written under a mutable borrow
(`Store`), then the line is switched (`SetLine`), which on the PLIC is a read
and a write of the word all lines share (`set_enabled`). `dispatch` claims a
line and looks its handler up; `end_of_interrupt` comes after the handler. A
PLIC ignores a completion for a source that is disabled at that moment, and
lets a source through only with a priority above zero. A borrow that fails is
`panicked`, in which the panic handler loops.

### PageTables and AddressSpace

Each iteration of the loop in `map_page` is a step: `Descend` through a present
entry, `alloc_table` for an absent one, `PoolExhausted`, or `map_page` for the
leaf. An entry holds an address, as the code's does: the pointer to a table
(`TableEntry`: the pool's link address plus its place) or the address of a page
cut to the address field (`PageEntry`). Walking on, the field is masked and taken
for a pointer again (`Followed`); if there is no table at the address it yields,
the walk leaves the tables (`Fault`). `PoolFits` says that the linker put the pool
where the field can name it. `Translate` is the hardware's walk, through the same
field. The refinement mapping sends the
tables to the function they denote, so allocation and descent are stuttering
steps of `AddressSpace` and only the write of a leaf is a step.

### FdtWalk

The tree is not enumerated: each step reads one more token of a well-formed
structure block, and `path` keeps what a parser with a stack would know. The
walker's own cells are `depth`, `current` and `current_depth`.

### Discovery

Every access to configuration space is a step; on x86_64 it is two, the
selection at 0xCF8 and the access at 0xCFC. A header is three dwords, and that
of function 0 is read twice, once for the multi-function bit and once as a
function. A BAR probe is save, write ones, read, restore. `ReplaceDevices` and
`ReplaceCount` are the two assignments at the end of `rescan`. Cards come and
go (`Plug`); `stale` and `torn` remember what moved during a scan or a probe.
Power domains and the manifest are built once, in the order of the entry
function.

### ContextSwitch

A register's content is who computed it and when, so a wrong value cannot be
confused with a right one. The phases of a switch follow the `asm!` block:
save, address-space root, flags (x86_64), stack and callee-saved registers,
jump. The callee-saved general registers are one value (`callee`), since each
block saves and loads all of them; the callee-saved floating-point registers of
arm64 and riscv64 are another (`fp`), which no block saves or loads. `live` says
whether the build keeps the return address of `context_switch` in the link
register over the `asm!` block, which declares no clobber of it, or spills it to
the stack. `Preemptive` are the architectures whose handlers switch threads,
`FreshFlags` the interrupt bit that thread creation writes.

### RootTask, DynamicManifest and PowerThermal

`RootTask` extends `Discovery` with one more variable, the heap manifest of the
Root Task. `from_raw` converts the raw manifest of that moment;
`set_capability_token` writes any token into any slot of the copy. The queries of
`PowerThermal` keep no state, so they are operators of the domain list and of
the thermal register, and `QueriesSafe` evaluates them for every content of the
register in every state in which no rescan runs. Architectures without a
backend end in `Unreachable`, as the code does.

### BootEntry

One action per instruction group of `_start`: the hart test (riscv64), the drop
from EL2 (arm64), the stack, each word of `.bss`, the call. `argument` is what
the register of the first argument holds, the firmware's pointer or something
else. On riscv64 any set of harts may be released at any time; on the other
architectures nothing starts another core.

### BootHandoff

Descriptors, ACPI tables, MADT entries and device-tree tokens are read one
after the other and chosen when they are read. Sizes are in units, so that a
`descriptor_size` smaller than the struct, larger than it and zero all occur,
with a `map_size` that is no multiple of it. A malformed MADT (an entry of
length zero, or one that is too short for its type) is among the choices, and
there may be several MADTs: each of them begins with no distributor found, so the
last one counts. The riscv64 path is `FdtWalk`, instantiated. On x86_64 the map that is read is
whatever follows `.bss` (section 6), so nothing is assumed of its types; the
properties that compare with the firmware's own map say so with `argument`.

### HalDirect

Contexts of one core make calls, interleaved at every step. `Call` reads the
clock; `Begin` verifies the token against that reading, or `Refuse` returns the
error; then the operation goes step by step. A counter on arm64 is selected and
read in two steps. `map_mmio_region` is the walk of `PageTables`, on entries that
hold addresses as there, with the pool's cursor read (`alloc_table`) and written
(`link_table`) apart. Nothing in the code keeps two calls apart, so nothing in the
model does, unless the kernel is `guarded` and makes one call at a time; the
properties that need that have it as their premise. A signature is the pair it
signs, so a token somebody put together has none that fits.

## 3. Runs

All instances use all the architectures that have the code in question.

| Run | Shows | Bounds |
|---|---|---|
| `timer` | no deadline lost, none asserted a tick early, each kept deadline fires once controller and timer are published before it is armed | frequencies 2, 3, 5 per 3 ns (below, equal, above one tick per ns); deadlines 2, 3, 5; `Horizon` 9 lies after the last one |
| `timer_storm` | violation, see section 6 | as `timer`, arm64 and riscv64 |
| `interrupt` | no failed borrow, masks hold, claims end, dispatch happens | three lines, so that each architecture has two valid ones and one refused; one handler; both kinds of kernel |
| `interrupt_unmask` | violation, see section 6 | riscv64, two lines |
| `page_tables` | tree, `Ok` means mapped, access as asked, refinement of `AddressSpace`, calls return | three entries a table, a pool of five, which the regions exhaust; empty, unaligned, table-crossing and wrapping regions; the pool ends at the last page an entry can name |
| `page_tables_linked` | violation, see section 6 | the same with the pool above what an entry can name; x86_64 and riscv64 |
| `discovery` | BARs restored also by scans that interrupt scans (ECAM), list equals bus, no blank entry, queries safe, scans end | two devices of two functions, capacities of two so that lists overflow, one hot-plug, handlers that rescan on ECAM |
| `context_switch` | in builds that spill the return address: general registers, stack, root and code location survive | three threads, so that a thread can be resumed by one it never switched to |
| `context_link` | violation, see section 6 | two threads, arm64 and riscv64 |
| `boot_handoff` | entry contract, reads inside the map, manifest is the firmware's map, the walker knows its node, firmware's facts reach everyone, boot ends | two harts, two words of `.bss`; up to three descriptors for room for two, the second of them the image; three ACPI tables in every order, a MADT of up to three units; device trees of depth three |
| `boot_entry` | violation, see section 6 | two harts, two words |
| `hal_direct` | granted operations only, granted counters, granted pages, mapped when `Ok` | two contexts, both kinds of kernel; three regions (empty; unaligned and across tables; one byte that needs a third table); a pool of two tables, which the second region uses up; tokens valid, expiring, altered and unsigned; a core id beyond the cut |

Why these bounds: the code treats lines, pages, functions, threads and
descriptors uniformly, and compares each only with a limit or with another one
of its kind. Two of each meet every such comparison; the third is there where
a limit has to be passed or a third party matters. Numbers are scaled: the
tick arithmetic meets rounding up to a tick, and address arithmetic meets its
modulus.

Each property of a passing run is paired in `PROJECT.json` with a "Slip" that
breaks it.

### Fairness

* `Timer`: weak fairness of the counter, of expiry, of the end of a call and of
  a callback's return; strong fairness of `Take`, since the core takes a
  pending interrupt whenever the kernel unmasks. That the kernel unmasks again
  and again, and registers its callback first, is a premise of
  `EveryDeadlineFires`, not of the specification.
* `InterruptCtrl`: weak fairness of the steps of a call and of end-of-interrupt
  (straight-line code), strong fairness of `dispatch` of each line. That the
  kernel comes back to run unmasked is a premise of the property.
* `PageTables`, `Discovery`: weak fairness of the steps of a
  call in progress, never of beginning one.
* `BootHandoff`: weak fairness of the next step, since boot is one thread with
  interrupts off, and of the end of the structure block (`BlockEnds`), which
  the walker's offset reaches because every token moves it. `BootEnds` has the
  release of hart 0 as its premise.
* `ContextSwitch`, `HalDirect`, and `FdtWalk` and `BootEntry` alone, have no fairness and claim no
  liveness; that the mapping loop ends is `CallReturns` of `PageTables`.

## 4. Proofs

TLAPS proves, for every value of the constants:

| Theorem | Statement | Assumption |
|---|---|---|
| `TimerProofs!TypeCorrect` | `Spec => []TypeOK` | |
| `TimerProofs!DeadlineIsKept` | `Spec => []ArmedIsProgrammed` | `NoTruncation` |
| `TimerProofs!InterruptIsDue` | `Spec => []AssertedOnlyWhenDue` | `NoTruncation` |
| `InterruptProofs!TypeCorrect` | `Spec => []TypeOK` | |
| `InterruptProofs!BorrowsNeverCollide` | `Spec => []NoBorrowPanic` | |
| `InterruptProofs!MaskIsKept` | `Spec => []MaskHolds` | |
| `InterruptProofs!ClaimsAreEnded` | `Spec => []EveryClaimEnded` | |
| `ContextProofs!TypeCorrect` | `Spec => []TypeOK` | |
| `ContextProofs!RegistersSurvive` | `Spec => []ContextSurvives` | `SafeKernel` |
| `ContextProofs!ReturnsHome` | `Spec => []ResumesOwnCode` | `SafeKernel` |
| `PageTablesProofs!TypeCorrect` | `Spec => []TypeOK` | `PoolFits` |
| `PageTablesProofs!WalkInTables` | `Spec => []WalkStaysInTables` | `PoolFits` |
| `PageTablesProofs!TablesFormTree` | `Spec => []TreeShape` | `PoolFits` |
| `PageTablesProofs!OkMapsTheRegion` | `Spec => []OkMeansMapped` | `CanonicalRegions`, `PoolFits` |
| `PageTablesProofs!ImplementsAddressSpace` | `Spec => KeepsPromise` | `CanonicalRegions`, `PoolFits` |
| `BootProofs!EntryKeepsContract` | `EntrySpec => []EntryContract` | |
| `BootProofs!BootKeepsEntryContract` | `Spec => []EntryContract` | |
| `BootProofs!TypeCorrect` | `Spec => []TypeOK` | |
| `BootProofs!DescriptorReadsInside` | `Spec => []ReadsInsideMap` | |
| `BootProofs!WalkerTracksOpenNode` | `Spec => []TracksOpenNode` | |
| `BootProofs!ManifestIsTheMap` | `Spec => []ManifestIsFirmwareMap` | |
| `BootProofs!FirmwareIsHeard` | `Spec => []FirmwareAgrees` | |
| `DiscoveryProofs!TypeCorrect` | `RSpec => []TypeOK` | |
| `DiscoveryProofs!ProbesRestoreBars` | `RSpec => []BarsRestored` | |
| `DiscoveryProofs!ListMatchesBus` | `RSpec => []ListIsCurrent` | |
| `DiscoveryProofs!QueriesAreSafe` | `RSpec => []QueriesSafe` | |
| `HalDirectProofs!CallsAreGranted` | `Spec => []OkMeansGranted` | |
| `HalDirectProofs!CounterIsGranted` | `Spec => []CounterIsTheOneGranted` | |
| `HalDirectProofs!TypeCorrect` | `Spec => []TypeOK` | `RegionsFit` |
| `HalDirectProofs!AccessIsGranted` | `Spec => []OnlyGrantedPages` | `RegionsFit`, `PoolFits` |
| `HalDirectProofs!RegionIsMapped` | `Spec => []MappedWhenOk` | `RegionsFit`, `PoolFits` |

With these, every invariant that a passing run checks is also a theorem.

`NoTruncation` says that no deadline needs more ticks than the counter has
values; the code does not check it (section 6). `SafeKernel` says that handlers
switch threads only on x86_64 and that contexts are created with interrupts off.
It is what a kernel must do to use this HAL safely. Which register the compiler
keeps a return address in is not for the kernel to choose, so it is no part of
`SafeKernel`: `ContextSurvives` and `ResumesOwnCode` speak of the builds that
spill it, and `context_link` of the others. `PoolFits` says that the address
field of an entry can hold a pointer to any table of the pool. It holds of an
image that runs where it is loaded in low memory, and not of one that runs at
the address `linker.ld` gives it; `page_tables_linked` shows what happens then.
`CanonicalRegions` and `RegionsFit` say that the regions callers map lie in the
address space the tables span: `map_page` takes its indices out of the address
and looks at no other bit, so a region beyond it would be entered under another
address (section 6). The MC modules assume both of their regions, so TLC
evaluates them on each run.

The arguments:

* **Timer.** `IInv` adds three facts: a deadline between check and write is in
  the future of the clock that was read, hence of at least one tick
  (`CallsInRange`); nothing is armed on a timer that cannot be
  (`ArmedIsCapable`); and a latched vector of the current deadline is due
  (`LatchedIsDue`). The last is needed because after `Expire` the comparator no
  longer tells when it was due. The arithmetic (floored division, truncation,
  monotony of the conversion) is in five lemmas at the start.
* **Interrupts.** `IInv` says who may be in the middle of what: at most one
  context is inside a call of a guarded kernel (`OneCall`), a borrow belongs to
  a call that is about to store (`BorrowHeld`), the PLIC word a call has read is
  still the register's content (`WordCurrent`), and an active claim is the one
  being serviced (`InService`). `WordCurrent` is why masking holds on the PLIC,
  and is false for a kernel that does not mask.
* **Context switch.** `IInv` describes the threads that do not run: the saved
  context of a suspended thread is its own (`SuspendedIntact`), the trap frame
  of an interrupted one as well (`FramesIntact`), and ELR or sepc belongs to
  the running thread while it is needed (`EpcIsOwn`). `Progress` says which
  registers already belong to the target at each phase of a switch, and
  `MaskedInside` that no interrupt comes between. All of it holds only where the
  return address is spilled, so `IInv` has it under that condition.
* **HAL-Direct.** `Inv` carries what `Call` read and `Begin` checked through the call: a context
  in a call, or whose call returned `Ok`, still has the request `verify_token`
  admitted (`Admitted`); its program counter tells which operation it is in
  (`CallOfPc`); a guarded kernel has one call under way (`OneAtATime`), so the
  selection in PMSELR_EL0 outlives the steps of the other contexts. A core id
  below 2^32 is its own remainder (`ModOfSmall`), which is what excepts the
  larger ones from `OkMeansGranted`. For the tables `MapInv` adds that every
  table of the pool can be labelled with one level and one prefix, the pages
  below it (`Labelled`): an entry leads one level down with its index appended to
  the prefix, or at the last level to exactly that page. A call is at a table
  whose label fits the page it maps, every earlier page of its region is mapped,
  and the table it is about to link is still free (`WalkAt`); the last needs
  `OneMapping`, which `OneAtATime` gives in a guarded kernel, and that an entry
  leads to the table whose pointer was stored in it, which is `PoolFits`. That
  walks stay inside the tables (`Typed`) needs neither. Entries are written
  once (`Grows`), so no path and no mapping is ever lost. `Translate` is recursive
  in the level; `TranslateSteps` unfolds it for any depth.
* **Page tables.** `PoolFits` makes the pointer recovered from an entry the one
  stored in it. `TInv` is the tree with a level for each table (`Levelled`),
  which is what keeps a leaf from overwriting a link, and with `addr` and `end`
  multiples of the page size (`LoopAligned`). `MInv` adds where the walk is
  (`InPlace`), what the call has done so far (`CallSoFar`) and that each page
  ever asked for translates to itself with the attributes of the last call that
  asked (`AskedMapped`). Two pages that share all their indices are one page
  (`DigitsEqual`, `OneMoreDigit`), so a leaf changes one translation only. The
  refinement follows step by step: descent and allocation leave every
  translation alone, the write of a leaf is a step of `AddressSpace`.
* **Boot.** `BootInv` has one conjunct per stage: the words below a hart's cursor
  are zero and only hart 0 gets so far (`EntryInv`); while a node is open the
  walker tracks the root, so it has learnt of an IOMMU if an open or closed node
  is one (`FdtInv`); the descriptor iterator is at the next multiple
  (`ReadsInv`), with a region for each descriptor read up to the capacity
  (`RegionsInv`); what is kept of ACPI is what the tables said (`AcpiInv`);
  `Memory` and the manifest are copies of these (`MemoryInv`, `HandInv`). The sum
  of `total_usable_memory` is the number of usable regions by induction over the
  list (`UsableCounted`).
* **Discovery.** `Turns` says whose turn it is: a handler has returned before the
  thread goes on, and boot is one thread. `BarsInv` says what a probe holds: the
  value the outermost probe of a slot has saved is the assigned one, while a
  probe that interrupts it may have saved all ones and restores them.
  `Addressed` keeps the two halves of an x86_64 access together. `Sight` and
  `Kept` say that a scan has listed what lies on the bus below its position, and
  that the list left by the last scan is complete, the array before its count
  inside `rescan`. The list of the bus in order is given by rank (`Place`), not by
  recursion. `BootLists` and `CopyInv` carry the power domains through the
  manifest into the Root Task's copy, which is what the queries need.

Induction. The library's induction theorems have an operator as parameter, which
the provers cannot instantiate. `Arithmetic` therefore derives set forms from the
well-foundedness of the naturals: `LeastElement`, `Inductive` (a set that holds 0
and is closed under successor up to n holds 0..n) and `Recursion` (a step
function has a function that follows it). What the recursive definitions
`Power`, `Translate` and `total_usable_memory` compute is proved from these.

Model-checked only: all liveness (`EveryDeadlineFires`, `EveryIrqDispatched`,
`CallReturns`, `ScanEnds`, `BootEnds`), which needs fairness, and
the five runs that end in a violation.

## 5. Plan

The order was timer, interrupts, page tables, device tree, discovery, context
switch, boot, then the two compositions (`RootTask`, and `BootHandoff` from
`_start` on) and `HalDirect`; then the proofs, in the order of the table above.
What is left:

1. the safety half of what the liveness runs rely on, for every value of the
   constants: a measure that no step of a walk, a scan or a boot increases;
2. what a deadline beyond the counter's range does (`NoTruncation` excludes it)
   as a statement of its own.

## 6. Where the code and its documentation disagree

Five disagreements are kept as runs that TLC must find violated:

* `timer_storm`: `hal-core/src/timer.rs:102` says an armed deadline "will fire
  once". On arm64 and riscv64 `on_timer_interrupt` leaves the comparator in the
  past and the line asserted, so the callback runs again unless it re-arms.
* `interrupt_unmask`: a PLIC source that its own handler masks is completed
  while it is disabled; the PLIC ignores that, and after `unmask_irq` the source
  delivers nothing.
* `boot_entry`: `hal-x86_64/src/lib.rs:67` says "RDI still holds the UEFI memory
  map pointer"; `rep stosb`, which zeroes `.bss`, takes its own pointer in RDI,
  so the rust entry parses what follows `.bss` as a memory map.
* `page_tables_linked`: `hal-x86_64/src/memory.rs:402` says that "`table_ptr` is a
  valid `PageTable` per this loop's invariant". `TABLE_POOL` is a static of an
  image linked at `KERNEL_VMA_BASE`; of such a pointer the mask that recovers it
  from an entry drops the upper bits, and the next iteration dereferences another
  address. On riscv64 the 44-bit page number has the same effect.
* `context_link`: `hal-core/src/cpu.rs:210` says that `context_switch` saves the
  running context, "then restores `to` and resumes execution there". The `asm!`
  blocks of arm64 and riscv64 put the address of their resume label in the slot
  of x30 or ra and declare no clobber of that register, so in a build that keeps
  the return address there the function returns to the wrong place.

Others were met while translating. The modules follow the code, and the
properties above state what remains true:

* Timer: a floored conversion can run the callback up to a tick before
  `deadline_ns` (`AssertedOnlyWhenDue` states the tick); a deadline beyond the
  counter's range is truncated, not refused (`hal-core/src/timer.rs:117`);
  x86_64's `cancel_oneshot` does not withdraw a vector that is already latched,
  and writes the deadline MSR also where there is none.
* Interrupts: `mask_irq` of x86_64 masks nothing, so `MaskHolds` leaves x86_64
  out; the PLIC enable word is read, changed and written back with no
  protection of its own, so `MaskHolds` needs a guarded kernel there; ids are
  accepted beyond `irq_line_count`; `dispatch_vector` before publication
  returns without end-of-interrupt although its comment says always; `send_ipi`
  narrows the target before comparing it.
* Page tables: arm64's `permissions_to_flags` leaves AP at 0b00, which is
  read-write, for a read-only page, so `OkMeansMapped` says that arm64 pages are
  always writable; addresses above the canonical half are entered under another
  address; a region that reaches the end of the address space gets `Ok` and maps
  nothing. On arm64 the upper bits of a table's link address also land in the
  hierarchical attributes of the entry (NSTable, APTable, UXNTable, PXNTable),
  which are not modelled.
* Device tree: the root node, with its empty name, takes the `PossibleIommu` arm
  (`hal-riscv64/src/memory.rs:262`) and stays the tracked node until the tree
  ends, so memory and PLIC nodes are never recognised and QEMU's defaults are
  always used, although lines 188-191 say what the walk finds. `FirmwareAgrees`
  states it so.
* Discovery: power domains copy `device_index` before `push_compute_device`
  assigns it (`hal-x86_64/src/power.rs:146`), so all name device 0, against
  `hal-manifest/src/raw.rs:324`; `device_by_index` searches a list in which
  every index is zero; a rescan does not reach the manifest; two scans that
  interleave on 0xCF8/0xCFC can restore a BAR of the wrong function, so
  `BarsRestored` needs a guarded kernel on x86_64.
* Context switch: the trap entries of arm64 and riscv64 save neither ELR_EL1
  and SPSR_EL1 nor sepc, nor does `context_switch`, although `hal-
  arm64/src/lib.rs:130` says the context covers them, so a handler that
  switches threads returns to where another thread was interrupted; d8-d15 and
  fs0-fs11 are callee-saved on these targets and no block saves them; x86_64
  loads the flags of the new thread before its stack, so that a context created
  with interrupts on can be interrupted on the old one. `ContextSurvives` and
  `ResumesOwnCode` hold for general registers and the kernels of `SafeKernel`.
  The status slots of arm64 and riscv64 and all thread-local slots are neither
  saved nor loaded; the ra slot of riscv64 is overwritten with the resume
  label.
* Boot: no UEFI type is classified `KernelImage`, and loader memory is
  `Usable`; `boot_reserved_phys_range` is made of virtual addresses, because the
  stack's symbols lie in `.bss` at `KERNEL_VMA_BASE`; `BootInfo::validate`
  checks no overlap although its comment says so; on riscv64 the pages of
  OpenSBI and of the device tree are `Usable`, and no range of `BootInfo` covers
  them although `hal-riscv64/src/memory.rs:516` says these ranges do; a MADT
  without a distributor entry makes `acpi_discover` forget the one an earlier
  MADT named (`FirmwareAgrees` speaks of the last); if SBI releases only a
  hart other than 0, that hart parks and nothing boots.
* Bring-up: comments in `hal-x86_64/src/interrupt.rs` (261, 446) say that the
  entry function calls `set_topology` and `bootstrap_current_core`; no entry
  function does, nor publishes a controller or a timer. `dispatch_vector` ends
  exceptions and spurious vectors as if the APIC had delivered them.
* HAL-Direct: `pin_thread_to_core` cuts `core_id` to 32 bits before it compares
  (`OkMeansGranted` leaves larger ids out); `map_mmio_region` returns the address
  of the first page, not of `phys`, and maps into the one boot-time table, not
  "into the calling context's address space" (`hal-direct/src/lib.rs:304`); its
  contract with `alloc_table` ("single-threaded early boot") cannot be met by an
  operation that callers reach at run time, unless the kernel serialises it: two
  calls that interleave in `alloc_table` hang one table into two places, so
  `OnlyGrantedPages` and `MappedWhenOk` speak of guarded kernels.

## 7. Not modelled

* Two cores in Rust code. The entry points start no other core, `core_count` is
  1, and the riscv64 harts that enter `_start` park. Per-core bring-up
  (`bootstrap_current_core` of `cpu.rs` and `interrupt.rs`, `set_topology`) is
  therefore code nothing reaches: what it does to the descriptor tables is in
  `ContextSwitch`, the rest is left out.
* Linker and build scripts, CPUID and feature detection, the `asm!` operand
  allocation (operands are taken to be in caller-saved registers), serial
  output, record layouts, the interrupt-controller and timer records of the
  manifest, which are copied field by field.
* `set_privilege_level`, which returns or refuses and changes nothing the HAL
  reads. The erased interface (`hal-core/src/interface.rs`, five read-only
  function pointers) and the error type keep no state.
* Signatures: the algorithm is the Security Broker's, and the repository only
  has its trait.
* Nobody in the repository calls `set_global_controller`,
  `set_global_timer` or `bootstrap_current_core`; the models take them as
  operations of the kernel.
* Some sources do not compile as they stand (constructors called without their
  arguments in the entry functions, a size assertion on the arm64 and riscv64
  contexts that their fields do not meet); the modules follow what the
  definitions say.
* A firmware table shorter than its own header underflows a length in the XSDT
  walk; `BootHandoff` bounds the number of entries instead.
