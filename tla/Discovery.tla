----------------------------- MODULE Discovery -----------------------------
(***************************************************************************)
(* Accelerator discovery: ComputeDiscovery (the PCI scan of every hal-     *)
(* <arch>, at boot and in rescan), PowerThermalImpl::new and the device    *)
(* and domain lists of built_hardware_manifest.                            *)
(*                                                                         *)
(* A scan visits every function of the bus in order.  Each access to       *)
(* configuration space is a step; on x86_64 it is two, because the port    *)
(* mechanism first selects a register at 0xCF8 and then reads or writes it *)
(* at 0xCFC.  The kernel ("thread") and an interrupt handler ("isr") may   *)
(* both rescan, and cards come and go while they do.                       *)
(***************************************************************************)
EXTENDS Integers, SequencesExt

CONSTANTS
  Machines,      \* the architectures of this instance, each with its kernels:
                 \* <<arch, guarded>>
  NDevices,      \* 256 buses of 32 devices
  NFunctions,    \* 8
  Cards,         \* what a function may be: [class, vendor, multi, bar]
  Absent,        \* vendor id 0xFFFF
  Buses,         \* bound: how the bus may be populated at power-on
  MaxCompute,    \* MAX_COMPUTE_DEVICES
  MaxDomains,    \* MAX_POWER_DOMAINS
  MaxPlugs       \* bound: how many cards come or go

\* PciDeviceHeader.
Headers == [vendor : {"google", "other"},
            class : {"display", "accelerator", "other"},
            multi : BOOLEAN]

ASSUME DiscoveryAssumption ==
  /\ Machines \subseteq {"x86_64", "arm64", "riscv64"} \X BOOLEAN
  /\ {NDevices, NFunctions, MaxCompute, MaxDomains} \subseteq Nat \ {0}
  /\ Cards \subseteq [class : {"display", "accelerator", "other"},
                      vendor : {"google", "other"},
                      multi : BOOLEAN,
                      bar : {"memory", "io", "none"}]
  /\ Absent \notin Cards \cup Headers
  /\ MaxPlugs \in Nat
  /\ Buses \subseteq [0..(NDevices * NFunctions - 1) -> Cards \cup {Absent}]

VARIABLES
  arch,           \* which hal-<arch> crate is linked
  guarded,        \* the kernel calls the HAL with interrupts masked
  bus,            \* what sits in each function of the bus
  bar,            \* each function's BAR 0
  selected,       \* x86_64: the register the port 0xCF8 selects
  stage,          \* how far hal_<arch>_rust_entry has come
  ctx,            \* the context that runs now
  scan,           \* per context: the scan in progress
  devices,        \* ComputeDiscovery::devices
  device_count,   \* ComputeDiscovery::device_count
  domains,        \* PowerThermalImpl::domains
  manifest,       \* the HardwareManifestRaw handed to the kernel
  plugs,          \* bound: cards that came or went
  stale,          \* history: functions that changed since the last scan began
  torn            \* history: functions that changed while they were probed

fixed == <<arch, guarded>>
hardware == <<bus, bar>>
lists == <<devices, device_count, domains, manifest>>
history == <<plugs, stale, torn>>
vars == <<fixed, hardware, selected, stage, ctx, scan, lists, history>>

Contexts == {"thread", "isr"}

\* The functions of the bus, numbered in the order the scan visits them.
Slots == 0..(NDevices * NFunctions - 1)
Function(s) == s % NFunctions
FirstOf(s) == s - Function(s)

(***************************************************************************)
(* Configuration space.  Of a BAR we keep whether bit 0 says I/O, and      *)
(* whether the rest is the assigned address, all ones or zero.             *)
(***************************************************************************)
Zero == [io |-> FALSE, rest |-> "zero"]
Ones == [io |-> TRUE, rest |-> "ones"]

\* What a function's BAR holds once v is written: its low bits are wired.
Wired(card, v) ==
  CASE card = Absent -> Ones
    [] card # Absent /\ card.bar = "none" -> Zero
    [] OTHER -> [v EXCEPT !.io = card.bar = "io"]

Assigned(card) == Wired(card, [io |-> FALSE, rest |-> "address"])

Idle == [pc |-> "idle"]

Register(at, reg) == [at |-> at, reg |-> reg]

\* The register the next access of a scan is meant for, and the one it hits.
Wanted(c) == Register(scan[c].at, IF scan[c].pc = "header" THEN scan[c].reg ELSE "bar")

Hit(c) == IF arch = "x86_64" THEN selected ELSE Wanted(c)

Access(c, pc) ==
  /\ ctx = c /\ scan[c].pc = pc
  /\ arch = "x86_64" => scan[c].addressed

\* out 0xCF8.
Select(c) ==
  /\ arch = "x86_64" /\ ctx = c
  /\ scan[c].pc \in {"header", "original", "ones", "mask", "restore"}
  /\ ~scan[c].addressed
  /\ selected' = Wanted(c)
  /\ scan' = [scan EXCEPT ![c].addressed = TRUE]
  /\ UNCHANGED <<fixed, hardware, stage, ctx, lists, history>>

\* The dwords of a header that the scan looks at: vendor, class, and whether
\* there are more functions.  Where no card is all bits are one: no vendor has
\* that number, no class the scan looks for.
Dword(card, reg) ==
  CASE reg = "vendor" -> IF card = Absent THEN "absent" ELSE card.vendor
    [] reg = "class" -> IF card = Absent THEN "other" ELSE card.class
    [] reg = "multi" -> IF card = Absent THEN TRUE ELSE card.multi

\* What a read may return.  The wrong register yields whatever bits it has.
Dwords(c) ==
  IF Hit(c).reg = scan[c].reg THEN {Dword(bus[Hit(c).at], scan[c].reg)}
  ELSE {Dword(card, scan[c].reg) : card \in Cards \cup {Absent}}
Bars(c) == IF Hit(c).reg = "bar" THEN {bar[Hit(c).at]}
           ELSE {Assigned(card) : card \in Cards \cup {Absent}}

Write(c, v) ==
  bar' = IF Hit(c).reg = "bar"
         THEN [bar EXCEPT ![Hit(c).at] = Wired(bus[Hit(c).at], v)] ELSE bar

----------------------------------------------------------------------------
(***************************************************************************)
(* ComputeDiscovery::new.                                                  *)
(***************************************************************************)
classify_pci_device(header) ==
  CASE header.class = "display" -> "Gpu"
    [] header.class = "accelerator" -> "Npu"
    [] header.vendor = "google" -> "Tpu"
    [] OTHER -> "None"

\* device_index is left at zero, for push_compute_device to assign.
Entry(kind, memory) == [kind |-> kind, has_dedicated_memory |-> memory, device_index |-> 0]

\* A PciDeviceHeader of which nothing has been read.
Blank == [vendor |-> "other", class |-> "other", multi |-> FALSE]

\* A scan: the register read next and the header so far, whether the device's
\* header0 has been read and how many functions it told of, the list so far,
\* and what probe_bar_size keeps.
NewScan == [pc |-> "header", at |-> 0, reg |-> "vendor", header |-> Blank, known |-> FALSE,
            functions |-> 1, list |-> <<>>, kind |-> "None", original |-> Zero,
            mask |-> Zero, addressed |-> FALSE]

\* Slip: the last bus is not the last.
advance_wrapping(st) ==
  LET within == Function(st.at) + 1 < st.functions
      at == IF within THEN st.at + 1 ELSE FirstOf(st.at) + NFunctions
  IN [st EXCEPT !.pc = "header", !.at = at % (NDevices * NFunctions),
                !.known = Function(at) # 0]

\* The next function of this device, or else the next device, or else the end.
Advance(st) ==
  LET within == Function(st.at) + 1 < st.functions
      at == IF within THEN st.at + 1 ELSE FirstOf(st.at) + NFunctions
  IN IF at \in Slots THEN [st EXCEPT !.pc = "header", !.at = at, !.known = Function(at) # 0]
     ELSE [st EXCEPT !.pc = "devices"]

Found(st, memory) == Advance([st EXCEPT !.list = Append(@, Entry(st.kind, memory))])

\* header0, of function 0: is there a device, and has it more functions?
CountFunctions(st, header) ==
  IF header = Absent THEN Advance([st EXCEPT !.functions = 1])
  ELSE [st EXCEPT !.known = TRUE, !.functions = IF header.multi THEN NFunctions ELSE 1]

\* Slip: the capacity is off by one.
visit_one_too_many(st, header) ==
  IF header = Absent \/ classify_pci_device(header) = "None" THEN Advance(st)
  ELSE IF Len(st.list) > MaxCompute THEN [st EXCEPT !.pc = "devices"]
  ELSE [st EXCEPT !.pc = "original", !.kind = classify_pci_device(header)]

\* header, of every function: 'bus_scan ends when the list is full.
Visit(st, header) ==
  IF header = Absent \/ classify_pci_device(header) = "None" THEN Advance(st)
  ELSE IF Len(st.list) >= MaxCompute THEN [st EXCEPT !.pc = "devices"]
  ELSE [st EXCEPT !.pc = "original", !.kind = classify_pci_device(header)]

\* The header is complete, or None.  Function 0's is read again in the loop.
Identified(st, header) ==
  LET here == [st EXCEPT !.reg = "vendor", !.header = Blank, !.addressed = FALSE]
  IN IF st.known THEN Visit(here, header) ELSE CountFunctions(here, header)

\* One dword of the header, and the next.
ReadDword(st, v) ==
  CASE st.reg = "vendor" ->
         IF v = "absent" THEN Identified(st, Absent)
         ELSE [st EXCEPT !.header.vendor = v, !.reg = "class", !.addressed = FALSE]
    [] st.reg = "class" ->
         [st EXCEPT !.header.class = v, !.reg = "multi", !.addressed = FALSE]
    [] st.reg = "multi" -> Identified(st, [st.header EXCEPT !.multi = v])

read_pci_header(c) ==
  /\ Access(c, "header")
  /\ \E v \in Dwords(c) : scan' = [scan EXCEPT ![c] = ReadDword(@, v)]
  /\ UNCHANGED <<fixed, hardware, selected, stage, ctx, lists, history>>

\* probe_bar_size: an I/O BAR is left alone; otherwise write ones, read the
\* mask, write the original back.
ReadOriginal(c) ==
  /\ Access(c, "original")
  /\ \E v \in Bars(c) :
       LET st == [scan[c] EXCEPT !.addressed = FALSE, !.original = v]
       IN scan' = [scan EXCEPT ![c] = IF v.io THEN Found(st, FALSE)
                                      ELSE [st EXCEPT !.pc = "ones"]]
  /\ UNCHANGED <<fixed, hardware, selected, stage, ctx, lists, history>>

WriteOnes(c) ==
  /\ Access(c, "ones")
  /\ Write(c, Ones)
  /\ scan' = [scan EXCEPT ![c].pc = "mask", ![c].addressed = FALSE]
  /\ UNCHANGED <<fixed, bus, selected, stage, ctx, lists, history>>

ReadMask(c) ==
  /\ Access(c, "mask")
  /\ \E v \in Bars(c) :
       scan' = [scan EXCEPT ![c].pc = "restore", ![c].addressed = FALSE, ![c].mask = v]
  /\ UNCHANGED <<fixed, hardware, selected, stage, ctx, lists, history>>

\* Slip: the mask is written back.
restore_mask(c) ==
  /\ Access(c, "restore")
  /\ Write(c, scan[c].mask)
  /\ scan' = [scan EXCEPT ![c] = Found([@ EXCEPT !.addressed = FALSE], @.mask # Zero)]
  /\ UNCHANGED <<fixed, bus, selected, stage, ctx, lists, history>>

Restore(c) ==
  /\ Access(c, "restore")
  /\ Write(c, scan[c].original)
  /\ scan' = [scan EXCEPT ![c] = Found([@ EXCEPT !.addressed = FALSE], @.mask # Zero)]
  /\ UNCHANGED <<fixed, bus, selected, stage, ctx, lists, history>>

(***************************************************************************)
(* The scan's result replaces the device array, then the count.  rescan    *)
(* checks the count of a list that new has already cut off.                *)
(***************************************************************************)
ZeroEntry == Entry("Unknown", FALSE)

Padded(list) == [i \in 1..MaxCompute |-> IF i <= Len(list) THEN list[i] ELSE ZeroEntry]

ReplaceDevices(c) ==
  /\ ctx = c /\ scan[c].pc = "devices"
  /\ IF Len(scan[c].list) > MaxCompute
     THEN scan' = [scan EXCEPT ![c] = Idle] /\ UNCHANGED devices
     ELSE /\ scan' = [scan EXCEPT ![c].pc = "count"]
          /\ devices' = Padded(scan[c].list)
  /\ UNCHANGED <<fixed, hardware, selected, stage, ctx, device_count, domains,
                 manifest, history>>

\* Slip: the count only grows.
count_grows(c) ==
  /\ ctx = c /\ scan[c].pc = "count"
  /\ device_count' = IF Len(scan[c].list) > device_count THEN Len(scan[c].list) ELSE device_count
  /\ scan' = [scan EXCEPT ![c] = Idle]
  /\ stage' = IF stage = "compute" THEN "power" ELSE stage
  /\ UNCHANGED <<fixed, hardware, selected, ctx, devices, domains, manifest, history>>

ReplaceCount(c) ==
  /\ ctx = c /\ scan[c].pc = "count"
  /\ device_count' = Len(scan[c].list)
  /\ scan' = [scan EXCEPT ![c] = Idle]
  /\ stage' = IF stage = "compute" THEN "power" ELSE stage
  /\ UNCHANGED <<fixed, hardware, selected, ctx, devices, domains, manifest, history>>

enumerate_compute_devices == SubSeq(devices, 1, device_count)

rescan(c) ==
  /\ stage = "kernel" /\ ctx = c /\ scan[c] = Idle
  /\ scan' = [scan EXCEPT ![c] = NewScan]
  /\ stale' = {}
  /\ UNCHANGED <<fixed, hardware, selected, stage, ctx, lists, plugs, torn>>

----------------------------------------------------------------------------
(***************************************************************************)
(* PowerThermalImpl::new and built_hardware_manifest, once, at boot.       *)
(***************************************************************************)
NoDevice == -1        \* NO_ASSOCIATED_DEVICE, u32::MAX

DomainCount == IF device_count + 1 < MaxDomains THEN device_count + 1 ELSE MaxDomains

\* The CPU package comes first, and is the only domain with a backend, on
\* x86_64: its sensor, and RAPL if the CPU has it.
PowerThermalNew ==
  /\ stage = "power"
  /\ \E rapl_supported \in BOOLEAN :
       domains' = [d \in 1..DomainCount |->
                     [domain_id |-> d - 1,
                      associated |-> IF d = 1 THEN NoDevice ELSE devices[d - 1].device_index,
                      supports_dvfs |-> d = 1 /\ arch = "x86_64" /\ rapl_supported,
                      has_thermal_sensor |-> d = 1 /\ arch = "x86_64"]]
  /\ stage' = "manifest"
  /\ UNCHANGED <<fixed, hardware, selected, ctx, scan, devices, device_count,
                 manifest, history>>

push_compute_device(device, i) == [device EXCEPT !.device_index = i - 1]

built_hardware_manifest ==
  /\ stage = "manifest"
  /\ manifest' = [devices |-> [i \in 1..device_count |-> push_compute_device(devices[i], i)],
                  domains |-> domains]
  /\ stage' = "kernel"
  /\ UNCHANGED <<fixed, hardware, selected, ctx, scan, devices, device_count,
                 domains, history>>

----------------------------------------------------------------------------
(***************************************************************************)
(* Interrupts and hot-plug.                                                *)
(***************************************************************************)
Interrupt ==
  /\ stage = "kernel" /\ ctx = "thread"
  /\ guarded => scan["thread"] = Idle
  /\ ctx' = "isr"
  /\ UNCHANGED <<fixed, hardware, selected, stage, scan, lists, history>>

Return ==
  /\ ctx = "isr" /\ scan["isr"] = Idle
  /\ ctx' = "thread"
  /\ UNCHANGED <<fixed, hardware, selected, stage, scan, lists, history>>

Probing(c) == scan[c].pc \in {"ones", "mask", "restore"}

\* A card comes with its BAR assigned, or goes.
Plug(s, card) ==
  /\ plugs < MaxPlugs
  /\ (bus[s] = Absent) # (card = Absent)
  /\ bus' = [bus EXCEPT ![s] = card]
  /\ bar' = [bar EXCEPT ![s] = Assigned(card)]
  /\ plugs' = plugs + 1
  /\ stale' = stale \cup {s}
  /\ torn' = IF \E c \in Contexts : Probing(c) /\ scan[c].at = s THEN torn \cup {s} ELSE torn
  /\ UNCHANGED <<fixed, selected, stage, ctx, scan, lists>>

Init ==
  /\ \E m \in Machines : arch = m[1] /\ guarded = m[2]
  /\ bus \in Buses
  /\ bar = [s \in Slots |-> Assigned(bus[s])]
  /\ selected = Register(0, "vendor")
  /\ stage = "compute"
  /\ ctx = "thread"
  /\ scan = [c \in Contexts |-> IF c = "thread" THEN NewScan ELSE Idle]
  /\ devices = Padded(<<>>) /\ device_count = 0
  /\ domains = <<>>
  /\ manifest = [devices |-> <<>>, domains |-> <<>>]
  /\ plugs = 0 /\ stale = {} /\ torn = {}

Step(c) ==
  \/ Select(c) \/ read_pci_header(c) \/ ReadOriginal(c) \/ WriteOnes(c)
  \/ ReadMask(c) \/ Restore(c) \/ ReplaceDevices(c) \/ ReplaceCount(c)

Next ==
  \/ \E c \in Contexts : Step(c) \/ rescan(c)
  \/ PowerThermalNew \/ built_hardware_manifest
  \/ Interrupt \/ Return
  \/ \E s \in Slots, card \in Cards \cup {Absent} : Plug(s, card)

\* The code that runs runs on, boot included.
Fairness ==
  /\ \A c \in Contexts : WF_vars(Step(c))
  /\ WF_vars(PowerThermalNew) /\ WF_vars(built_hardware_manifest)

Spec == Init /\ [][Next]_vars /\ Fairness

----------------------------------------------------------------------------
(***************************************************************************)
(* Properties.                                                             *)
(***************************************************************************)
Entries == [kind : {"Unknown", "Gpu", "Npu", "Tpu"}, has_dedicated_memory : BOOLEAN,
            device_index : 0..MaxCompute]
BarValues == [io : BOOLEAN, rest : {"zero", "address", "ones"}]

\* Types: the lists stay within their capacity, the scan within the bus.
TypeOK ==
  /\ \A s \in Slots : bus[s] \in Cards \cup {Absent} /\ bar[s] \in BarValues
  /\ selected.at \in Slots
  /\ stage \in {"compute", "power", "manifest", "kernel"}
  /\ \A c \in Contexts :
       \/ scan[c] = Idle
       \/ /\ scan[c].at \in Slots
          /\ scan[c].functions \in {1, NFunctions}
          /\ Len(scan[c].list) <= MaxCompute
  /\ devices \in [1..MaxCompute -> Entries]
  /\ device_count \in 0..MaxCompute
  /\ Len(domains) <= MaxDomains
  /\ Len(manifest.devices) <= MaxCompute

Quiescent == \A c \in Contexts : scan[c] = Idle

\* Where no probe is under way every BAR holds its assigned value, although
\* scans interrupt each other: on x86_64 only if the kernel masks interrupts,
\* because the port mechanism is two accesses.  A card that was swapped while
\* its slot was probed is excepted.
BarsRestored ==
  arch # "x86_64" \/ guarded =>
    \A s \in Slots \ torn :
      (\A c \in Contexts : ~(Probing(c) /\ scan[c].at = s)) => bar[s] = Assigned(bus[s])

\* The functions a scan can see, as the PCI specification has it, and what they
\* amount to.
Visible(s) ==
  /\ bus[s] # Absent /\ bus[FirstOf(s)] # Absent
  /\ Function(s) = 0 \/ bus[FirstOf(s)].multi
  /\ classify_pci_device(bus[s]) # "None"

VisibleSlots == {s \in Slots : Visible(s)}
EntryOf(s) == Entry(classify_pci_device(bus[s]), bus[s].bar = "memory")

Accelerators ==
  LET count == Cardinality(VisibleSlots)
      place(s) == Cardinality({t \in VisibleSlots : t <= s})
  IN [i \in 1..(IF count < MaxCompute THEN count ELSE MaxCompute) |->
        EntryOf(CHOOSE s \in VisibleSlots : place(s) = i)]

\* When no call is in progress and no card moved since the last scan began, the
\* device list is what the bus holds, in bus order, up to the capacity: for a
\* kernel that masks interrupts around its calls, so that no older scan can
\* finish after a newer one.  Nor does such a kernel ever enumerate a blank
\* entry, although the array and its count are replaced one after the other.
ListIsCurrent ==
  guarded /\ Quiescent =>
    /\ stage = "kernel" /\ stale = {} => enumerate_compute_devices = Accelerators
    /\ \A i \in DOMAIN enumerate_compute_devices : enumerate_compute_devices[i] # ZeroEntry

\* Every scan comes to its end, at boot and in rescan, whatever is plugged.
ScanEnds == \A c \in Contexts : scan[c] # Idle ~> (scan[c] = Idle \/ ctx # c)
=============================================================================
