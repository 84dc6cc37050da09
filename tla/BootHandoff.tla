---------------------------- MODULE BootHandoff ----------------------------
(***************************************************************************)
(* The boot path of the three architectures, from _start (BootEntry) to    *)
(* kernel_main: Memory::from_uefi_memory_map (descriptors, then ACPI) or   *)
(* Memory::from_device_tree (FdtWalk), built_hardware_manifest, BootInfo   *)
(* and its validation.                                                     *)
(*                                                                         *)
(* Firmware is not enumerated: each step reads one more descriptor, ACPI   *)
(* table, MADT entry or device-tree token.  The descriptor of index i      *)
(* stands for the physical page i; page numbers stand for addresses.       *)
(* Sizes are in units of which StructSize make an EFI_MEMORY_DESCRIPTOR.   *)
(* Compute devices and power domains, which the manifest also carries, are *)
(* those of Discovery.                                                     *)
(***************************************************************************)
EXTENDS Integers, Sequences, FiniteSetsExt, BootEntry, DynamicManifest

CONSTANTS
  Types,        \* the UEFI memory types (u32) the firmware uses
  Strides,      \* the descriptor_size values the firmware may report
  StructSize,   \* size_of::<UefiMemoryDescriptor>()
  MaxMapSize,   \* bound: map_size
  MaxRegions,   \* MAX_MEMORY_REGIONS
  MaxTables,    \* bound: entries of the XSDT
  MadtSize,     \* bound: bytes of MADT after its fixed fields
  Bases,        \* addresses a GIC Distributor entry may hold
  DefaultGicd,  \* QEMU_VIRT_DEFAULT_GICD_BASE
  Regs,         \* reg properties of the device tree, [page, length]
  MaxDepth,     \* bound: nesting of the device tree
  DefaultMemory, DefaultPlic,   \* QEMU_VIRT_DEFAULT_*, as regs
  None,         \* Option::None
  ImageStart, ImageEnd,   \* physical pages of the image (linker.ld, LMA)
  StackStart, StackEnd,   \* those of them that hold the boot stack
  VmaBase       \* KERNEL_VMA_BASE

ASSUME BootAssumption ==
  /\ {StructSize, MaxMapSize, MaxRegions, MaxTables, MadtSize} \subseteq Nat
  /\ StructSize > 0 /\ Strides \subseteq Nat /\ Types \subseteq Nat
  /\ None \notin Bases /\ DefaultGicd \notin Bases
  /\ None \notin Regs /\ MaxDepth \in Nat \ {0}
  /\ Regs \cup {DefaultMemory, DefaultPlic} \subseteq [page : Nat, length : Nat]
  /\ {ImageStart, ImageEnd, StackStart, StackEnd, VmaBase} \subseteq Nat
  /\ ImageStart <= StackStart /\ StackStart < StackEnd /\ StackEnd <= ImageEnd
  /\ VmaBase >= ImageEnd

VARIABLES
  blob,        \* UefiMemoryMapHeader: map_size, descriptor_size
  pc,          \* the step of the entry function
  iter,        \* DescriptorIter: offset of current, remaining_bytes
  regions,
  tables,      \* XSDT entries still to visit
  madt,        \* bytes of the MADT still to visit, and the entry they start with
  acpi,        \* AcpiDiscoveryResult: iommu, gicd
  path, depth, current, current_depth, result,   \* FdtWalk's
  fdt_pc, fdt_seen,
  memory,      \* Memory: regions, iommu_present, gicd_base or plic_base
  cpu_iommu,   \* IOMMU_CAPABLE of Cpu::feature_flags
  manifest,    \* HardwareManifestRaw: regions, iommu (its cpu_feature_flags)
  boot_info,   \* the physical ranges of BootInfo
  reads,       \* history: descriptors read, [at, ty]
  seen         \* history: what the ACPI tables read so far say

Fdt == INSTANCE FdtWalk WITH pc <- fdt_pc, seen <- fdt_seen, Bases <- Regs, Nothing <- None

map == <<iter, regions, reads>>
walk == <<tables, madt, acpi, seen>>
fdt == <<path, depth, current, current_depth, result, fdt_pc, fdt_seen>>
built == <<memory, cpu_iommu, manifest, boot_info>>
vars == <<arch, entry, blob, pc, map, walk, fdt, built>>

Kinds == {"Usable", "Reserved", "AcpiReclaimable", "AcpiNvs", "Mmio",
          "KernelImage", "BootReserved"}

\* UefiMemoryType::from_u32 and classify_uefi_type; an unknown type is None.
classify_uefi_type(ty) ==
  CASE ty \in {1, 2, 3, 4, 7} -> "Usable"
    [] ty = 9 -> "AcpiReclaimable"
    [] ty = 10 -> "AcpiNvs"
    [] ty \in {11, 12} -> "Mmio"
    [] OTHER -> "Reserved"

Init ==
  /\ EntryInit /\ Fdt!Init
  /\ blob \in [map_size : 0..MaxMapSize, descriptor_size : Strides]
  /\ arch = "riscv64" => blob = [map_size |-> 0, descriptor_size |-> StructSize]
  /\ pc = "entry"
  /\ iter = [offset |-> 0, remaining |-> blob.map_size]
  /\ regions = <<>> /\ reads = <<>>
  /\ tables = 0 /\ madt = [left |-> 0, base |-> None, length |-> 0]
  /\ acpi = [iommu |-> FALSE, gicd |-> None]
  /\ seen = [signatures |-> {}, gicd |-> None]
  /\ memory = [regions |-> <<>>, iommu_present |-> FALSE, base |-> None]
  /\ cpu_iommu = FALSE
  /\ manifest = [regions |-> <<>>, iommu |-> FALSE]
  /\ boot_info = [kernel_image |-> <<0, 0>>, boot_reserved |-> <<0, 0>>]

----------------------------------------------------------------------------
\* boot.S, on whichever hart.
Start ==
  /\ EntryNext
  /\ UNCHANGED <<blob, pc, map, walk, fdt, built>>

\* hal_<arch>_rust_entry: Cpu::new, then Memory from what the argument points at.
rust_entry ==
  /\ pc = "entry" /\ \E h \in Harts : at[h] = "rust"
  /\ pc' = IF arch = "riscv64" THEN "fdt" ELSE "map"
  /\ UNCHANGED <<arch, entry, fdt, blob, map, walk, built>>

\* Slip: the descriptor_size is not compared with the struct.
more_unchecked == iter.remaining >= blob.descriptor_size

\* The early return of DescriptorIter::next.
More == /\ iter.remaining >= blob.descriptor_size
        /\ blob.descriptor_size >= StructSize

\* The rest of DescriptorIter::next: one read, one stride.
Advance(ty) ==
  /\ reads' = Append(reads, [at |-> iter.offset, ty |-> ty])
  /\ iter' = [offset |-> iter.offset + blob.descriptor_size,
              remaining |-> iter.remaining - blob.descriptor_size]

\* Slip: the capacity is not checked.
push_unbounded(ty) ==
  /\ pc = "map" /\ More
  /\ Advance(ty)
  /\ regions' = Append(regions, [page |-> Len(reads), length |-> 1,
                                 kind |-> classify_uefi_type(ty),
                                 behind_iommu |-> FALSE])
  /\ UNCHANGED <<arch, entry, fdt, blob, pc, walk, built>>

\* The loop of from_uefi_memory_map: one region per descriptor.
push_descriptor(ty) ==
  /\ pc = "map" /\ More /\ Len(regions) < MaxRegions
  /\ Advance(ty)
  /\ regions' = Append(regions, [page |-> Len(reads), length |-> 1,
                                 kind |-> classify_uefi_type(ty),
                                 behind_iommu |-> FALSE])
  /\ UNCHANGED <<arch, entry, fdt, blob, pc, walk, built>>

\* locate_acpi_rsdp and the headers: no RSDP and no XSDT are an empty XSDT.
open_xsdt ==
  /\ \E n \in 0..MaxTables : tables' = n
  /\ pc' = "xsdt"

\* The descriptor that exceeds the capacity is read, then dropped (break).
truncate_map(ty) ==
  /\ pc = "map" /\ More /\ Len(regions) >= MaxRegions
  /\ Advance(ty)
  /\ open_xsdt
  /\ UNCHANGED <<arch, entry, fdt, blob, regions, madt, acpi, seen, built>>

map_ends ==
  /\ pc = "map" /\ ~More
  /\ open_xsdt
  /\ UNCHANGED <<arch, entry, fdt, blob, map, madt, acpi, seen, built>>

----------------------------------------------------------------------------
Signatures == {"DMAR", "APIC", "IORT", "other"}

ReadTable(signature) == pc = "xsdt" /\ tables > 0 /\ signature \in Signatures

\* What the MADT may hold from a place with that many bytes left on: base is
\* None unless the entry is a distributor's.
Entries(left) == [left : {left}, base : Bases \cup {None}, length : 0..2]

\* acpi_dmar_present returns at the first DMAR.
acpi_dmar_present(signature) ==
  /\ arch = "x86_64" /\ ReadTable(signature)
  /\ tables' = IF signature = "DMAR" THEN 0 ELSE tables - 1
  /\ acpi' = [acpi EXCEPT !.iommu = signature = "DMAR"]
  /\ seen' = [seen EXCEPT !.signatures = @ \cup {signature}]
  /\ UNCHANGED <<arch, entry, fdt, blob, pc, map, madt, built>>

\* Slip: the presence of an IOMMU is that of the last table.
discover_last(signature) ==
  /\ arch = "arm64" /\ ReadTable(signature)
  /\ tables' = tables - 1
  /\ acpi' = [ iommu |-> (signature = "IORT"),
               gicd |-> IF signature = "APIC" THEN None ELSE acpi.gicd ]
  /\ seen' = [ signatures |-> seen.signatures \cup {signature},
               gicd |-> IF signature = "APIC" THEN None ELSE seen.gicd ]
  /\ IF signature = "APIC"
     THEN pc' = "madt" /\ \E n \in 0..MadtSize : madt' \in Entries(n)
     ELSE UNCHANGED <<pc, madt>>
  /\ UNCHANGED <<arch, entry, fdt, blob, map, built>>

\* acpi_discover visits every table; what a MADT says, a distributor or none,
\* replaces what one before it said.
acpi_discover(signature) ==
  /\ arch = "arm64" /\ ReadTable(signature)
  /\ tables' = tables - 1
  /\ acpi' = [ iommu |-> (acpi.iommu \/ signature = "IORT"),
               gicd |-> IF signature = "APIC" THEN None ELSE acpi.gicd ]
  /\ seen' = [ signatures |-> seen.signatures \cup {signature},
               gicd |-> IF signature = "APIC" THEN None ELSE seen.gicd ]
  /\ IF signature = "APIC"
     THEN pc' = "madt" /\ \E n \in 0..MadtSize : madt' \in Entries(n)
     ELSE UNCHANGED <<pc, madt>>
  /\ UNCHANGED <<arch, entry, fdt, blob, map, built>>

\* Slip: no break on an entry of length zero.
walk_regardless ==
  /\ pc = "madt" /\ madt.left > 0
  /\ seen' = [seen EXCEPT !.gicd = madt.base]
  /\ IF madt.base # None
     THEN acpi' = [acpi EXCEPT !.gicd = madt.base] /\ madt' = [madt EXCEPT !.left = 0]
     ELSE /\ IF madt.length = 0 THEN UNCHANGED madt
                                ELSE madt' \in Entries(Max({0, madt.left - madt.length}))
          /\ UNCHANGED acpi
  /\ UNCHANGED <<arch, entry, fdt, blob, pc, map, tables, built>>

\* find_gicd_in_madt, one entry: its type is looked at before its length.
find_gicd_in_madt ==
  /\ pc = "madt" /\ madt.left > 0
  /\ seen' = [seen EXCEPT !.gicd = madt.base]
  /\ IF madt.base # None
     THEN acpi' = [acpi EXCEPT !.gicd = madt.base] /\ madt' = [madt EXCEPT !.left = 0]
     ELSE /\ IF madt.length = 0 THEN madt' = [madt EXCEPT !.left = 0]
                                ELSE madt' \in Entries(Max({0, madt.left - madt.length}))
          /\ UNCHANGED acpi
  /\ UNCHANGED <<arch, entry, fdt, blob, pc, map, tables, built>>

madt_ends ==
  /\ pc = "madt" /\ madt.left = 0
  /\ pc' = "xsdt"
  /\ UNCHANGED <<arch, entry, fdt, blob, map, walk, built>>

\* The end of from_uefi_memory_map: behind_iommu, then the Memory.
new_memory ==
  /\ pc = "xsdt" /\ tables = 0
  /\ memory' = [ regions |-> [ i \in DOMAIN regions |->
                               [regions[i] EXCEPT !.behind_iommu = acpi.iommu] ],
                 iommu_present |-> acpi.iommu,
                 base |-> IF acpi.gicd = None THEN DefaultGicd ELSE acpi.gicd ]
  /\ pc' = "manifest"
  /\ UNCHANGED <<arch, entry, fdt, blob, map, walk, cpu_iommu, manifest, boot_info>>

\* walk_device_tree, one token.
walk_device_tree ==
  /\ pc = "fdt"
  /\ Fdt!walk_device_tree
  /\ UNCHANGED <<arch, entry, blob, pc, map, walk, built>>

\* The rest of from_device_tree: one Usable region, whatever lies in it.
from_device_tree ==
  /\ pc = "fdt" /\ fdt_pc = "done"
  /\ LET dt == Fdt!from_device_tree(DefaultMemory, DefaultPlic) IN
     memory' = [ regions |-> << [page |-> dt.memory.page, length |-> dt.memory.length,
                                 kind |-> "Usable", behind_iommu |-> dt.behind_iommu] >>,
                 iommu_present |-> dt.behind_iommu,
                 base |-> dt.plic_base ]
  /\ pc' = "manifest"
  /\ UNCHANGED <<arch, entry, fdt, blob, map, walk, cpu_iommu, manifest, boot_info>>

----------------------------------------------------------------------------
\* Slip: one region fewer is pushed.
push_one_fewer(all) == SubSeq(all, 1, Min({MaxRegions - 1, Len(all)}))

\* HardwareManifestRaw::push_memory_region, for each region in turn.
push_memory_region(all) == SubSeq(all, 1, Min({MaxRegions, Len(all)}))

\* built_hardware_manifest: mark_iommu_capable comes last, and the flags are
\* read again after it.
built_hardware_manifest ==
  /\ pc = "manifest"
  /\ cpu_iommu' = memory.iommu_present
  /\ manifest' = [regions |-> push_memory_region(memory.regions), iommu |-> cpu_iommu']
  /\ pc' = "boot_info"
  /\ UNCHANGED <<arch, entry, fdt, blob, map, walk, memory, boot_info>>

\* BootInfo::validate; magic and version are constants of BootInfo::new.
validate(info) ==
  /\ info.kernel_image[2] >= info.kernel_image[1]
  /\ info.boot_reserved[2] >= info.boot_reserved[1]

\* The rust entry: BootInfo::new from the linker's symbols, then the
\* debug_assert.  The stack's symbols are defined inside .bss, which is
\* linked at KERNEL_VMA_BASE; those of the image are load addresses.
hand_off ==
  /\ pc = "boot_info"
  /\ boot_info' = [ kernel_image |-> <<ImageStart, ImageEnd>>,
                    boot_reserved |-> <<VmaBase + StackStart, VmaBase + StackEnd>> ]
  /\ pc' = IF validate(boot_info') THEN "kernel" ELSE "panic"
  /\ UNCHANGED <<arch, entry, fdt, blob, map, walk, memory, cpu_iommu, manifest>>

\* kernel_main reports, whatever validate returns, and halts.
kernel_main ==
  /\ pc = "kernel"
  /\ pc' = "halted"
  /\ UNCHANGED <<arch, entry, fdt, blob, map, walk, built>>

halt_forever == pc = "halted" /\ UNCHANGED vars

\* Hart 0 was not released: the others wait in wfi.
parked_forever == at[0] = "off" /\ (\A h \in Harts : at[h] # "start") /\ UNCHANGED vars

Next ==
  \/ Start \/ rust_entry
  \/ walk_device_tree \/ from_device_tree
  \/ \E ty \in Types : push_descriptor(ty) \/ truncate_map(ty)
  \/ map_ends
  \/ \E s \in {"DMAR", "APIC", "IORT", "other"} : acpi_dmar_present(s) \/ acpi_discover(s)
  \/ find_gicd_in_madt \/ madt_ends \/ new_memory \/ built_hardware_manifest
  \/ hand_off \/ kernel_main \/ halt_forever \/ parked_forever

\* Boot is one thread with interrupts off: nothing but firmware data can keep
\* it from its next step, and a structure block has an end, which offset
\* reaches because every token moves it.
BlockEnds ==
  /\ pc = "fdt"
  /\ Fdt!Truncated
  /\ UNCHANGED <<arch, entry, blob, pc, map, walk, built>>

Spec == Init /\ [][Next]_vars /\ WF_vars(Next) /\ WF_vars(BlockEnds)

----------------------------------------------------------------------------
Region == [page : Nat, length : Nat, kind : Kinds, behind_iommu : BOOLEAN]
Handed == pc \in {"kernel", "halted"}

\* Every variable keeps its type; the tracked regions never exceed
\* MAX_MEMORY_REGIONS, and the iterator's two cursors stay complementary.
TypeOK ==
  /\ EntryTypeOK /\ Fdt!TypeOK
  /\ blob \in [map_size : Nat, descriptor_size : Strides]
  /\ pc \in {"entry", "map", "xsdt", "madt", "fdt", "manifest", "boot_info",
            "kernel", "halted"}
  /\ iter.offset \in Nat /\ iter.remaining = blob.map_size - iter.offset
  /\ regions \in Seq(Region) /\ Len(regions) <= MaxRegions
  /\ tables \in 0..MaxTables /\ madt \in UNION {Entries(n) : n \in 0..MadtSize}
  /\ acpi \in [iommu : BOOLEAN, gicd : Bases \cup {None}]
  /\ memory.regions \in Seq(Region) /\ manifest.regions \in Seq(Region)
  /\ memory.base \in Bases \cup Regs \cup {DefaultGicd, DefaultPlic, None}
  /\ cpu_iommu \in BOOLEAN

\* DescriptorIter reads inside the array the header announces and only at the
\* start of a slot, for every descriptor_size a firmware may report, larger or
\* smaller than the struct or zero, and every map_size, multiple of it or not.
ReadsInsideMap ==
  \A i \in DOMAIN reads :
    /\ reads[i].at + StructSize <= blob.map_size
    /\ reads[i].at = (i - 1) * blob.descriptor_size

\* On a UEFI machine what kernel_main is given is the map it was pointed at:
\* the first MAX_MEMORY_REGIONS descriptors in their order, free memory Usable
\* and nothing the firmware keeps (runtime services, ACPI, MMIO) Usable, nor
\* counted as such by the Root Task's total.
ManifestIsFirmwareMap ==
  Handed /\ arch # "riscv64" =>
    /\ Len(manifest.regions) =
         IF blob.descriptor_size < StructSize THEN 0
         ELSE Min({MaxRegions, blob.map_size \div blob.descriptor_size})
    /\ \A i \in DOMAIN manifest.regions :
         LET region == manifest.regions[i] IN
         /\ region.page = i - 1
         /\ region.kind = "Usable" <=> reads[i].ty \in {1, 2, 3, 4, 7}
         /\ region.kind = "Mmio" <=> reads[i].ty \in {11, 12}
    /\ total_usable_memory(memory_regions_from(manifest.regions)) =
         Cardinality({i \in DOMAIN manifest.regions : reads[i].ty \in {1, 2, 3, 4, 7}})

\* Without a stack the walker of the device tree still knows which open node
\* it tracks, as FdtWalk states it.
TracksOpenNode == Fdt!TracksOpenNode

\* At the handoff what the firmware's tables said has reached everyone who was
\* to learn it.  Whether an IOMMU is present: Memory, the CPU's flags, the
\* manifest's copy of those flags, and every region, in whatever order the
\* ACPI tables are listed and wherever in a complete device tree it is.  On
\* arm64, the distributor's base, which QEMU's default replaces only when no
\* entry of the last MADT, before a malformed one, holds it.  On riscv64 the
\* memory and the PLIC are QEMU's defaults, whatever nodes the device tree
\* holds: the root has no name, so it is tracked as a possible IOMMU, and while
\* it is open no other node is.
FirmwareAgrees ==
  Handed =>
    LET present == IF arch = "riscv64" THEN memory.iommu_present
                   ELSE (IF arch = "x86_64" THEN "DMAR" ELSE "IORT") \in seen.signatures IN
    /\ memory.iommu_present = present
    /\ cpu_iommu = present /\ manifest.iommu = present
    /\ \A i \in DOMAIN manifest.regions : manifest.regions[i].behind_iommu = present
    /\ arch = "riscv64" =>
         /\ Fdt!IommuFound
         /\ memory.base = DefaultPlic /\ Len(memory.regions) = 1
         /\ memory.regions[1].page = DefaultMemory.page
         /\ memory.regions[1].length = DefaultMemory.length
    /\ arch # "riscv64" => memory.base = IF seen.gicd = None THEN DefaultGicd ELSE seen.gicd

\* Once hart 0 is released the boot path ends in kernel_main's halt, also for a
\* MADT with an entry of length zero, a map whose descriptor_size is zero and a
\* device tree that breaks off.
BootEnds == at[0] # "off" => <>(pc = "halted")
============================================================================
