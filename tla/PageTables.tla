----------------------------- MODULE PageTables -----------------------------
(***************************************************************************)
(* The boot page tables of hal_core::memory::MemoryBootstrap: the 4-level  *)
(* tables of hal-x86_64 and hal-arm64 and the 3-level Sv39 tables of       *)
(* hal-riscv64, with their fixed pool of lower-level tables.               *)
(*                                                                         *)
(* setup_identity_mapping walks the tables once for each page of its       *)
(* region; here every iteration of the walk in map_page is a step.  It     *)
(* runs on one core, with no other caller (the safety contract of          *)
(* alloc_table).                                                           *)
(***************************************************************************)
EXTENDS Integers

CONSTANTS
  Archs,      \* the architectures of this instance
  Entries,    \* ENTRIES_PER_TABLE
  PoolSize,   \* TABLE_POOL_SIZE
  PageSize,   \* PAGE_SIZE, in bytes
  AddrMod,    \* 2^64: addresses wrap here in a release build
  FieldPages, \* the pages the address field of an entry can name: 2^40 on
              \* x86_64, 2^36 on arm64, 2^44 on riscv64
  PoolBase,   \* the page of the pointers to TABLE_POOL, counted from table 1
  Regions,    \* the regions the caller maps: [base_addr, length_bytes]
  Unmapped    \* no translation

ASSUME PageTablesAssumption ==
  /\ Archs \subseteq {"x86_64", "arm64", "riscv64"}
  /\ Entries \in Nat \ {0, 1} /\ PoolSize \in Nat /\ PageSize \in Nat \ {0}
  /\ AddrMod \in Nat \ {0} /\ AddrMod % PageSize = 0
  /\ FieldPages \in Nat \ {0} /\ PoolBase \in Nat
  /\ Regions \subseteq [base_addr : 0..(AddrMod - 1), length_bytes : 0..(AddrMod - 1)]

VARIABLES
  arch,       \* which hal-<arch> crate is linked
  tables,     \* PML4 / TTBR0_ROOT / ROOT_TABLE is table 0, TABLE_POOL the rest
  next,       \* TABLE_POOL_NEXT
  addr, end,  \* the loop of setup_identity_mapping
  level,      \* the loop of map_page
  table_ptr,  \* the table that loop has reached
  flags,      \* the leaf attributes of the call
  outcome,    \* "none", "running", "Ok", "Err"; "Fault": no table was there
  request,    \* history: the region and permissions of the call
  asked       \* history: per page, the permissions last asked for

walk == <<level, table_ptr>>
vars == <<arch, tables, next, addr, end, walk, flags, outcome, request, asked>>

Root == 0
Tables == 0..PoolSize
Indices == 0..(Entries - 1)

Depth == IF arch = "riscv64" THEN 3 ELSE 4

\* virt >> 12, >> 21, >> 30, >> 39, counted in pages.
Stride(l) ==
  CASE l = Depth - 1 -> 1
    [] l = Depth - 2 -> Entries
    [] l = Depth - 3 -> Entries * Entries
    [] l = Depth - 4 -> Entries * Entries * Entries

Index(page, l) == (page \div Stride(l)) % Entries

Page(a) == a \div PageSize

align_down(a) == a - (a % PageSize)
align_up(a) == align_down((a + PageSize - 1) % AddrMod)

\* An entry holds the pointer to a table, or the address of a page cut to the
\* address field.
Empty == [kind |-> "empty"]
TableEntry(t) == [kind |-> "table", addr |-> PoolBase + t]
PageEntry(p, f) == [kind |-> "page", addr |-> p % FieldPages, flags |-> f]

\* The table that the pointer in the address field of an entry leads to; if it
\* is none of Tables, there is no table at that address.
Followed(e) == (e.addr % FieldPages) - PoolBase

\* The linker put the tables where an entry can name them.
PoolFits == PoolBase + PoolSize < FieldPages

(***************************************************************************)
(* MapPermissions, and what each architecture makes of them: the set of    *)
(* attribute bits in the leaf entry.                                       *)
(***************************************************************************)
MapPermissions == [writable : BOOLEAN, executable : BOOLEAN, device_uncached : BOOLEAN]

Presets ==
  { [writable |-> FALSE, executable |-> TRUE,  device_uncached |-> FALSE],  \* KERNEL_CODE
    [writable |-> TRUE,  executable |-> FALSE, device_uncached |-> FALSE],  \* KERNEL_DATA
    [writable |-> FALSE, executable |-> FALSE, device_uncached |-> FALSE],  \* KERNEL_RODATA
    [writable |-> TRUE,  executable |-> FALSE, device_uncached |-> TRUE] }  \* DEVICE_MMIO

\* Slip: pages stay executable.
flags_without_nx(perms) ==
  (IF perms.writable THEN {"WRITABLE"} ELSE {})
    \cup (IF perms.device_uncached THEN {"CACHE_DISABLE", "WRITE_THROUGH"} ELSE {})

permissions_to_flags_x86_64(perms) ==
  (IF perms.writable THEN {"WRITABLE"} ELSE {})
    \cup (IF perms.executable THEN {} ELSE {"NO_EXECUTE"})
    \cup (IF perms.device_uncached THEN {"CACHE_DISABLE", "WRITE_THROUGH"} ELSE {})

AP_RW_EL1 == {}               \* 0 << 6: no bit

permissions_to_flags_arm64(perms) ==
  {"SHAREABILITY_INNER"}
    \cup (IF perms.device_uncached THEN {"ATTR_DEVICE"} ELSE {})
    \cup (IF perms.writable THEN AP_RW_EL1 ELSE {})
    \cup (IF perms.executable THEN {} ELSE {"PXN", "UXN"})

permissions_to_flags_riscv64(perms) ==
  {"READ"}
    \cup (IF perms.writable THEN {"WRITE"} ELSE {})
    \cup (IF perms.executable THEN {"EXECUTE"} ELSE {})

permissions_to_flags(perms) ==
  CASE arch = "x86_64" -> permissions_to_flags_x86_64(perms)
    [] arch = "arm64" -> permissions_to_flags_arm64(perms)
    [] arch = "riscv64" -> permissions_to_flags_riscv64(perms)

\* What the hardware grants for an entry with the flags f.
Writable(f) ==
  CASE arch = "x86_64" -> "WRITABLE" \in f
    [] arch = "arm64" -> "AP_READ_ONLY" \notin f
    [] arch = "riscv64" -> "WRITE" \in f

Executable(f) ==
  CASE arch = "x86_64" -> "NO_EXECUTE" \notin f
    [] arch = "arm64" -> "PXN" \notin f
    [] arch = "riscv64" -> "EXECUTE" \in f

----------------------------------------------------------------------------
Init ==
  /\ arch \in Archs
  /\ tables = [t \in Tables |-> [i \in Indices |-> Empty]]
  /\ next = 0
  /\ addr = 0 /\ end = 0
  /\ level = 0 /\ table_ptr = Root
  /\ flags = {}
  /\ outcome = "none"
  /\ request = Unmapped
  /\ asked = [p \in {} |-> Unmapped]

\* The call begins.  Without overflow checks base_addr + length_bytes wraps.
setup_identity_mapping(region, perms) ==
  /\ outcome \notin {"running", "Fault"}
  /\ request' = [region |-> region, perms |-> perms]
  /\ IF region.length_bytes = 0
     THEN outcome' = "Err" /\ UNCHANGED <<addr, end, flags>>
     ELSE /\ outcome' = "running"
          /\ flags' = permissions_to_flags(perms)
          /\ addr' = align_down(region.base_addr)
          /\ end' = align_up((region.base_addr + region.length_bytes) % AddrMod)
  /\ UNCHANGED <<arch, tables, next, walk, asked>>

Walking == outcome = "running" /\ addr < end

Entry == tables[table_ptr][Index(Page(addr), level)]

\* The next iteration reads through the pointer just taken from the entry e.
GoDown(e) ==
  IF Followed(e) \in Tables
  THEN table_ptr' = Followed(e) /\ level' = level + 1 /\ UNCHANGED outcome
  ELSE outcome' = "Fault" /\ UNCHANGED walk

\* map_page, one level down: the entry leads to a table ...
Descend ==
  /\ Walking /\ level < Depth - 1 /\ Entry # Empty
  /\ GoDown(Entry)
  /\ UNCHANGED <<arch, tables, next, addr, end, flags, request, asked>>

\* Slips: the pool's bound is off by one; the pool never moves on.
alloc_past_the_end ==
  /\ Walking /\ level < Depth - 1 /\ Entry = Empty
  /\ next <= PoolSize
  /\ next' = next + 1
  /\ tables' = [tables EXCEPT ![table_ptr][Index(Page(addr), level)] =
                                 TableEntry(next + 1)]
  /\ GoDown(TableEntry(next + 1))
  /\ UNCHANGED <<arch, addr, end, flags, request, asked>>

alloc_same_again ==
  /\ Walking /\ level < Depth - 1 /\ Entry = Empty
  /\ next < PoolSize
  /\ tables' = [tables EXCEPT ![table_ptr][Index(Page(addr), level)] =
                                 TableEntry(next + 1)]
  /\ GoDown(TableEntry(next + 1))
  /\ UNCHANGED <<arch, next, addr, end, flags, request, asked>>

\* ... or it is empty and gets the next table of the pool ...
alloc_table ==
  /\ Walking /\ level < Depth - 1 /\ Entry = Empty
  /\ next < PoolSize
  /\ next' = next + 1
  /\ tables' = [tables EXCEPT ![table_ptr][Index(Page(addr), level)] =
                                 TableEntry(next + 1)]
  /\ GoDown(TableEntry(next + 1))
  /\ UNCHANGED <<arch, addr, end, flags, request, asked>>

\* Slip: the error of the pool is not passed on.
exhausted_ignored ==
  /\ Walking /\ level < Depth - 1 /\ Entry = Empty
  /\ next >= PoolSize
  /\ addr' = addr + PageSize
  /\ level' = 0 /\ table_ptr' = Root
  /\ UNCHANGED <<arch, tables, next, end, flags, outcome, request, asked>>

\* ... unless the pool is empty: Err(InvalidMemoryRegion), and what was mapped
\* so far stays.
PoolExhausted ==
  /\ Walking /\ level < Depth - 1 /\ Entry = Empty
  /\ next >= PoolSize
  /\ outcome' = "Err"
  /\ addr' = end
  /\ level' = 0 /\ table_ptr' = Root
  /\ UNCHANGED <<arch, tables, next, end, flags, request, asked>>

\* Slip: the loop maps the same page again.
map_page_again ==
  /\ Walking /\ level = Depth - 1
  /\ tables' = [tables EXCEPT ![table_ptr][Index(Page(addr), level)] =
                                 PageEntry(Page(addr), flags)]
  /\ asked' = [p \in DOMAIN asked \cup {Page(addr)} |->
                 IF p = Page(addr) THEN request.perms ELSE asked[p]]
  /\ level' = 0 /\ table_ptr' = Root
  /\ UNCHANGED <<arch, next, addr, end, flags, outcome, request>>

\* The leaf is written, whatever it held, and the loop goes to the next page.
map_page ==
  /\ Walking /\ level = Depth - 1
  /\ tables' = [tables EXCEPT ![table_ptr][Index(Page(addr), level)] =
                                 PageEntry(Page(addr), flags)]
  /\ asked' = [p \in DOMAIN asked \cup {Page(addr)} |->
                 IF p = Page(addr) THEN request.perms ELSE asked[p]]
  /\ addr' = addr + PageSize
  /\ level' = 0 /\ table_ptr' = Root
  /\ UNCHANGED <<arch, next, end, flags, outcome, request>>

Return ==
  /\ outcome = "running" /\ addr >= end
  /\ outcome' = "Ok"
  /\ UNCHANGED <<arch, tables, next, addr, end, walk, flags, request, asked>>

Next ==
  \/ \E region \in Regions, perms \in Presets : setup_identity_mapping(region, perms)
  \/ Descend \/ alloc_table \/ PoolExhausted \/ map_page \/ Return

\* The caller's code runs on until the call returns.
Fairness == WF_vars(Descend \/ alloc_table \/ PoolExhausted \/ map_page \/ Return)

Spec == Init /\ [][Next]_vars /\ Fairness

----------------------------------------------------------------------------
(***************************************************************************)
(* The translation the hardware makes of a virtual page.  On x86_64 and    *)
(* riscv64 only the addresses below the middle of the span (and their      *)
(* sign-extended counterparts) are canonical; on arm64 T0SZ = 16 gives all *)
(* of it to TTBR0.                                                         *)
(***************************************************************************)
Span == Entries * Stride(0)

Canonical(v) == v < IF arch = "arm64" THEN Span ELSE Span \div 2

\* The same limit, for any architecture; and that the caller maps canonical
\* addresses only.  map_page takes its indices out of the address and looks at
\* no other bit: it returns Ok for every address.
SpanOf(a) == Entries * Entries * Entries * (IF a = "riscv64" THEN 1 ELSE Entries)

LimitOf(a) == IF a = "arm64" THEN SpanOf(a) ELSE SpanOf(a) \div 2

\* An entry can name every canonical address.
ASSUME FieldAssumption == \A a \in Archs : LimitOf(a) <= FieldPages

CanonicalRegions ==
  \A a \in Archs, r \in Regions, p \in 0..Page(AddrMod - 1) :
    /\ r.length_bytes # 0
    /\ align_down(r.base_addr) <= p * PageSize
    /\ p * PageSize < align_up((r.base_addr + r.length_bytes) % AddrMod)
    => p < LimitOf(a)

\* The walk of the hardware; nothing is mapped where it finds no table.
Follow(e, v, l) ==
  IF e = Empty \/ Followed(e) \notin Tables THEN Empty
  ELSE tables[Followed(e)][Index(v, l)]

Translate(v) ==
  LET e0 == tables[Root][Index(v, 0)]
      e1 == Follow(e0, v, 1)
      e2 == Follow(e1, v, 2)
      leaf == IF Depth = 3 THEN e2 ELSE Follow(e2, v, 3)
  IN IF ~Canonical(v) \/ leaf = Empty THEN Unmapped
     ELSE [page |-> leaf.addr, flags |-> leaf.flags]

\* The pages of a region: of every byte of it, whole pages.
RegionPages(r) == {p \in 0..Page(AddrMod - 1) :
                     /\ (p + 1) * PageSize > r.base_addr
                     /\ p * PageSize < r.base_addr + r.length_bytes}

AllPages == UNION {RegionPages(r) : r \in Regions}

Wraps(r) == r.base_addr + r.length_bytes + PageSize > AddrMod

----------------------------------------------------------------------------
(***************************************************************************)
(* Properties.                                                             *)
(***************************************************************************)
TableEntries == {TableEntry(t) : t \in 1..PoolSize}

\* Types: every table holds entries, and the walk stays inside the tables.
TypeOK ==
  /\ arch \in Archs
  /\ DOMAIN tables = Tables
  /\ \A t \in Tables : DOMAIN tables[t] = Indices
  /\ \A t \in Tables, i \in Indices :
       \/ tables[t][i] = Empty
       \/ tables[t][i] \in TableEntries
       \/ tables[t][i].kind = "page" /\ tables[t][i].addr \in 0..(FieldPages - 1)
  /\ next \in 0..PoolSize
  /\ addr \in 0..AddrMod /\ end \in 0..AddrMod
  /\ level \in 0..(Depth - 1)
  /\ table_ptr \in Tables
  /\ outcome \in {"none", "running", "Ok", "Err", "Fault"}

Child(t, i) == tables[t][i].addr - PoolBase
IsTable(t, i) == tables[t][i].kind = "table"

\* The tables form a tree: an allocated table hangs off exactly one entry, no
\* entry leads to the root or to a table the pool still holds, and a table the
\* pool still holds is blank, so that hanging it into the tree maps nothing.
TreeShape ==
  /\ \A t \in Tables, i \in Indices : IsTable(t, i) => Child(t, i) \in 1..next
  /\ \A t, u \in Tables, i, j \in Indices :
       IsTable(t, i) /\ IsTable(u, j) /\ Child(t, i) = Child(u, j) => t = u /\ i = j
  /\ \A k \in 1..next : \E t \in Tables, i \in Indices : tables[t][i] = TableEntry(k)
  /\ \A t \in Tables : t > next => \A i \in Indices : tables[t][i] = Empty

\* setup_identity_mapping does what AddressSpace promises: a step that follows
\* or allocates a table changes no translation, a leaf changes one page's, and
\* Err keeps every mapping there was.
TodoPages == IF outcome # "running" THEN {}
             ELSE {p \in AllPages : addr <= p * PageSize /\ p * PageSize < end}

Promise == INSTANCE AddressSpace WITH
  VPages <- AllPages,
  space <- [v \in AllPages |-> Translate(v)],
  todo <- TodoPages

KeepsPromise == Promise!Spec

\* When the call returns Ok every page of its region translates to itself,
\* unless the region runs into the end of the address space; and from then on
\* a page grants execute access exactly as the last call that mapped it asked,
\* and write access exactly as asked on x86_64 and riscv64, always on arm64:
\* AP[2] is never set there, for the "default" AP field that is to express
\* read-only (hal-arm64/src/memory.rs:445) is read-write at EL1.  Regions are
\* canonical addresses: map_page does not look at the bits above the ones it
\* takes its indices from.  The tables are where an entry can name them
\* (PoolFits).
OkMeansMapped ==
  /\ outcome = "Ok" /\ ~Wraps(request.region) =>
       \A p \in RegionPages(request.region) :
         Translate(p) = [page |-> p, flags |-> permissions_to_flags(request.perms)]
  /\ \A p \in DOMAIN asked :
       LET f == Translate(p).flags
       IN /\ Executable(f) = asked[p].executable
          /\ Writable(f) = (asked[p].writable \/ arch = "arm64")

\* map_page only ever reads and writes its own tables: "`table_ptr` is a valid
\* `PageTable` per this loop's invariant" (hal-x86_64/src/memory.rs:402).  It is
\* not when the pointer stored in an entry does not survive the mask it is
\* recovered with.
WalkStaysInTables == outcome # "Fault"

\* Every call returns: the walk is bounded by the depth, the loop by the region.
CallReturns == outcome = "running" ~> outcome \in {"Ok", "Err"}
=============================================================================
