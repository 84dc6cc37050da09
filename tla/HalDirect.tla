----------------------------- MODULE HalDirect -----------------------------
(***************************************************************************)
(* hal-direct: hardware access for callers outside the kernel, gated by a  *)
(* CapabilityToken (hal_direct::verify_token and the DirectAccess of every *)
(* hal-<arch>).                                                            *)
(*                                                                         *)
(* Contexts call while the clock runs.  A call reads the clock, verifies   *)
(* its token and then acts; map_mmio_region goes through the shared page   *)
(* tables of setup_identity_mapping, with the pool cursor read and written *)
(* in two steps, and on arm64 a counter is selected in one step and read   *)
(* in another.  Nothing in the code keeps two calls apart: they interleave *)
(* unless the kernel is a guarded one, which makes one call at a time.     *)
(***************************************************************************)
EXTENDS Integers, FiniteSets

CONSTANTS
  Archs,       \* the architectures of this instance
  Kernels,     \* subset of BOOLEAN: see guarded
  Contexts,    \* who calls
  Regions,     \* the (phys, size) arguments of map_mmio_region
  Counters,    \* the counter arguments of read_performance_counter
  CoreIds,     \* the core_id arguments of pin_thread_to_core
  U32,         \* 2^32: core_id is cut to this
  Levels,      \* bound: depth of the tables (4, or 3 for Sv39)
  Entries,     \* ENTRIES_PER_TABLE
  PoolSize,    \* TABLE_POOL_SIZE
  PageSize,    \* PAGE_SIZE
  FieldPages,  \* the pages the address field of an entry can name
  PoolBase,    \* the page of the pointers to TABLE_POOL, counted from table 1
  Expiries,    \* the expires_at_ns the Security Broker chooses
  Requests,    \* the calls made: operation, argument and the token presented
  MaxNow,      \* bound: the clock stops here
  None

(***************************************************************************)
(* Tokens.  A signature is what it signs; the Security Broker signs the    *)
(* tokens it mints, anybody can put together one that it did not.          *)
(***************************************************************************)
MmioRegion(r) == [kind |-> "MmioRegion", of |-> r]
PerformanceCounter(n) == [kind |-> "PerformanceCounter", of |-> n]
ThreadAffinity(n) == [kind |-> "ThreadAffinity", of |-> n]
NumaPolicy == [kind |-> "NumaPolicy", of |-> None]

CapabilityScope ==
  {MmioRegion(r) : r \in Regions} \cup {PerformanceCounter(n) : n \in Counters}
    \cup {ThreadAffinity(n % U32) : n \in CoreIds} \cup {NumaPolicy}

\* CapabilityToken::new assembles the fields, with_signature signs them.
Token(scope, expires) == [scope |-> scope, expires_at_ns |-> expires, signature |-> None]
with_signature(t, scope, expires) == [t EXCEPT !.signature = <<scope, expires>>]

CapabilityTokens ==
  LET plain == {Token(s, e) : s \in CapabilityScope, e \in Expiries}
  IN plain \cup {with_signature(t, s, e) : t \in plain, s \in CapabilityScope, e \in Expiries}

ASSUME HalDirectAssumption ==
  /\ Archs \subseteq {"x86_64", "arm64", "riscv64"}
  /\ Kernels \subseteq BOOLEAN
  /\ Regions \subseteq [base : Nat, size : Nat]
  /\ Counters \subseteq Nat /\ CoreIds \subseteq Nat /\ Expiries \subseteq Nat
  /\ {U32, Levels, Entries, PageSize, FieldPages} \subseteq Nat \ {0}
  /\ {PoolSize, PoolBase, MaxNow} \subseteq Nat
  /\ None \notin Nat
  /\ \A r \in Requests :
       /\ r.token \in CapabilityTokens
       /\ \/ r.op = "map_mmio_region" /\ r.arg \in Regions
          \/ r.op = "read_performance_counter" /\ r.arg \in Counters
          \/ r.op = "pin_thread_to_core" /\ r.arg \in CoreIds
          \/ r.op = "set_numa_policy" /\ r.arg = None

VARIABLES
  arch,      \* which hal-<arch> crate is linked
  guarded,   \* the kernel neither preempts nor moves a call: one at a time
  now,       \* Timer::now_ns
  pmselr,    \* arm64: PMSELR_EL0
  tables,    \* the root is table 0, TABLE_POOL the rest
  next,      \* TABLE_POOL_NEXT
  pc,        \* where each context's call is
  req,       \* its operation, argument and token
  at,        \* the clock value it verifies the token with
  walk,      \* map_page: [page, level, table, slot]
  ret,       \* what the last call returned
  granted    \* history: the regions whose token was verified

machine == <<pmselr, tables, next>>
vars == <<arch, guarded, now, machine, pc, req, at, walk, ret, granted>>

\* Slip: only the kind is compared.
covers_kind(t, scope) == t.scope.kind = scope.kind

covers(t, scope) == t.scope = scope

is_expired(t, ns) == ns >= t.expires_at_ns

verify_signature(t) == t.signature = <<t.scope, t.expires_at_ns>>

verify_token(t, scope, ns) ==
  /\ covers(t, scope)
  /\ ~is_expired(t, ns)
  /\ verify_signature(t)

(***************************************************************************)
(* The operations, and the scope each of them asks for.                    *)
(***************************************************************************)
required_scope(r) ==
  CASE r.op = "map_mmio_region" -> MmioRegion(r.arg)
    [] r.op = "read_performance_counter" -> PerformanceCounter(r.arg)
    [] r.op = "pin_thread_to_core" -> ThreadAffinity(r.arg % U32)
    [] r.op = "set_numa_policy" -> NumaPolicy

NoRequest == [op |-> "none", arg |-> None, token |-> None]
NoWalk == [page |-> 0, level |-> 0, table |-> 0, slot |-> 0]
NotCalled == [result |-> "none", value |-> None]
Ok(v) == [result |-> "Ok", value |-> v]
Err == [result |-> "Err", value |-> None]

\* An error leaves nothing behind but the return value.
Fail(c) ==
  /\ pc' = [pc EXCEPT ![c] = "idle"]
  /\ req' = [req EXCEPT ![c] = NoRequest]
  /\ walk' = [walk EXCEPT ![c] = NoWalk]
  /\ at' = [at EXCEPT ![c] = None]
  /\ ret' = [ret EXCEPT ![c] = Err]

Succeed(c, v) ==
  /\ pc' = [pc EXCEPT ![c] = "idle"]
  /\ walk' = [walk EXCEPT ![c] = NoWalk]
  /\ ret' = [ret EXCEPT ![c] = Ok(v)]
  /\ UNCHANGED <<req, at>>

(***************************************************************************)
(* The shared tables.                                                      *)
(***************************************************************************)
Tables == 0..PoolSize
Indices == 0..(Entries - 1)
Empty == [kind |-> "empty", to |-> 0]

\* An entry holds the pointer to a table, or the address of a page cut to the
\* address field; walking on, the field is taken for a pointer again.
TableEntry(t) == [kind |-> "table", to |-> PoolBase + t]
PageEntry(p) == [kind |-> "page", to |-> p % FieldPages]
Followed(e) == (e.to % FieldPages) - PoolBase

\* The linker put the tables where an entry can name them.
PoolFits == PoolBase + PoolSize < FieldPages

\* The pages under one entry of level l: virt >> 12, >> 21, ...
Power[n \in 0..Levels] == IF n = 0 THEN 1 ELSE Entries * Power[n - 1]
Stride(l) == Power[Levels - 1 - l]
Index(page, l) == (page \div Stride(l)) % Entries

\* Slips: the partial last page is cut off; an aligned end is rounded up.
last_whole_page(r) == (r.base + r.size) \div PageSize - 1
last_page_and_one(r) == (r.base + r.size + PageSize) \div PageSize - 1

\* align_down(base), and the last page before align_up(base + size).
FirstPage(r) == r.base \div PageSize
LastPage(r) == (r.base + r.size + PageSize - 1) \div PageSize - 1

Here(c) == tables[walk[c].table][Index(walk[c].page, walk[c].level)]

----------------------------------------------------------------------------
Init ==
  /\ arch \in Archs /\ guarded \in Kernels
  /\ now = 0
  /\ pmselr = 0
  /\ tables = [t \in Tables |-> [i \in Indices |-> Empty]]
  /\ next = 0
  /\ pc = [c \in Contexts |-> "idle"]
  /\ req = [c \in Contexts |-> NoRequest]
  /\ at = [c \in Contexts |-> None]
  /\ walk = [c \in Contexts |-> NoWalk]
  /\ ret = [c \in Contexts |-> NotCalled]
  /\ granted = {}

Busy == {c \in Contexts : pc[c] # "idle"}

\* A context calls, and reads the clock.
Call(c, r) ==
  /\ pc[c] = "idle" /\ (guarded => Busy = {})
  /\ pc' = [pc EXCEPT ![c] = "called"]
  /\ req' = [req EXCEPT ![c] = r]
  /\ at' = [at EXCEPT ![c] = now]
  /\ ret' = [ret EXCEPT ![c] = NotCalled]
  /\ UNCHANGED <<arch, guarded, now, machine, walk, granted>>

Verified(c) == verify_token(req[c].token, required_scope(req[c]), at[c])

\* verify_token fails: Err(InvalidCapabilityToken), nothing else happens.
Refuse(c) ==
  /\ pc[c] = "called" /\ ~Verified(c)
  /\ Fail(c)
  /\ UNCHANGED <<arch, guarded, now, machine, granted>>

\* It succeeds with the clock as it was read, and the operation is next.
Begin(c) ==
  /\ pc[c] = "called" /\ Verified(c)
  /\ pc' = [pc EXCEPT ![c] = "verified"]
  /\ UNCHANGED <<arch, guarded, now, machine, req, at, walk, ret, granted>>

\* pin_thread_to_core and set_numa_policy are the gate and nothing more.
Gate(c) ==
  /\ pc[c] = "verified"
  /\ req[c].op \in {"pin_thread_to_core", "set_numa_policy"}
  /\ Succeed(c, None)
  /\ UNCHANGED <<arch, guarded, now, machine, granted>>

(***************************************************************************)
(* read_performance_counter.  The value read is named by its counter.      *)
(***************************************************************************)
Reading(c) == pc[c] = "verified" /\ req[c].op = "read_performance_counter"

read_performance_counter_x86_64(c) ==
  /\ arch = "x86_64" /\ Reading(c)
  /\ Succeed(c, req[c].arg)
  /\ UNCHANGED <<arch, guarded, now, machine, granted>>

\* Only cycle and instret are encoded.
read_performance_counter_riscv64(c) ==
  /\ arch = "riscv64" /\ Reading(c)
  /\ IF req[c].arg \in {0, 2} THEN Succeed(c, req[c].arg) ELSE Fail(c)
  /\ UNCHANGED <<arch, guarded, now, machine, granted>>

\* Slip: the selection of the last call is taken for this one's.
select_once(c) ==
  /\ arch = "arm64" /\ Reading(c)
  /\ pmselr' = IF pmselr = 0 THEN req[c].arg ELSE pmselr
  /\ pc' = [pc EXCEPT ![c] = "mrs"]
  /\ UNCHANGED <<arch, guarded, now, tables, next, req, at, walk, ret, granted>>

select_counter_arm64(c) ==
  /\ arch = "arm64" /\ Reading(c)
  /\ pmselr' = req[c].arg
  /\ pc' = [pc EXCEPT ![c] = "mrs"]
  /\ UNCHANGED <<arch, guarded, now, tables, next, req, at, walk, ret, granted>>

read_selected_arm64(c) ==
  /\ pc[c] = "mrs"
  /\ Succeed(c, pmselr)
  /\ UNCHANGED <<arch, guarded, now, machine, granted>>

(***************************************************************************)
(* map_mmio_region and setup_identity_mapping.                             *)
(***************************************************************************)
map_mmio_region(c) ==
  /\ pc[c] = "verified" /\ req[c].op = "map_mmio_region"
  /\ granted' = granted \cup {req[c].arg}
  /\ IF req[c].arg.size = 0
     THEN Fail(c)
     ELSE /\ pc' = [pc EXCEPT ![c] = "walk"]
          /\ walk' = [walk EXCEPT ![c] = [NoWalk EXCEPT !.page = FirstPage(req[c].arg)]]
          /\ UNCHANGED <<req, at, ret>>
  /\ UNCHANGED <<arch, guarded, now, machine>>

Walking(c) == pc[c] = "walk" /\ walk[c].page <= LastPage(req[c].arg)

\* The walk goes on through the pointer taken from the entry e; where there is
\* no table it leaves them, and what happens then is left open.
GoDown(c, e) ==
  IF Followed(e) \in Tables
  THEN /\ walk' = [walk EXCEPT ![c].level = @ + 1, ![c].table = Followed(e)]
       /\ pc' = [pc EXCEPT ![c] = "walk"]
  ELSE /\ pc' = [pc EXCEPT ![c] = "wild"]
       /\ UNCHANGED walk

\* The entry leads to a table, or a table is needed.
Descend(c) ==
  /\ Walking(c) /\ walk[c].level < Levels - 1
  /\ IF Here(c) = Empty
     THEN pc' = [pc EXCEPT ![c] = "alloc"] /\ UNCHANGED walk
     ELSE GoDown(c, Here(c))
  /\ UNCHANGED <<arch, guarded, now, machine, req, at, ret, granted>>

\* Slip: the pool's bound is off by one.
alloc_past_the_end(c) ==
  /\ pc[c] = "alloc"
  /\ IF next > PoolSize
     THEN Fail(c)
     ELSE /\ walk' = [walk EXCEPT ![c].slot = next]
          /\ pc' = [pc EXCEPT ![c] = "link"]
          /\ UNCHANGED <<req, at, ret>>
  /\ UNCHANGED <<arch, guarded, now, machine, granted>>

\* alloc_table reads the cursor ...
alloc_table(c) ==
  /\ pc[c] = "alloc"
  /\ IF next >= PoolSize
     THEN Fail(c)
     ELSE /\ walk' = [walk EXCEPT ![c].slot = next]
          /\ pc' = [pc EXCEPT ![c] = "link"]
          /\ UNCHANGED <<req, at, ret>>
  /\ UNCHANGED <<arch, guarded, now, machine, granted>>

\* ... and writes it; map_page links the table and goes down into it.
link_table(c) ==
  /\ pc[c] = "link"
  /\ next' = walk[c].slot + 1
  /\ tables' = [tables EXCEPT ![walk[c].table][Index(walk[c].page, walk[c].level)] =
                                 TableEntry(walk[c].slot + 1)]
  /\ GoDown(c, TableEntry(walk[c].slot + 1))
  /\ UNCHANGED <<arch, guarded, now, pmselr, req, at, ret, granted>>

\* The leaf, and the next page of the loop.
map_page(c) ==
  /\ Walking(c) /\ walk[c].level = Levels - 1
  /\ tables' = [tables EXCEPT ![walk[c].table][Index(walk[c].page, walk[c].level)] =
                                 PageEntry(walk[c].page)]
  /\ walk' = [walk EXCEPT ![c] = [NoWalk EXCEPT !.page = walk[c].page + 1]]
  /\ UNCHANGED <<arch, guarded, now, pmselr, next, pc, req, at, ret, granted>>

\* Ok: the address of the first page, not of phys.
Mapped(c) ==
  /\ pc[c] = "walk" /\ walk[c].page > LastPage(req[c].arg)
  /\ Succeed(c, FirstPage(req[c].arg) * PageSize)
  /\ UNCHANGED <<arch, guarded, now, machine, granted>>

----------------------------------------------------------------------------
\* The clock runs.
Tick ==
  /\ now < MaxNow
  /\ now' = now + 1
  /\ UNCHANGED <<arch, guarded, machine, pc, req, at, walk, ret, granted>>

Step(c) ==
  \/ Begin(c) \/ Refuse(c) \/ Gate(c)
  \/ read_performance_counter_x86_64(c) \/ read_performance_counter_riscv64(c)
  \/ select_counter_arm64(c) \/ read_selected_arm64(c)
  \/ map_mmio_region(c) \/ Descend(c) \/ alloc_table(c) \/ link_table(c)
  \/ map_page(c) \/ Mapped(c)

Next ==
  \/ \E c \in Contexts : Step(c) \/ \E r \in Requests : Call(c, r)
  \/ Tick

Spec == Init /\ [][Next]_vars

----------------------------------------------------------------------------
(***************************************************************************)
(* Properties.                                                             *)
(***************************************************************************)
Pages == 0..(Power[Levels] - 1)

\* The regions of tokens lie in the address space.  map_page takes its indices
\* out of the address and looks at no other bit: it maps every address.
RegionsFit == \A r \in Regions : r.size > 0 => LastPage(r) \in Pages

\* An entry can name every page of the address space.
ASSUME FieldAssumption == Power[Levels] <= FieldPages

AllEntries == {Empty} \cup {TableEntry(t) : t \in 1..PoolSize}
                \cup {PageEntry(p) : p \in Pages}

\* Types: the pool cursor stays within the pool and every walk inside the
\* tables, whoever calls.
TypeOK ==
  /\ arch \in Archs /\ guarded \in BOOLEAN
  /\ now \in 0..MaxNow
  /\ tables \in [Tables -> [Indices -> AllEntries]]
  /\ next \in 0..PoolSize
  /\ pc \in [Contexts -> {"idle", "called", "verified", "mrs", "walk", "alloc", "link",
                         "wild"}]
  /\ req \in [Contexts -> Requests \cup {NoRequest}]
  /\ \A c \in Contexts :
       /\ walk[c].table \in Tables /\ walk[c].level \in 0..(Levels - 1)
       /\ walk[c].slot \in 0..PoolSize

Granting(c) == LET r == req[c] IN
  /\ r.token.signature = <<r.token.scope, r.token.expires_at_ns>>
  /\ r.token.expires_at_ns > at[c]
  /\ r.token.scope = CASE r.op = "map_mmio_region" -> MmioRegion(r.arg)
                       [] r.op = "read_performance_counter" -> PerformanceCounter(r.arg)
                       [] r.op = "pin_thread_to_core" -> ThreadAffinity(r.arg)
                       [] r.op = "set_numa_policy" -> NumaPolicy

\* A call that touches the hardware or returns Ok holds a token the Security
\* Broker signed, for exactly this operation and argument, that had not
\* expired when the call began, however long the call takes.  A core_id that
\* does not fit in 32 bits is not compared in full: pin_thread_to_core cuts it.
OkMeansGranted ==
  \A c \in Contexts :
    (pc[c] \notin {"idle", "called"} \/ ret[c].result = "Ok")
      /\ ~(req[c].op = "pin_thread_to_core" /\ req[c].arg >= U32)
    => at[c] <= now /\ Granting(c)

\* What a counter read returns is the value of the counter the token names.
\* On arm64 that takes a kernel that neither interrupts nor migrates the call
\* between the selection (PMSELR_EL0) and the read (PMXEVCNTR_EL0).
CounterIsTheOneGranted ==
  \A c \in Contexts :
    (guarded \/ arch # "arm64") /\ ret[c].result = "Ok"
      /\ req[c].op = "read_performance_counter"
    => /\ ret[c].value = req[c].token.scope.of
       /\ arch = "riscv64" => ret[c].value \in {0, 2}

\* The hardware's translation of a page.
Follow(e, p, l) ==
  IF e = Empty \/ Followed(e) \notin Tables THEN Empty
  ELSE tables[Followed(e)][Index(p, l)]

Translate(p) ==
  LET step[l \in 0..(Levels - 1)] ==
        IF l = 0 THEN tables[0][Index(p, 0)] ELSE Follow(step[l - 1], p, l)
  IN step[Levels - 1]

Touches(p, r) == r.size > 0 /\ p * PageSize < r.base + r.size /\ (p + 1) * PageSize > r.base

\* No page becomes accessible but those a granted region reaches into, and
\* those translate to themselves: not by rounding a region to pages, not by a
\* call that runs out of tables half way, and not through a table that hangs
\* in two places.  That takes a guarded kernel: map_mmio_region takes &self and
\* may be called at any time, while alloc_table "must only be called during
\* single-threaded early boot", and two calls that interleave in it share a
\* table.  It takes tables an entry can name as well (PoolFits).
OnlyGrantedPages ==
  guarded =>
    \A p \in Pages :
      Translate(p) # Empty =>
        Translate(p) = PageEntry(p) /\ \E r \in granted : Touches(p, r)

\* When map_mmio_region returns Ok in a guarded kernel every byte of the region
\* is accessible, and stays so; the returned address is that of the page the
\* region starts in.
MappedWhenOk ==
  \A c \in Contexts :
    guarded /\ ret[c].result = "Ok" /\ req[c].op = "map_mmio_region" =>
      /\ \A p \in Pages : Touches(p, req[c].arg) => Translate(p) = PageEntry(p)
      /\ ret[c].value <= req[c].arg.base /\ req[c].arg.base < ret[c].value + PageSize
=============================================================================
