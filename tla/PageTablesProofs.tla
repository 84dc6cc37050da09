-------------------------- MODULE PageTablesProofs --------------------------
(***************************************************************************)
(* Proofs about PageTables, for every number of entries, pool, page size,  *)
(* address space and set of regions:                                       *)
(*   - the types, and that the tables form a tree (TInv);                  *)
(*   - that Ok means mapped, and that setup_identity_mapping implements    *)
(*     AddressSpace (MInv), if the caller maps canonical addresses.        *)
(* TInv adds to the two invariants the level at which every table hangs,   *)
(* which the code never stores.  MInv adds where the walk of map_page is,  *)
(* what the loop has mapped so far, and that every page ever mapped still  *)
(* translates to itself.                                                   *)
(***************************************************************************)
EXTENDS PageTables, Arithmetic, TLAPS

(***************************************************************************)
(* Arithmetic of addresses and indices.                                    *)
(***************************************************************************)

\* The powers of ENTRIES_PER_TABLE.
E2 == Entries * Entries
E3 == Entries * Entries * Entries
E4 == Entries * Entries * Entries * Entries

LEMMA EntriesType ==
  /\ Entries \in Nat \ {0, 1} /\ Entries \in Nat \ {0}
  /\ E2 \in Nat \ {0} /\ E3 \in Nat \ {0} /\ E4 \in Nat \ {0}
<1>1. Entries \in Nat \ {0, 1}
  BY PageTablesAssumption
<1>2. E2 \in Nat \ {0}
  BY <1>1 DEF E2
<1>3. E3 \in Nat \ {0}
  <2>1. E3 = E2 * Entries
    BY DEF E2, E3
  <2> QED BY <1>1, <1>2, <2>1
<1>4. E4 \in Nat \ {0}
  <2>1. E4 = E3 * Entries
    BY DEF E3, E4
  <2> QED BY <1>1, <1>3, <2>1
<1> QED BY <1>1, <1>2, <1>3, <1>4

\* Three indices determine a page below Entries^3, four one below Entries^4.
LEMMA ThreeDigits ==
  ASSUME NEW p \in Nat, NEW q \in Nat,
         p \div E3 = q \div E3,
         (p \div E2) % Entries = (q \div E2) % Entries,
         (p \div Entries) % Entries = (q \div Entries) % Entries,
         p % Entries = q % Entries
  PROVE  p = q
<1>1. E3 = E2 * Entries /\ E2 = Entries * Entries
  BY DEF E2, E3
<1>2. p \div E2 = q \div E2
  BY <1>1, EntriesType, OneMoreDigit
<1>3. p \div Entries = q \div Entries
  BY <1>1, <1>2, EntriesType, OneMoreDigit
<1> QED BY <1>3, EntriesType, DigitsEqual

\* A page of the span is determined by its indices: map_page and the hardware
\* come to the same leaf for no two pages.
LEMMA IndexUnique ==
  ASSUME NEW p \in Nat, NEW q \in Nat, p < Span, q < Span,
         \A l \in 0..(Depth - 1) : Index(p, l) = Index(q, l)
  PROVE  p = q
<1>0. E3 = E2 * Entries /\ E4 = E3 * Entries
  BY DEF E2, E3, E4
<1>1. CASE Depth = 3
  <2>1. Span = E3
    BY <1>1, EntriesType DEF Span, Stride, E2, E3
  <2>2. /\ \A x \in Nat : Index(x, 0) = (x \div E2) % Entries
        /\ \A x \in Nat : Index(x, 1) = (x \div Entries) % Entries
        /\ \A x \in Nat : Index(x, 2) = (x \div 1) % Entries
    BY <1>1 DEF Index, Stride, E2
  <2>3. p \div E3 = 0 /\ q \div E3 = 0
    BY <2>1, EntriesType
  <2>4. p \div 1 = p /\ q \div 1 = q
    OBVIOUS
  <2>5. 0 \in 0..(Depth - 1) /\ 1 \in 0..(Depth - 1) /\ 2 \in 0..(Depth - 1)
    BY <1>1
  <2>6. /\ (p \div E2) % Entries = (q \div E2) % Entries
        /\ (p \div Entries) % Entries = (q \div Entries) % Entries
        /\ p % Entries = q % Entries
    BY <2>2, <2>4, <2>5
  <2> QED BY <2>3, <2>6, ThreeDigits
<1>2. CASE Depth = 4
  <2>1. Span = E4
    BY <1>2, EntriesType DEF Span, Stride, E4
  <2>2. /\ \A x \in Nat : Index(x, 0) = (x \div E3) % Entries
        /\ \A x \in Nat : Index(x, 1) = (x \div E2) % Entries
        /\ \A x \in Nat : Index(x, 2) = (x \div Entries) % Entries
        /\ \A x \in Nat : Index(x, 3) = (x \div 1) % Entries
    BY <1>2 DEF Index, Stride, E2, E3
  <2>3. p \div E3 < Entries /\ q \div E3 < Entries
    BY <1>0, <2>1, EntriesType, TopDigit
  <2>4. p \div 1 = p /\ q \div 1 = q
    OBVIOUS
  <2>5. /\ 0 \in 0..(Depth - 1) /\ 1 \in 0..(Depth - 1)
        /\ 2 \in 0..(Depth - 1) /\ 3 \in 0..(Depth - 1)
    BY <1>2
  <2>6. /\ (p \div E3) % Entries = (q \div E3) % Entries
        /\ (p \div E2) % Entries = (q \div E2) % Entries
        /\ (p \div Entries) % Entries = (q \div Entries) % Entries
        /\ p % Entries = q % Entries
    BY <2>2, <2>4, <2>5
  <2>7. p \div E3 \in Nat /\ q \div E3 \in Nat
    BY EntriesType, DivMod
  <2>8. p \div E3 = q \div E3
    <3>1. (p \div E3) % Entries = p \div E3
      BY <2>3, <2>7, EntriesType, ModOfSmall
    <3>2. (q \div E3) % Entries = q \div E3
      BY <2>3, <2>7, EntriesType, ModOfSmall
    <3> QED BY <2>6, <3>1, <3>2
  <2> QED BY <2>6, <2>8, ThreeDigits
<1> QED BY <1>1, <1>2 DEF Depth

----------------------------------------------------------------------------
(***************************************************************************)
(* Rounding to pages.                                                      *)
(***************************************************************************)
LEMMA PageSizeType == PageSize \in Nat \ {0} /\ AddrMod \in Nat \ {0} /\ PoolSize \in Nat
BY PageTablesAssumption

LEMMA AlignDown ==
  ASSUME NEW a \in Nat
  PROVE  /\ Page(a) \in Nat /\ align_down(a) \in Nat
         /\ align_down(a) = Page(a) * PageSize
         /\ align_down(a) <= a /\ a < align_down(a) + PageSize
<1>1. /\ a \div PageSize \in Nat /\ a % PageSize \in 0..(PageSize - 1)
      /\ a = (a \div PageSize) * PageSize + (a % PageSize)
  BY PageSizeType, DivMod
<1>2. (a \div PageSize) * PageSize \in Nat
  BY <1>1, PageSizeType, Product
<1> QED BY <1>1, <1>2, PageSizeType DEF Page, align_down

\* The page of the first address of a page.
LEMMA PageOfMultiple ==
  ASSUME NEW q \in Nat
  PROVE  q * PageSize \in Nat /\ Page(q * PageSize) = q
<1>1. q * PageSize \in Nat
  BY PageSizeType, Product
<1>2. (q * PageSize + 0) \div PageSize = q
  BY PageSizeType, QuotientUnique
<1> QED BY <1>1, <1>2 DEF Page

\* Multiples of PAGE_SIZE are ordered as the pages are.
LEMMA PageOrder ==
  ASSUME NEW p \in Nat, NEW q \in Nat
  PROVE  /\ p < q <=> p * PageSize < q * PageSize
         /\ p < q => p * PageSize + PageSize <= q * PageSize
<1>1. p * PageSize \in Nat /\ q * PageSize \in Nat
  BY PageSizeType, Product
<1>2. ASSUME p < q PROVE p * PageSize + PageSize <= q * PageSize
  <2>1. (p + 1) * PageSize <= q * PageSize
    BY <1>2, PageSizeType, Monotone
  <2>2. (p + 1) * PageSize = p * PageSize + PageSize
    BY PageSizeType
  <2> QED BY <2>1, <2>2
<1>3. ASSUME q <= p PROVE q * PageSize <= p * PageSize
  BY <1>3, PageSizeType, Monotone
<1> QED BY <1>1, <1>2, <1>3, PageSizeType

LEMMA PageMonotone ==
  ASSUME NEW a \in Nat, NEW b \in Nat, a <= b
  PROVE  Page(a) <= Page(b)
<1>1. /\ Page(a) \in Nat /\ Page(b) \in Nat
      /\ Page(a) * PageSize <= a /\ b < Page(b) * PageSize + PageSize
  BY AlignDown
<1>2. Page(b) < Page(a) => Page(b) * PageSize + PageSize <= Page(a) * PageSize
  BY <1>1, PageOrder
<1>3. Page(a) * PageSize \in Nat /\ Page(b) * PageSize \in Nat
  BY <1>1, PageSizeType, Product
<1> QED BY <1>1, <1>2, <1>3, PageSizeType

Aligned(a) == a = Page(a) * PageSize

LEMMA AlignedDown ==
  ASSUME NEW a \in Nat
  PROVE  Aligned(align_down(a))
BY AlignDown, PageOfMultiple DEF Aligned

\* The next page of an aligned address, and what lies between two of them.
LEMMA NextPage ==
  ASSUME NEW a \in Nat, Aligned(a)
  PROVE  Aligned(a + PageSize) /\ Page(a + PageSize) = Page(a) + 1
<1>1. Page(a) \in Nat
  BY AlignDown
<1>2. (Page(a) + 1) * PageSize = Page(a) * PageSize + PageSize
  BY <1>1, PageSizeType
<1>3. a + PageSize = (Page(a) + 1) * PageSize
  BY <1>2 DEF Aligned
<1>4. Page((Page(a) + 1) * PageSize) = Page(a) + 1
  BY <1>1, PageOfMultiple
<1> QED BY <1>3, <1>4 DEF Aligned

LEMMA AlignedStep ==
  ASSUME NEW a \in Nat, NEW b \in Nat, Aligned(a), Aligned(b), a < b
  PROVE  a + PageSize <= b /\ Page(a) < Page(b)
<1>1. Page(a) \in Nat /\ Page(b) \in Nat
  BY AlignDown
<1>2. Page(a) < Page(b)
  BY <1>1, PageOrder DEF Aligned
<1> QED BY <1>1, <1>2, PageOrder DEF Aligned

----------------------------------------------------------------------------
(***************************************************************************)
(* Type correctness and the shape of the tables.  Both rest on what the    *)
(* code never stores: at which level a table hangs.                        *)
(***************************************************************************)

\* lv gives every table its level: entries above the last level lead one level
\* down, pages are entered at the last level only, and the walk of map_page is
\* at the level it believes to be.
Levelled(lv) ==
  /\ lv \in [Tables -> 0..(Depth - 1)]
  /\ lv[Root] = 0
  /\ \A t \in Tables, i \in Indices :
       \/ tables[t][i] = Empty
       \/ \E k \in 1..next : tables[t][i] = TableEntry(k) /\ lv[k] = lv[t] + 1
       \/ tables[t][i].kind = "page" /\ lv[t] = Depth - 1
  /\ lv[table_ptr] = level /\ table_ptr <= next

\* The loop of setup_identity_mapping moves from page to page.
LoopAligned ==
  /\ addr \in Nat /\ end \in Nat
  /\ Aligned(addr) /\ Aligned(end) /\ end < AddrMod

TInv == TypeOK /\ TreeShape /\ LoopAligned /\ WalkStaysInTables /\ \E lv : Levelled(lv)

LEMMA Kinds ==
  /\ Empty.kind = "empty"
  /\ \A t : TableEntry(t).kind = "table" /\ TableEntry(t).addr = PoolBase + t
  /\ \A t \in Int : TableEntry(t).addr - PoolBase = t
  /\ \A p, f : /\ PageEntry(p, f).kind = "page"
               /\ PageEntry(p, f).addr = p % FieldPages /\ PageEntry(p, f).flags = f
<1>1. PoolBase \in Int
  BY PageTablesAssumption
<1> QED BY <1>1 DEF Empty, TableEntry, PageEntry

\* A pointer that fits the address field is recovered from it.
LEMMA FollowedTable ==
  ASSUME PoolFits, NEW k \in Tables
  PROVE  Followed(TableEntry(k)) = k
<1>1. /\ PoolBase \in Nat /\ FieldPages \in Nat \ {0} /\ k \in Nat
      /\ PoolBase + k < FieldPages
  BY PageTablesAssumption, PageSizeType DEF PoolFits, Tables
<1>2. (PoolBase + k) % FieldPages = PoolBase + k
  BY <1>1, ModOfSmall
<1>3. TableEntry(k).addr = PoolBase + k
  BY Kinds
<1>4. (TableEntry(k).addr % FieldPages) - PoolBase = (PoolBase + k) - PoolBase
  BY <1>2, <1>3
<1> QED BY <1>1, <1>4 DEF Followed

LEMMA DepthType == Depth \in {3, 4}
BY DEF Depth

LEMMA IndexType ==
  ASSUME NEW p \in Nat, NEW l \in 0..(Depth - 1)
  PROVE  Index(p, l) \in Indices
<1>1. Stride(l) \in Nat \ {0}
  <2>1. Stride(l) \in {1, Entries, E2, E3}
    <3>1. Depth = 3 => l \in {0, 1, 2}
      OBVIOUS
    <3>2. Depth = 4 => l \in {0, 1, 2, 3}
      OBVIOUS
    <3>3. Depth = 3 => Stride(l) \in {1, Entries, E2, E3}
      BY <3>1 DEF Stride, E2
    <3>4. Depth = 4 => Stride(l) \in {1, Entries, E2, E3}
      BY <3>2 DEF Stride, E2, E3
    <3> QED BY <3>3, <3>4, DepthType
  <2> QED BY <2>1, EntriesType
<1>2. p \div Stride(l) \in Nat
  BY <1>1, DivMod
<1>3. (p \div Stride(l)) % Entries \in 0..(Entries - 1)
  BY <1>2, EntriesType, DivMod
<1> QED BY <1>3 DEF Index, Indices

\* What one store of map_page changes.
LEMMA Written ==
  ASSUME TypeOK, NEW tp \in Tables, NEW ix \in Indices, NEW e,
         tables' = [tables EXCEPT ![tp][ix] = e]
  PROVE  /\ DOMAIN tables' = Tables
         /\ \A t \in Tables : DOMAIN tables'[t] = Indices
         /\ \A t \in Tables, i \in Indices :
              tables'[t][i] = IF t = tp /\ i = ix THEN e ELSE tables[t][i]
<1>1. DOMAIN tables = Tables /\ \A t \in Tables : DOMAIN tables[t] = Indices
  BY DEF TypeOK
<1> QED BY <1>1

LEMMA InitTInv == Init => TInv
<1> SUFFICES ASSUME Init PROVE TInv
  OBVIOUS
<1>1. \A t \in Tables, i \in Indices : tables[t][i] = Empty
  BY DEF Init
<1>2. Root \in Tables
  BY PageSizeType DEF Root, Tables
<1>3. Depth - 1 \in Nat /\ 0 \in 0..(Depth - 1)
  BY DepthType
<1>4. TypeOK
  BY <1>1, <1>2, <1>3, PageSizeType DEF Init, TypeOK
<1>5. TreeShape
  <2>1. \A t \in Tables, i \in Indices : ~IsTable(t, i)
    BY <1>1, Kinds DEF IsTable
  <2> QED BY <1>1, <2>1 DEF TreeShape, Init
<1>6. LoopAligned
  <2>1. Aligned(0)
    <3>1. 0 * PageSize = 0
      BY PageSizeType
    <3> QED BY <3>1, PageOfMultiple DEF Aligned
  <2> QED BY <2>1, PageSizeType DEF LoopAligned, Init
<1>7. Levelled([t \in Tables |-> 0])
  BY <1>1, <1>2, <1>3 DEF Levelled, Init, Root
<1>8. WalkStaysInTables
  BY DEF Init, WalkStaysInTables
<1> QED BY <1>4, <1>5, <1>6, <1>7, <1>8 DEF TInv

\* A step that stores nothing in the tables keeps their shape; where the walk
\* goes is to be shown by the step.
LEMMA Unwritten ==
  ASSUME TInv, UNCHANGED <<arch, tables, next>>, LoopAligned',
         addr' \in 0..AddrMod, outcome' \in {"none", "running", "Ok", "Err"},
         NEW lv, Levelled(lv), table_ptr' \in 0..next, lv[table_ptr'] = level'
  PROVE  TInv'
<1>1. Depth' = Depth
  BY DEF Depth
<1>2. TypeOK'
  <2>1. table_ptr' \in Tables /\ level' \in 0..(Depth - 1)
    BY PageSizeType DEF TInv, TypeOK, Tables, Levelled
  <2>2. end' \in 0..AddrMod
    BY PageSizeType DEF LoopAligned
  <2> QED BY <1>1, <2>1, <2>2 DEF TInv, TypeOK
<1>3. TreeShape'
  BY DEF TInv, TreeShape, IsTable, Child
<1>4. Levelled(lv)'
  BY <1>1, PageSizeType DEF Levelled, TInv, TypeOK
<1>5. WalkStaysInTables'
  BY DEF WalkStaysInTables
<1> QED BY <1>2, <1>3, <1>4, <1>5 DEF TInv

LEMMA SetupTInv ==
  ASSUME TInv, NEW region \in Regions, NEW perms \in Presets,
         setup_identity_mapping(region, perms)
  PROVE  TInv'
<1>1. PICK lv : Levelled(lv)
  BY DEF TInv
<1>2. UNCHANGED <<arch, tables, next, level, table_ptr>>
  BY DEF setup_identity_mapping, walk
<1>3. table_ptr \in 0..next /\ lv[table_ptr] = level
  BY <1>1, PageSizeType DEF Levelled, TInv, TypeOK, Tables
<1>4. LoopAligned' /\ addr' \in 0..AddrMod
  <2>1. CASE region.length_bytes = 0
    BY <2>1 DEF setup_identity_mapping, TInv, LoopAligned, Aligned, Page, TypeOK
  <2>2. CASE region.length_bytes # 0
    <3> DEFINE last == (region.base_addr + region.length_bytes) % AddrMod
               above == (last + PageSize - 1) % AddrMod
    <3>1. region.base_addr \in 0..(AddrMod - 1) /\ region.length_bytes \in 0..(AddrMod - 1)
      BY PageTablesAssumption
    <3>2. last \in 0..(AddrMod - 1)
      <4>1. region.base_addr + region.length_bytes \in Nat
        BY <3>1, PageSizeType
      <4> QED BY <4>1, PageSizeType, DivMod
    <3> HIDE DEF last
    <3>3. last + PageSize - 1 \in Nat
      BY <3>2, PageSizeType
    <3>4. above \in 0..(AddrMod - 1)
      BY <3>3, PageSizeType, DivMod
    <3> HIDE DEF above
    <3>5. addr' = align_down(region.base_addr) /\ end' = align_down(above)
      BY <2>2 DEF setup_identity_mapping, align_up, above, last
    <3>6. region.base_addr \in Nat /\ above \in Nat
      BY <3>1, <3>4, PageSizeType
    <3>7. /\ addr' \in Nat /\ addr' <= region.base_addr /\ Aligned(addr')
          /\ end' \in Nat /\ end' <= above /\ Aligned(end')
      BY <3>5, <3>6, AlignDown, AlignedDown
    <3>8. Aligned(addr)' /\ Aligned(end)'
      BY <3>7 DEF Aligned, Page
    <3>9. addr' \in 0..AddrMod /\ end' < AddrMod
      BY <3>1, <3>4, <3>7, PageSizeType
    <3> QED BY <3>7, <3>8, <3>9 DEF LoopAligned
  <2> QED BY <2>1, <2>2
<1>5. outcome' \in {"none", "running", "Ok", "Err"}
  BY DEF setup_identity_mapping
<1> QED BY <1>1, <1>2, <1>3, <1>4, <1>5, Unwritten

\* The entry the walk looks at is one of the tables'.
LEMMA WalkPlace ==
  ASSUME TInv
  PROVE  Page(addr) \in Nat /\ Index(Page(addr), level) \in Indices /\ table_ptr \in Tables
<1>1. Page(addr) \in Nat
  BY AlignDown DEF TInv, LoopAligned
<1> QED BY <1>1, IndexType DEF TInv, TypeOK

LEMMA DescendTInv == ASSUME PoolFits, TInv, Descend PROVE TInv'
<1>1. PICK lv : Levelled(lv)
  BY DEF TInv
<1> DEFINE ix == Index(Page(addr), level)
<1>2. ix \in Indices /\ table_ptr \in Tables
  BY WalkPlace
<1>3. /\ level < Depth - 1 /\ tables[table_ptr][ix] # Empty /\ GoDown(tables[table_ptr][ix])
      /\ UNCHANGED <<arch, tables, next, addr, end>>
  BY DEF Descend, Entry
<1>4. lv[table_ptr] = level
  BY <1>1 DEF Levelled
<1> HIDE DEF ix
<1>5. PICK k \in 1..next : tables[table_ptr][ix] = TableEntry(k) /\ lv[k] = level + 1
  <2>1. level \in Int /\ Depth \in Int
    BY DepthType DEF TInv, TypeOK
  <2> QED BY <1>1, <1>2, <1>3, <1>4, <2>1 DEF Levelled
<1>6. table_ptr' = k /\ level' = level + 1 /\ outcome' = outcome
  <2>1. k \in Tables
    BY PageSizeType DEF TInv, TypeOK, Tables
  <2>2. Followed(TableEntry(k)) = k
    BY <2>1, FollowedTable
  <2> QED BY <1>3, <1>5, <2>1, <2>2 DEF GoDown
<1>7. LoopAligned' /\ addr' \in 0..AddrMod /\ outcome' \in {"none", "running", "Ok", "Err"}
  BY <1>3, <1>6 DEF TInv, TypeOK, WalkStaysInTables, LoopAligned, Aligned, Page
<1>8. k \in 0..next
  BY DEF TInv, TypeOK
<1> QED BY <1>1, <1>3, <1>5, <1>6, <1>7, <1>8, Unwritten

\* Where map_page goes from a new table's entry.
LEMMA GoDownNew ==
  ASSUME PoolFits, NEW k \in Tables, GoDown(TableEntry(k))
  PROVE  table_ptr' = k /\ level' = level + 1 /\ outcome' = outcome
BY FollowedTable DEF GoDown

LEMMA AllocTInv == ASSUME PoolFits, TInv, alloc_table PROVE TInv'
<1>1. PICK lv : Levelled(lv)
  BY DEF TInv
<1> DEFINE ix == Index(Page(addr), level)
           new == next + 1
<1>0. PICK lw : lw = [lv EXCEPT ![new] = level + 1]
  OBVIOUS
<1>2. ix \in Indices /\ table_ptr \in Tables
  BY WalkPlace
<1>3. /\ level < Depth - 1 /\ tables[table_ptr][ix] = Empty /\ next < PoolSize
      /\ next' = new /\ table_ptr' = new /\ level' = level + 1
      /\ tables' = [tables EXCEPT ![table_ptr][ix] = TableEntry(new)]
      /\ UNCHANGED <<arch, addr, end, outcome>>
  <2>1. new \in Tables
    BY PageSizeType DEF alloc_table, TInv, TypeOK, Tables
  <2> QED BY <2>1, GoDownNew DEF alloc_table, Entry
<1> HIDE DEF ix
<1>4. next \in 0..PoolSize /\ level \in 0..(Depth - 1) /\ Depth' = Depth
  BY <1>3 DEF TInv, TypeOK, Depth
<1>5. new \in Tables /\ new \in 1..PoolSize /\ next \in Nat /\ table_ptr # new
  BY <1>1, <1>2, <1>3, <1>4, PageSizeType DEF Tables, Levelled
<1>6. /\ DOMAIN tables' = Tables
      /\ \A t \in Tables : DOMAIN tables'[t] = Indices
      /\ \A t \in Tables, i \in Indices :
           tables'[t][i] = IF t = table_ptr /\ i = ix THEN TableEntry(new) ELSE tables[t][i]
  BY <1>2, <1>3, Written DEF TInv
<1>7. TypeOK'
  <2>1. \A t \in Tables, i \in Indices :
          \/ tables'[t][i] = Empty
          \/ tables'[t][i] \in TableEntries
          \/ tables'[t][i].kind = "page" /\ tables'[t][i].addr \in 0..(FieldPages - 1)
    BY <1>5, <1>6 DEF TInv, TypeOK, TableEntries
  <2>2. next' \in 0..PoolSize /\ table_ptr' \in Tables /\ level' \in 0..(Depth' - 1)
    BY <1>3, <1>4, <1>5, DepthType
  <2> QED BY <1>3, <1>6, <2>1, <2>2 DEF TInv, TypeOK
<1>8. TreeShape'
  <2> USE Kinds DEF IsTable, Child
  <2>1. \A t \in Tables, i \in Indices : IsTable(t, i) => Child(t, i) \in 1..next
    BY DEF TInv, TreeShape
  <2>2. \A t \in Tables, i \in Indices :
          (IsTable(t, i))' => /\ (t = table_ptr /\ i = ix) => Child(t, i)' = new
                              /\ ~(t = table_ptr /\ i = ix) => IsTable(t, i) /\ Child(t, i)' = Child(t, i)
    BY <1>5, <1>6
  <2>3. \A t \in Tables, i \in Indices : (IsTable(t, i))' => Child(t, i)' \in 1..new
    BY <1>5, <2>1, <2>2
  <2>4. \A t, u \in Tables, i, j \in Indices :
          (IsTable(t, i))' /\ (IsTable(u, j))' /\ Child(t, i)' = Child(u, j)' => t = u /\ i = j
    <3> SUFFICES ASSUME NEW t \in Tables, NEW u \in Tables, NEW i \in Indices, NEW j \in Indices,
                        (IsTable(t, i))', (IsTable(u, j))', Child(t, i)' = Child(u, j)'
                 PROVE  t = u /\ i = j
      OBVIOUS
    <3>1. CASE (t = table_ptr /\ i = ix) \/ (u = table_ptr /\ j = ix)
      BY <1>5, <2>1, <2>2, <3>1
    <3>2. CASE ~(t = table_ptr /\ i = ix) /\ ~(u = table_ptr /\ j = ix)
      BY <2>2, <3>2 DEF TInv, TreeShape
    <3> QED BY <3>1, <3>2
  <2>5. \A k \in 1..new : \E t \in Tables, i \in Indices : tables'[t][i] = TableEntry(k)
    <3> SUFFICES ASSUME NEW k \in 1..new
                 PROVE  \E t \in Tables, i \in Indices : tables'[t][i] = TableEntry(k)
      OBVIOUS
    <3>1. CASE k = new
      BY <1>2, <1>6, <3>1
    <3>2. CASE k # new
      <4>1. k \in 1..next
        BY <1>5, <3>2
      <4>2. PICK t \in Tables, i \in Indices : tables[t][i] = TableEntry(k)
        BY <4>1 DEF TInv, TreeShape
      <4>3. ~(t = table_ptr /\ i = ix)
        BY <1>3, <4>2
      <4> QED BY <1>6, <4>2, <4>3
    <3> QED BY <3>1, <3>2
  <2>6. \A t \in Tables : t > new => \A i \in Indices : tables'[t][i] = Empty
    <3> SUFFICES ASSUME NEW t \in Tables, t > new, NEW i \in Indices
                 PROVE  tables'[t][i] = Empty
      OBVIOUS
    <3>1. t > next /\ t # table_ptr
      BY <1>1, <1>5 DEF Levelled, Tables
    <3> QED BY <1>6, <3>1 DEF TInv, TreeShape
  <2> QED BY <1>3, <2>3, <2>4, <2>5, <2>6 DEF TreeShape
<1>9. LoopAligned'
  BY <1>3 DEF TInv, LoopAligned, Aligned, Page
<1>10. Levelled(lw)'
  <2>1. lv \in [Tables -> 0..(Depth - 1)] /\ lv[Root] = 0 /\ lv[table_ptr] = level
    BY <1>1 DEF Levelled
  <2>2. level + 1 \in 0..(Depth - 1) /\ new # Root
    BY <1>3, <1>4, <1>5, DepthType DEF Root
  <2>3. /\ lw \in [Tables -> 0..(Depth - 1)] /\ lw[new] = level + 1
        /\ \A t \in Tables : t # new => lw[t] = lv[t]
    BY <1>0, <1>5, <2>1, <2>2
  <2>4. \A t \in Tables, i \in Indices :
          \/ tables'[t][i] = Empty
          \/ \E k \in 1..new : tables'[t][i] = TableEntry(k) /\ lw[k] = lw[t] + 1
          \/ tables'[t][i].kind = "page" /\ lw[t] = Depth - 1
    <3> SUFFICES ASSUME NEW t \in Tables, NEW i \in Indices, tables'[t][i] # Empty
                 PROVE  \/ \E k \in 1..new : tables'[t][i] = TableEntry(k) /\ lw[k] = lw[t] + 1
                        \/ tables'[t][i].kind = "page" /\ lw[t] = Depth - 1
      OBVIOUS
    <3>1. CASE t = table_ptr /\ i = ix
      <4>1. tables'[t][i] = TableEntry(new) /\ lw[t] = level
        BY <1>5, <1>6, <2>1, <2>3, <3>1
      <4>2. new \in 1..new
        BY <1>5
      <4> QED BY <2>3, <4>1, <4>2
    <3>2. CASE ~(t = table_ptr /\ i = ix)
      <4>1. tables'[t][i] = tables[t][i]
        BY <1>6, <3>2
      <4>2. t # new
        <5>1. \A j \in Indices : new > next => tables[new][j] = Empty
          BY <1>5 DEF TInv, TreeShape
        <5> QED BY <1>5, <4>1, <5>1
      <4>3. lw[t] = lv[t]
        BY <2>3, <4>2
      <4>4. \/ \E k \in 1..next : tables[t][i] = TableEntry(k) /\ lv[k] = lv[t] + 1
            \/ tables[t][i].kind = "page" /\ lv[t] = Depth - 1
        BY <1>1, <4>1 DEF Levelled
      <4>5. \A k \in 1..next : k \in 1..new /\ lw[k] = lv[k]
        <5> SUFFICES ASSUME NEW k \in 1..next PROVE k \in 1..new /\ lw[k] = lv[k]
          OBVIOUS
        <5>1. k \in Tables
          BY <1>4, PageSizeType DEF Tables
        <5>2. k # new /\ k \in 1..new
          BY <1>4, PageSizeType
        <5> QED BY <2>3, <5>1, <5>2
      <4> QED BY <4>1, <4>3, <4>4, <4>5
    <3> QED BY <3>1, <3>2
  <2>5. lw[Root] = 0 /\ lw[table_ptr'] = level' /\ table_ptr' <= next'
    <3>1. Root \in Tables
      BY PageSizeType DEF Root, Tables
    <3> QED BY <1>3, <1>5, <2>1, <2>2, <2>3, <3>1
  <2> QED BY <1>3, <1>4, <2>3, <2>4, <2>5 DEF Levelled
<1>11. WalkStaysInTables'
  BY <1>3 DEF TInv, WalkStaysInTables
<1> QED BY <1>7, <1>8, <1>9, <1>10, <1>11 DEF TInv

LEMMA ExhaustedTInv == ASSUME TInv, PoolExhausted PROVE TInv'
<1>1. PICK lv : Levelled(lv)
  BY DEF TInv
<1>2. /\ UNCHANGED <<arch, tables, next, end>> /\ addr' = end
      /\ level' = 0 /\ table_ptr' = Root /\ outcome' = "Err"
  BY DEF PoolExhausted
<1>3. LoopAligned' /\ addr' \in 0..AddrMod
  BY <1>2, PageSizeType DEF TInv, TypeOK, LoopAligned, Aligned, Page
<1>4. Root \in 0..next /\ lv[Root] = 0
  BY <1>1 DEF Levelled, TInv, TypeOK, Root
<1> QED BY <1>1, <1>2, <1>3, <1>4, Unwritten

\* The address of the page being mapped is below the end of the space.
LEMMA WalkedPage ==
  ASSUME TInv, Walking
  PROVE  /\ Page(addr) \in 0..Page(AddrMod - 1)
         /\ addr + PageSize <= end /\ Aligned(addr + PageSize)
         /\ Page(addr + PageSize) = Page(addr) + 1
<1>1. /\ addr \in Nat /\ end \in Nat /\ end < AddrMod /\ addr < end
      /\ Aligned(addr) /\ Aligned(end)
  BY DEF TInv, LoopAligned, Walking
<1>2. Page(addr) \in Nat /\ Page(AddrMod - 1) \in Nat
  <2>1. AddrMod - 1 \in Nat
    BY PageSizeType
  <2> QED BY <1>1, <2>1, AlignDown
<1>3. Page(addr) <= Page(AddrMod - 1)
  <2>1. addr <= AddrMod - 1 /\ AddrMod - 1 \in Nat
    BY <1>1, PageSizeType
  <2> QED BY <1>1, <2>1, PageMonotone
<1> QED BY <1>1, <1>2, <1>3, AlignedStep, NextPage

LEMMA MapPageTInv == ASSUME TInv, map_page PROVE TInv'
<1>1. PICK lv : Levelled(lv)
  BY DEF TInv
<1>2. PICK ix \in Indices : ix = Index(Page(addr), level)
  BY WalkPlace
<1>3. PICK e : e = PageEntry(Page(addr), flags)
  OBVIOUS
<1>4. /\ level = Depth - 1 /\ addr' = addr + PageSize /\ level' = 0 /\ table_ptr' = Root
      /\ tables' = [tables EXCEPT ![table_ptr][ix] = e]
      /\ UNCHANGED <<arch, next, end, outcome>>
  BY <1>2, <1>3 DEF map_page
<1>5. table_ptr \in Tables /\ table_ptr <= next /\ lv[table_ptr] = Depth - 1
  BY <1>1, <1>4 DEF TInv, TypeOK, Levelled
<1>6. /\ DOMAIN tables' = Tables
      /\ \A t \in Tables : DOMAIN tables'[t] = Indices
      /\ \A t \in Tables, i \in Indices :
           tables'[t][i] = IF t = table_ptr /\ i = ix THEN e ELSE tables[t][i]
  BY <1>4, <1>5, Written DEF TInv
<1>7. e.kind = "page" /\ e.addr \in 0..(FieldPages - 1)
  <2>1. Page(addr) \in Nat /\ FieldPages \in Nat \ {0}
    BY PageTablesAssumption, WalkedPage DEF map_page
  <2>2. Page(addr) % FieldPages \in 0..(FieldPages - 1)
    BY <2>1, DivMod
  <2> QED BY <1>3, <2>2, Kinds
<1>8. tables[table_ptr][ix].kind # "table"
  <2>1. \A k \in 1..next : lv[k] \in 0..(Depth - 1)
    <3>1. \A k \in 1..next : k \in Tables
      BY PageSizeType DEF TInv, TypeOK, Tables
    <3> QED BY <1>1, <3>1 DEF Levelled
  <2>2. lv[table_ptr] + 1 \notin 0..(Depth - 1)
    BY <1>5, DepthType
  <2> QED BY <1>1, <1>5, <2>1, <2>2, Kinds DEF Levelled
<1>9. Depth' = Depth
  BY <1>4 DEF Depth
<1>10. LoopAligned' /\ addr' \in 0..AddrMod
  <2>1. addr' \in Nat /\ addr' <= end /\ Aligned(addr)'
    BY <1>4, WalkedPage, PageSizeType DEF map_page, TInv, LoopAligned, Aligned, Page
  <2> QED BY <1>4, <2>1, PageSizeType DEF TInv, LoopAligned, Aligned, Page
<1>11. TypeOK'
  <2>1. \A t \in Tables, i \in Indices :
          \/ tables'[t][i] = Empty
          \/ tables'[t][i] \in TableEntries
          \/ tables'[t][i].kind = "page" /\ tables'[t][i].addr \in 0..(FieldPages - 1)
    BY <1>6, <1>7 DEF TInv, TypeOK
  <2>2. table_ptr' \in Tables /\ level' \in 0..(Depth' - 1)
    BY <1>4, <1>9, DepthType, PageSizeType DEF Root, Tables
  <2> QED BY <1>4, <1>6, <1>10, <2>1, <2>2 DEF TInv, TypeOK
<1>12. TreeShape'
  <2> USE DEF IsTable, Child
  <2>1. \A t \in Tables, i \in Indices :
          /\ (IsTable(t, i))' <=> IsTable(t, i)
          /\ IsTable(t, i) => Child(t, i)' = Child(t, i)
    BY <1>6, <1>7, <1>8
  <2>2. \A t \in Tables, i \in Indices : (IsTable(t, i))' => Child(t, i)' \in 1..next
    BY <2>1 DEF TInv, TreeShape
  <2>3. \A t, u \in Tables, i, j \in Indices :
          (IsTable(t, i))' /\ (IsTable(u, j))' /\ Child(t, i)' = Child(u, j)' => t = u /\ i = j
    BY <2>1 DEF TInv, TreeShape
  <2>4. \A k \in 1..next : \E t \in Tables, i \in Indices : tables'[t][i] = TableEntry(k)
    <3> SUFFICES ASSUME NEW k \in 1..next
                 PROVE  \E t \in Tables, i \in Indices : tables'[t][i] = TableEntry(k)
      OBVIOUS
    <3>1. PICK t \in Tables, i \in Indices : tables[t][i] = TableEntry(k)
      BY DEF TInv, TreeShape
    <3>2. ~(t = table_ptr /\ i = ix)
      BY <1>8, <3>1, Kinds
    <3> QED BY <1>6, <3>1, <3>2
  <2>5. \A t \in Tables : t > next => \A i \in Indices : tables'[t][i] = Empty
    <3> SUFFICES ASSUME NEW t \in Tables, t > next, NEW i \in Indices
                 PROVE  tables'[t][i] = Empty
      OBVIOUS
    <3>1. t # table_ptr
      BY <1>5 DEF Tables, TInv, TypeOK
    <3> QED BY <1>6, <3>1 DEF TInv, TreeShape
  <2> QED BY <1>4, <2>2, <2>3, <2>4, <2>5 DEF TreeShape
<1>13. Levelled(lv)'
  <2>1. \A t \in Tables, i \in Indices :
          \/ tables'[t][i] = Empty
          \/ \E k \in 1..next : tables'[t][i] = TableEntry(k) /\ lv[k] = lv[t] + 1
          \/ tables'[t][i].kind = "page" /\ lv[t] = Depth - 1
    BY <1>1, <1>5, <1>6, <1>7 DEF Levelled
  <2>2. lv[Root] = 0 /\ Root <= next
    BY <1>1 DEF Levelled, Root, TInv, TypeOK
  <2> QED BY <1>1, <1>4, <1>9, <2>1, <2>2 DEF Levelled
<1>14. WalkStaysInTables'
  BY <1>4 DEF TInv, WalkStaysInTables
<1> QED BY <1>10, <1>11, <1>12, <1>13, <1>14 DEF TInv

LEMMA ReturnTInv == ASSUME TInv, Return PROVE TInv'
<1>1. PICK lv : Levelled(lv)
  BY DEF TInv
<1>2. UNCHANGED <<arch, tables, next, addr, end, level, table_ptr>> /\ outcome' = "Ok"
  BY DEF Return, walk
<1>3. LoopAligned' /\ addr' \in 0..AddrMod
  BY <1>2 DEF TInv, TypeOK, LoopAligned, Aligned, Page
<1>4. table_ptr \in 0..next /\ lv[table_ptr] = level
  BY <1>1, PageSizeType DEF Levelled, TInv, TypeOK, Tables
<1> QED BY <1>1, <1>2, <1>3, <1>4, Unwritten

LEMMA NextTInv == ASSUME PoolFits PROVE TInv /\ [Next]_vars => TInv'
<1> SUFFICES ASSUME TInv, [Next]_vars PROVE TInv'
  OBVIOUS
<1>1. CASE UNCHANGED vars
  BY <1>1 DEF vars, walk, TInv, TypeOK, TreeShape, LoopAligned, Levelled, Aligned, Page,
              WalkStaysInTables, IsTable, Child, Depth
<1> QED BY <1>1, SetupTInv, DescendTInv, AllocTInv, ExhaustedTInv, MapPageTInv, ReturnTInv
        DEF Next

LEMMA TInvAlways == ASSUME PoolFits PROVE Spec => []TInv
BY InitTInv, NextTInv, PTL DEF Spec

\* Every table holds entries, the pool's cursor stays in the pool and the walk
\* of map_page inside the tables, for every pool, region and address space.
THEOREM TypeCorrect == ASSUME PoolFits PROVE Spec => []TypeOK
<1>1. TInv => TypeOK
  BY DEF TInv
<1> QED BY <1>1, TInvAlways, PTL

\* map_page reads and writes its own tables and nothing else, for every sequence
\* of calls: the pointer alloc_table stored in an entry is the one recovered
\* from it.  It needs PoolFits: a pool linked above what the address field can
\* name breaks it (run page_tables_linked).
THEOREM WalkInTables == ASSUME PoolFits PROVE Spec => []WalkStaysInTables
<1>1. TInv => WalkStaysInTables
  BY DEF TInv
<1> QED BY <1>1, TInvAlways, PTL

\* The tables always form a tree (alloc_table and map_page), for every number
\* of entries, every pool and every sequence of calls, whether or not a call
\* runs out of tables half way.
THEOREM TablesFormTree == ASSUME PoolFits PROVE Spec => []TreeShape
<1>1. TInv => TreeShape
  BY DEF TInv
<1> QED BY <1>1, TInvAlways, PTL

----------------------------------------------------------------------------
(***************************************************************************)
(* The walk of the hardware, level by level: which table the indices of a  *)
(* page lead to.                                                           *)
(***************************************************************************)
Reaches1(v, t) == t \in Tables /\ tables[Root][Index(v, 0)] = TableEntry(t)
Reaches2(v, t) ==
  t \in Tables /\ \E u \in Tables : Reaches1(v, u) /\ tables[u][Index(v, 1)] = TableEntry(t)
Reaches3(v, t) ==
  t \in Tables /\ \E u \in Tables : Reaches2(v, u) /\ tables[u][Index(v, 2)] = TableEntry(t)

Reaches(v, t, l) ==
  \/ l = 0 /\ t = Root
  \/ l = 1 /\ Reaches1(v, t)
  \/ l = 2 /\ Reaches2(v, t)
  \/ l = 3 /\ Reaches3(v, t)

LEMMA IndexTypes ==
  ASSUME NEW v \in Nat
  PROVE  /\ Index(v, 0) \in Indices /\ Index(v, 1) \in Indices /\ Index(v, 2) \in Indices
         /\ Depth = 4 => Index(v, 3) \in Indices
BY DepthType, IndexType

LEMMA RootType == Root \in Tables
BY PageSizeType DEF Root, Tables

\* Different tables are different entries.
LEMMA TableEntryInjective ==
  ASSUME NEW t \in Tables, NEW u \in Tables, TableEntry(t) = TableEntry(u)
  PROVE  t = u
BY Kinds, PageSizeType DEF Tables

\* A page's indices lead to at most one table at each level.
LEMMA ReachesOne ==
  ASSUME NEW v \in Nat, NEW l, NEW t, NEW u, Reaches(v, t, l), Reaches(v, u, l)
  PROVE  t = u
<1>1. \A x, y : Reaches1(v, x) /\ Reaches1(v, y) => x = y
  BY TableEntryInjective DEF Reaches1
<1>2. \A x, y : Reaches2(v, x) /\ Reaches2(v, y) => x = y
  BY <1>1, TableEntryInjective DEF Reaches2
<1>3. \A x, y : Reaches3(v, x) /\ Reaches3(v, y) => x = y
  BY <1>2, TableEntryInjective DEF Reaches3
<1> QED BY <1>1, <1>2, <1>3 DEF Reaches

\* An entry for a table is one that was allocated, one level down.
LEMMA TableEntryLevel ==
  ASSUME NEW lv, Levelled(lv), next \in 0..PoolSize, NEW t \in Tables, NEW i \in Indices,
         NEW k \in Tables, tables[t][i] = TableEntry(k)
  PROVE  k \in 1..next /\ k \in Tables /\ lv[k] = lv[t] + 1
<1>1. tables[t][i] # Empty /\ tables[t][i].kind # "page"
  BY Kinds
<1>2. PICK j \in 1..next : tables[t][i] = TableEntry(j) /\ lv[j] = lv[t] + 1
  BY <1>1 DEF Levelled
<1>3. j = k
  <2>1. j \in Tables
    BY PageSizeType DEF Tables
  <2>2. TableEntry(j) = TableEntry(k)
    BY <1>2
  <2> QED BY <2>1, <2>2, TableEntryInjective
<1> QED BY <1>2, <1>3, PageSizeType DEF Tables

\* A table that is reached is allocated, and its level is that of the walk.
LEMMA ReachesLevel ==
  ASSUME TInv, NEW lv, Levelled(lv), NEW v \in Nat, NEW l, NEW t, Reaches(v, t, l)
  PROVE  t \in Tables /\ t <= next /\ lv[t] = l /\ l \in 0..3
<1>0. next \in 0..PoolSize /\ lv[Root] = 0
  BY DEF TInv, TypeOK, Levelled
<1>1. \A x : Reaches1(v, x) => x \in Tables /\ x \in 1..next /\ lv[x] = 1
  BY <1>0, IndexTypes, RootType, TableEntryLevel DEF Reaches1
<1>2. \A x : Reaches2(v, x) => x \in Tables /\ x \in 1..next /\ lv[x] = 2
  BY <1>0, <1>1, IndexTypes, TableEntryLevel DEF Reaches2
<1>3. \A x : Reaches3(v, x) => x \in Tables /\ x \in 1..next /\ lv[x] = 3
  BY <1>0, <1>2, IndexTypes, TableEntryLevel DEF Reaches3
<1>4. Root <= next
  BY <1>0 DEF Root
<1> QED BY <1>0, <1>1, <1>2, <1>3, <1>4, RootType DEF Reaches

\* Pages that come to the same table share the indices on the way: a table
\* hangs off one entry.
LEMMA SameTable ==
  ASSUME TInv, NEW v \in Nat, NEW w \in Nat, NEW l, NEW t, Reaches(v, t, l), Reaches(w, t, l)
  PROVE  \A m \in 0..(l - 1) : Index(v, m) = Index(w, m)
<1>1. PICK lv : Levelled(lv)
  BY DEF TInv
<1>2. \A k \in Tables : \A x, y \in Tables, i, j \in Indices :
        tables[x][i] = TableEntry(k) /\ tables[y][j] = TableEntry(k) => x = y /\ i = j
  BY Kinds DEF TInv, TreeShape, IsTable, Child
<1>3. /\ Index(v, 0) \in Indices /\ Index(v, 1) \in Indices /\ Index(v, 2) \in Indices
      /\ Index(w, 0) \in Indices /\ Index(w, 1) \in Indices /\ Index(w, 2) \in Indices
  BY IndexTypes
<1>4. \A x : Reaches1(v, x) /\ Reaches1(w, x) => Index(v, 0) = Index(w, 0)
  BY <1>2, <1>3, RootType DEF Reaches1
<1>5. \A x : Reaches2(v, x) /\ Reaches2(w, x) =>
               Index(v, 0) = Index(w, 0) /\ Index(v, 1) = Index(w, 1)
  <2> SUFFICES ASSUME NEW x, Reaches2(v, x), Reaches2(w, x)
               PROVE  Index(v, 0) = Index(w, 0) /\ Index(v, 1) = Index(w, 1)
    OBVIOUS
  <2>0. x \in Tables
    BY DEF Reaches2
  <2>1. PICK y \in Tables : Reaches1(v, y) /\ tables[y][Index(v, 1)] = TableEntry(x)
    BY DEF Reaches2
  <2>2. PICK z \in Tables : Reaches1(w, z) /\ tables[z][Index(w, 1)] = TableEntry(x)
    BY DEF Reaches2
  <2>3. y = z /\ Index(v, 1) = Index(w, 1)
    BY <1>2, <1>3, <2>0, <2>1, <2>2
  <2> QED BY <1>4, <2>1, <2>2, <2>3
<1>6. \A x : Reaches3(v, x) /\ Reaches3(w, x) =>
               /\ Index(v, 0) = Index(w, 0) /\ Index(v, 1) = Index(w, 1)
               /\ Index(v, 2) = Index(w, 2)
  <2> SUFFICES ASSUME NEW x, Reaches3(v, x), Reaches3(w, x)
               PROVE  /\ Index(v, 0) = Index(w, 0) /\ Index(v, 1) = Index(w, 1)
                      /\ Index(v, 2) = Index(w, 2)
    OBVIOUS
  <2>0. x \in Tables
    BY DEF Reaches3
  <2>1. PICK y \in Tables : Reaches2(v, y) /\ tables[y][Index(v, 2)] = TableEntry(x)
    BY DEF Reaches3
  <2>2. PICK z \in Tables : Reaches2(w, z) /\ tables[z][Index(w, 2)] = TableEntry(x)
    BY DEF Reaches3
  <2>3. y = z /\ Index(v, 2) = Index(w, 2)
    BY <1>2, <1>3, <2>0, <2>1, <2>2
  <2> QED BY <1>5, <2>1, <2>2, <2>3
<1>7. l \in 0..3
  BY <1>1, ReachesLevel
<1> SUFFICES ASSUME NEW m \in 0..(l - 1) PROVE Index(v, m) = Index(w, m)
  OBVIOUS
<1>8. CASE l = 0
  BY <1>8
<1>9. CASE l = 1
  <2>1. m = 0
    BY <1>9
  <2> QED BY <1>4, <1>9, <2>1 DEF Reaches
<1>10. CASE l = 2
  <2>1. m = 0 \/ m = 1
    BY <1>10
  <2> QED BY <1>5, <1>10, <2>1 DEF Reaches
<1>11. CASE l = 3
  <2>1. m = 0 \/ m = 1 \/ m = 2
    BY <1>11
  <2> QED BY <1>6, <1>11, <2>1 DEF Reaches
<1> QED BY <1>7, <1>8, <1>9, <1>10, <1>11

\* What is at the leaf of a page's walk.
LeafOf(t, v) == tables[t][Index(v, Depth - 1)]
Translation(e, v) == IF ~Canonical(v) \/ e = Empty THEN Unmapped
                     ELSE [page |-> e.addr, flags |-> e.flags]

\* Translate, by the table that the walk reaches.
LEMMA TranslateReaches ==
  ASSUME PoolFits, TInv, NEW v \in Nat
  PROVE  /\ \A t \in Tables : Reaches(v, t, Depth - 1) =>
                                Translate(v) = Translation(LeafOf(t, v), v)
         /\ (\A t \in Tables : ~Reaches(v, t, Depth - 1)) => Translate(v) = Unmapped
<1> DEFINE e0 == tables[Root][Index(v, 0)]
           e1 == Follow(e0, v, 1)
           e2 == Follow(e1, v, 2)
           e3 == Follow(e2, v, 3)
<1>1. PICK lv : Levelled(lv)
  BY DEF TInv
<1>2. Translate(v) = Translation(IF Depth = 3 THEN e2 ELSE e3, v)
  BY DEF Translate, Translation
<1>3. next \in 0..PoolSize /\ Depth \in {3, 4} /\ lv[Root] = 0 /\ lv \in [Tables -> 0..(Depth - 1)]
  BY <1>1, DepthType DEF TInv, TypeOK, Levelled
<1>4. /\ Index(v, 0) \in Indices /\ Index(v, 1) \in Indices /\ Index(v, 2) \in Indices
  BY IndexTypes
<1>5. \A t \in Tables, i \in Indices :
        lv[t] < Depth - 1 => \/ tables[t][i] = Empty
                             \/ \E k \in Tables : tables[t][i] = TableEntry(k) /\ lv[k] = lv[t] + 1
  <2> SUFFICES ASSUME NEW t \in Tables, NEW i \in Indices, lv[t] < Depth - 1, tables[t][i] # Empty
               PROVE  \E k \in Tables : tables[t][i] = TableEntry(k) /\ lv[k] = lv[t] + 1
    OBVIOUS
  <2>1. lv[t] # Depth - 1
    BY <1>3
  <2>2. PICK k \in 1..next : tables[t][i] = TableEntry(k) /\ lv[k] = lv[t] + 1
    BY <1>1, <2>1 DEF Levelled
  <2>3. k \in Tables
    BY <1>3, PageSizeType DEF Tables
  <2> QED BY <2>2, <2>3
<1>6. /\ e0 = Empty \/ \E t \in Tables : e0 = TableEntry(t) /\ Reaches1(v, t) /\ lv[t] = 1
      /\ e0 = Empty => \A t \in Tables : ~Reaches1(v, t)
  BY <1>3, <1>4, <1>5, RootType, Kinds DEF Reaches1
<1> HIDE DEF e0
<1>7. /\ \A t \in Tables : e0 = TableEntry(t) => e1 = tables[t][Index(v, 1)]
      /\ e0 = Empty => e1 = Empty
  BY Kinds, FollowedTable DEF Follow
<1> HIDE DEF e1
<1>8. /\ \A t \in Tables : e1 = TableEntry(t) => e2 = tables[t][Index(v, 2)]
      /\ e1 = Empty => e2 = Empty
  BY Kinds, FollowedTable DEF Follow
<1> HIDE DEF e2
<1>9. /\ \A t \in Tables : e2 = TableEntry(t) => e3 = tables[t][Index(v, 3)]
      /\ e2 = Empty => e3 = Empty
  BY Kinds, FollowedTable DEF Follow
<1> HIDE DEF e3
<1>10. \A t, u : /\ Reaches1(v, t) /\ Reaches1(v, u) => t = u
                 /\ Reaches2(v, t) /\ Reaches2(v, u) => t = u
  BY ReachesOne DEF Reaches
<1>11. /\ e1 = Empty \/ \E t \in Tables : e1 = TableEntry(t) /\ Reaches2(v, t) /\ lv[t] = 2
       /\ e1 = Empty => \A t \in Tables : ~Reaches2(v, t)
  <2>1. CASE e0 = Empty
    BY <1>6, <1>7, <2>1 DEF Reaches2
  <2>2. CASE e0 # Empty
    <3>1. PICK t \in Tables : e0 = TableEntry(t) /\ Reaches1(v, t) /\ lv[t] = 1
      BY <1>6, <2>2
    <3>2. e1 = tables[t][Index(v, 1)]
      BY <1>7, <3>1
    <3>3. \A u \in Tables : Reaches2(v, u) <=> e1 = TableEntry(u)
      BY <1>10, <3>1, <3>2 DEF Reaches2
    <3>4. e1 = Empty \/ \E k \in Tables : e1 = TableEntry(k) /\ lv[k] = 2
      BY <1>3, <1>4, <1>5, <3>1, <3>2
    <3> QED BY <3>3, <3>4, Kinds
  <2> QED BY <2>1, <2>2
<1>12. CASE Depth = 3
  <2>1. \A t \in Tables : Reaches(v, t, Depth - 1) <=> Reaches2(v, t)
    BY <1>12 DEF Reaches
  <2>2. CASE e1 = Empty
    BY <1>2, <1>8, <1>11, <1>12, <2>1, <2>2 DEF Translation
  <2>3. CASE e1 # Empty
    <3>1. PICK t \in Tables : e1 = TableEntry(t) /\ Reaches2(v, t)
      BY <1>11, <2>3
    <3>2. e2 = LeafOf(t, v)
      BY <1>8, <1>12, <3>1 DEF LeafOf
    <3>3. \A u \in Tables : Reaches(v, u, Depth - 1) => u = t
      BY <1>10, <2>1, <3>1
    <3> QED BY <1>2, <1>12, <2>1, <3>1, <3>2, <3>3
  <2> QED BY <2>2, <2>3
<1>13. CASE Depth = 4
  <2>1. \A t \in Tables : Reaches(v, t, Depth - 1) <=> Reaches3(v, t)
    BY <1>13 DEF Reaches
  <2>2. /\ e2 = Empty \/ \E t \in Tables : e2 = TableEntry(t) /\ Reaches3(v, t)
        /\ e2 = Empty => \A t \in Tables : ~Reaches3(v, t)
    <3>1. CASE e1 = Empty
      BY <1>8, <1>11, <3>1 DEF Reaches3
    <3>2. CASE e1 # Empty
      <4>1. PICK t \in Tables : e1 = TableEntry(t) /\ Reaches2(v, t) /\ lv[t] = 2
        BY <1>11, <3>2
      <4>2. e2 = tables[t][Index(v, 2)]
        BY <1>8, <4>1
      <4>3. \A u \in Tables : Reaches3(v, u) <=> e2 = TableEntry(u)
        BY <1>10, <4>1, <4>2 DEF Reaches3
      <4>4. e2 = Empty \/ \E k \in Tables : e2 = TableEntry(k)
        BY <1>4, <1>5, <1>13, <4>1, <4>2
      <4> QED BY <4>3, <4>4, Kinds
    <3> QED BY <3>1, <3>2
  <2>3. CASE e2 = Empty
    BY <1>2, <1>9, <1>13, <2>1, <2>2, <2>3 DEF Translation
  <2>4. CASE e2 # Empty
    <3>1. PICK t \in Tables : e2 = TableEntry(t) /\ Reaches3(v, t)
      BY <2>2, <2>4
    <3>2. e3 = LeafOf(t, v)
      BY <1>9, <1>13, <3>1 DEF LeafOf
    <3>3. \A u \in Tables : Reaches(v, u, Depth - 1) => u = t
      BY <3>1, ReachesOne, <2>1
    <3> QED BY <1>2, <1>13, <2>1, <3>1, <3>2, <3>3
  <2> QED BY <2>3, <2>4
<1> QED BY <1>3, <1>12, <1>13

\* The same, as one formula: it holds in the state after a step as well.
Walks ==
  \A v \in Nat :
    /\ \A t \in Tables : Reaches(v, t, Depth - 1) => Translate(v) = Translation(LeafOf(t, v), v)
    /\ (\A t \in Tables : ~Reaches(v, t, Depth - 1)) => Translate(v) = Unmapped

LEMMA WalksHold == ASSUME PoolFits PROVE TInv => Walks
BY TranslateReaches DEF Walks

LEMMA WalksHoldNext == ASSUME PoolFits PROVE TInv' => Walks'
BY WalksHold, PTL

----------------------------------------------------------------------------
(***************************************************************************)
(* What the steps of map_page do to the translation.                       *)
(***************************************************************************)

\* The span of the architecture; a canonical page is below it.
LEMMA SpanType == Span = (IF Depth = 3 THEN E3 ELSE E4) /\ Span \in Nat
<1>1. Depth = 3 => Span = E3
  BY EntriesType DEF Span, Stride, E2, E3
<1>2. Depth = 4 => Span = E4
  BY EntriesType DEF Span, Stride, E4
<1> QED BY <1>1, <1>2, DepthType, EntriesType

LEMMA CanonicalInSpan ==
  ASSUME NEW v \in Nat, Canonical(v)
  PROVE  v < Span
<1>1. Span \in Nat
  BY SpanType
<1>2. \A s \in Nat : s \div 2 <= s /\ s \div 2 \in Nat
  OBVIOUS
<1> QED BY <1>1, <1>2 DEF Canonical

LEMMA CanonicalLimit ==
  ASSUME NEW v
  PROVE  Canonical(v) <=> v < LimitOf(arch)
<1>1. Span = SpanOf(arch)
  <2>1. Depth = 3 <=> arch = "riscv64"
    BY DEF Depth
  <2>2. E3 = E3 * 1 /\ E4 = E3 * Entries
    BY EntriesType DEF E3, E4
  <2> QED BY <2>1, <2>2, SpanType DEF SpanOf, E3
<1> QED BY <1>1 DEF Canonical, LimitOf

LEMMA LimitType == LimitOf(arch) \in Int
<1>1. SpanOf(arch) \in Int
  BY EntriesType DEF SpanOf
<1> QED BY <1>1 DEF LimitOf

\* At the last level an entry leads to no table.
LEMMA LeafNotTable ==
  ASSUME TInv, level = Depth - 1, NEW i \in Indices
  PROVE  \A k \in Tables : tables[table_ptr][i] # TableEntry(k)
<1>1. PICK lv : Levelled(lv)
  BY DEF TInv
<1>2. table_ptr \in Tables /\ lv[table_ptr] = Depth - 1 /\ next \in 0..PoolSize
  BY <1>1 DEF TInv, TypeOK, Levelled
<1>3. \A t \in Tables : lv[t] \in 0..(Depth - 1)
  BY <1>1 DEF Levelled
<1>4. lv[table_ptr] + 1 \notin 0..(Depth - 1)
  BY <1>2, DepthType
<1> QED BY <1>1, <1>2, <1>3, <1>4, TableEntryLevel

\* Two states with the same entries for tables have the same walks.
LEMMA SameWalks ==
  ASSUME arch' = arch, NEW v \in Nat,
         \A k \in Tables : \A t \in Tables, i \in Indices :
           tables'[t][i] = TableEntry(k) <=> tables[t][i] = TableEntry(k)
  PROVE  \A t, l : (Reaches(v, t, l))' <=> Reaches(v, t, l)
<1>1. \A l : Index(v, l)' = Index(v, l)
  BY DEF Index, Stride, Depth
<1>2. Index(v, 0) \in Indices /\ Index(v, 1) \in Indices /\ Index(v, 2) \in Indices
  BY IndexTypes
<1>3. \A t : (Reaches1(v, t))' <=> Reaches1(v, t)
  BY <1>1, <1>2, RootType DEF Reaches1
<1>4. \A t : (Reaches2(v, t))' <=> Reaches2(v, t)
  BY <1>1, <1>2, <1>3 DEF Reaches2
<1>5. \A t : (Reaches3(v, t))' <=> Reaches3(v, t)
  BY <1>1, <1>2, <1>4 DEF Reaches3
<1> QED BY <1>3, <1>4, <1>5 DEF Reaches

\* map_page's store changes the translation of the page it is called for, and
\* of no other.
LEMMA MapPageEffect ==
  ASSUME PoolFits, TInv, TInv', map_page, NEW a \in Nat, a = Page(addr), Canonical(a),
         Reaches(a, table_ptr, level), NEW v \in Nat
  PROVE  Translate(v)' = IF v = a THEN [page |-> a, flags |-> flags] ELSE Translate(v)
<1>0. level = Depth - 1 /\ arch' = arch
  BY DEF map_page
<1>1. PICK ix \in Indices : ix = Index(a, Depth - 1)
  BY WalkPlace, <1>0
<1>2. PICK e : e = PageEntry(a, flags)
  OBVIOUS
<1>13. a % FieldPages = a
  <2>1. a < LimitOf(arch) /\ LimitOf(arch) <= FieldPages
    BY CanonicalLimit, FieldAssumption DEF TInv, TypeOK
  <2>2. FieldPages \in Nat \ {0}
    BY PageTablesAssumption
  <2>3. LimitOf(arch) \in Int
    BY LimitType
  <2>4. a < FieldPages
    BY <2>1, <2>2, <2>3
  <2> QED BY <2>2, <2>4, ModOfSmall
<1>3. tables' = [tables EXCEPT ![table_ptr][ix] = e]
  BY <1>0, <1>1, <1>2 DEF map_page
<1>4. table_ptr \in Tables
  BY WalkPlace
<1>5. \A t \in Tables, i \in Indices :
        tables'[t][i] = IF t = table_ptr /\ i = ix THEN e ELSE tables[t][i]
  BY <1>3, <1>4, Written DEF TInv
<1>6. \A k \in Tables : \A t \in Tables, i \in Indices :
        tables'[t][i] = TableEntry(k) <=> tables[t][i] = TableEntry(k)
  BY <1>0, <1>2, <1>5, Kinds, LeafNotTable
<1>7. \A t, l : (Reaches(v, t, l))' <=> Reaches(v, t, l)
  BY <1>0, <1>6, SameWalks
<1>8. Depth' = Depth /\ Canonical(v)' = Canonical(v) /\ Index(v, Depth - 1)' = Index(v, Depth - 1)
  BY <1>0 DEF Depth, Canonical, Span, Stride, Index
<1>9. Index(v, Depth - 1) \in Indices
  BY IndexType, DepthType
<1>10. PICK tp \in Tables : tp = table_ptr
  BY <1>4
<1>11. CASE \E t \in Tables : Reaches(v, t, Depth - 1)
  <2>1. PICK t \in Tables : Reaches(v, t, Depth - 1)
    BY <1>11
  <2>2. Translate(v) = Translation(tables[t][Index(v, Depth - 1)], v)
    BY <2>1, WalksHold DEF Walks, LeafOf
  <2>3. Translate(v)' = Translation(tables'[t][Index(v, Depth - 1)], v)
    <3>1. (Reaches(v, t, Depth - 1))'
      BY <1>7, <1>8, <2>1
    <3>2. Translate(v)' = Translation(LeafOf(t, v), v)'
      BY <3>1, WalksHoldNext DEF Walks
    <3> QED BY <1>8, <3>2 DEF Translation, LeafOf
  <2>4. CASE t = tp /\ Index(v, Depth - 1) = ix
    <3>1. CASE Canonical(v)
      <4>1. \A m \in 0..((Depth - 1) - 1) : Index(v, m) = Index(a, m)
        BY <1>0, <1>10, <2>1, <2>4, SameTable
      <4>2. \A m \in 0..(Depth - 1) : Index(v, m) = Index(a, m)
        BY <1>1, <2>4, <4>1, DepthType
      <4>3. v = a
        BY <3>1, <4>2, CanonicalInSpan, IndexUnique
      <4>4. tables'[t][Index(v, Depth - 1)] = e
        BY <1>5, <1>9, <1>10, <2>4
      <4>5. e.addr = a /\ e.flags = flags /\ e # Empty
        BY <1>2, <1>13, Kinds
      <4> QED BY <2>3, <3>1, <4>3, <4>4, <4>5 DEF Translation
    <3>2. CASE ~Canonical(v)
      BY <2>2, <2>3, <3>2 DEF Translation
    <3> QED BY <3>1, <3>2
  <2>5. CASE ~(t = tp /\ Index(v, Depth - 1) = ix)
    <3>1. v # a
      BY <1>0, <1>1, <1>10, <2>1, <2>5, ReachesOne
    <3> QED BY <1>5, <1>9, <1>10, <2>2, <2>3, <2>5, <3>1
  <2> QED BY <2>4, <2>5
<1>12. CASE \A t \in Tables : ~Reaches(v, t, Depth - 1)
  <2>1. v # a
    BY <1>0, <1>4, <1>12
  <2>2. Translate(v) = Unmapped
    BY <1>12, WalksHold DEF Walks
  <2>3. \A t \in Tables : ~(Reaches(v, t, Depth - 1))'
    BY <1>7, <1>8, <1>12
  <2>4. Translate(v)' = Unmapped
    BY <2>3, WalksHoldNext DEF Walks
  <2> QED BY <2>1, <2>2, <2>4
<1> QED BY <1>11, <1>12

\* alloc_table's store changes no translation: the table it hangs into the tree
\* is blank, and the entry it writes was empty.
LEMMA AllocEffect ==
  ASSUME PoolFits, TInv, TInv', alloc_table, NEW v \in Nat
  PROVE  Translate(v)' = Translate(v)
<1>1. PICK lv : Levelled(lv)
  BY DEF TInv
<1>2. PICK ix \in Indices : ix = Index(Page(addr), level)
  BY WalkPlace
<1>3. PICK tp \in Tables : tp = table_ptr
  BY WalkPlace
<1>4. PICK new : new = next + 1
  OBVIOUS
<1>5. /\ level < Depth - 1 /\ tables[tp][ix] = Empty /\ next < PoolSize /\ arch' = arch
      /\ tables' = [tables EXCEPT ![tp][ix] = TableEntry(new)]
  BY <1>2, <1>3, <1>4 DEF alloc_table, Entry
<1>6. \A t \in Tables, i \in Indices :
        tables'[t][i] = IF t = tp /\ i = ix THEN TableEntry(new) ELSE tables[t][i]
  BY <1>5, Written DEF TInv
<1>7. lv[tp] # Depth - 1 /\ tp <= next /\ tp \in Nat
  BY <1>1, <1>3, <1>5, DepthType DEF Levelled, TInv, TypeOK, Tables
<1>8. new \in Tables /\ tp # new /\ new > next
  BY <1>4, <1>5, <1>7, PageSizeType DEF TInv, TypeOK, Tables
<1>9. \A i \in Indices : tables'[new][i] = Empty
  BY <1>6, <1>8 DEF TInv, TreeShape
<1>10. /\ \A k \in Tables : \A t \in Tables, i \in Indices :
            tables[t][i] = TableEntry(k) => tables'[t][i] = TableEntry(k)
       /\ \A k \in Tables : \A t \in Tables, i \in Indices :
            tables'[t][i] = TableEntry(k) => t # new /\ (k = new \/ tables[t][i] = TableEntry(k))
  BY <1>5, <1>6, <1>8, <1>9, Kinds, TableEntryInjective
<1>11. \A l : Index(v, l)' = Index(v, l)
  BY <1>5 DEF Index, Stride, Depth
<1>12. Depth' = Depth /\ Canonical(v)' = Canonical(v)
  BY <1>5 DEF Depth, Canonical, Span, Stride
<1>13. Index(v, 0) \in Indices /\ Index(v, 1) \in Indices /\ Index(v, 2) \in Indices
  BY IndexTypes
<1>14. \A t : /\ Reaches1(v, t) => (Reaches1(v, t))'
              /\ (Reaches1(v, t))' => t = new \/ Reaches1(v, t)
  BY <1>10, <1>11, <1>13, RootType DEF Reaches1
<1>15. \A t : /\ Reaches2(v, t) => (Reaches2(v, t))'
              /\ (Reaches2(v, t))' => t = new \/ Reaches2(v, t)
  BY <1>10, <1>11, <1>13, <1>14 DEF Reaches2
<1>16. \A t : /\ Reaches3(v, t) => (Reaches3(v, t))'
              /\ (Reaches3(v, t))' => t = new \/ Reaches3(v, t)
  BY <1>10, <1>11, <1>13, <1>15 DEF Reaches3
<1>17. \A t, l : /\ Reaches(v, t, l) => (Reaches(v, t, l))'
                 /\ (Reaches(v, t, l))' => t = new \/ Reaches(v, t, l)
  BY <1>14, <1>15, <1>16 DEF Reaches
<1>18. Index(v, Depth - 1) \in Indices /\ Index(v, Depth - 1)' = Index(v, Depth - 1)
  BY <1>11, <1>12, IndexType, DepthType
<1>19. \A t \in Tables : (Reaches(v, t, Depth - 1))' =>
          Translate(v)' = Translation(tables'[t][Index(v, Depth - 1)], v)
  <2> SUFFICES ASSUME NEW t \in Tables, (Reaches(v, t, Depth - 1))'
               PROVE  Translate(v)' = Translation(tables'[t][Index(v, Depth - 1)], v)
    OBVIOUS
  <2>1. Translate(v)' = Translation(LeafOf(t, v), v)'
    BY WalksHoldNext DEF Walks
  <2> QED BY <1>12, <1>18, <2>1 DEF Translation, LeafOf
<1>20. CASE \E t \in Tables : Reaches(v, t, Depth - 1)
  <2>1. PICK t \in Tables : Reaches(v, t, Depth - 1)
    BY <1>20
  <2>2. Translate(v) = Translation(tables[t][Index(v, Depth - 1)], v)
    BY <2>1, WalksHold DEF Walks, LeafOf
  <2>3. Translate(v)' = Translation(tables'[t][Index(v, Depth - 1)], v)
    BY <1>12, <1>17, <1>19, <2>1
  <2>4. t # tp
    BY <1>1, <1>7, <2>1, ReachesLevel
  <2>5. tables'[t][Index(v, Depth - 1)] = tables[t][Index(v, Depth - 1)]
    BY <1>6, <1>18, <2>4
  <2> QED BY <2>2, <2>3, <2>5
<1>21. CASE \A t \in Tables : ~Reaches(v, t, Depth - 1)
  <2>1. Translate(v) = Unmapped
    BY <1>21, WalksHold DEF Walks
  <2>2. \A t \in Tables : (Reaches(v, t, Depth - 1))' => t = new
    BY <1>12, <1>17, <1>21
  <2>3. CASE (Reaches(v, new, Depth - 1))'
    <3>1. Translate(v)' = Translation(tables'[new][Index(v, Depth - 1)], v)
      BY <1>8, <1>19, <2>3
    <3>2. tables'[new][Index(v, Depth - 1)] = Empty
      BY <1>9, <1>18
    <3> QED BY <2>1, <3>1, <3>2 DEF Translation
  <2>4. CASE ~(Reaches(v, new, Depth - 1))'
    <3>1. \A t \in Tables : ~(Reaches(v, t, Depth - 1))'
      BY <2>2, <2>4
    <3> QED BY <2>1, <3>1, WalksHoldNext DEF Walks
  <2> QED BY <2>3, <2>4
<1> QED BY <1>20, <1>21

\* The walk's own place: the page's indices lead to the table it is at.
LEMMA ReachesStep ==
  ASSUME NEW v \in Nat, NEW l \in 0..2, NEW t \in Tables, NEW k \in Tables, Reaches(v, t, l),
         tables[t][Index(v, l)] = TableEntry(k)
  PROVE  Reaches(v, k, l + 1)
BY DEF Reaches, Reaches1, Reaches2, Reaches3

ReachesSteps ==
  \A k \in Tables : \A v \in Nat, l \in 0..2, t \in Tables :
    Reaches(v, t, l) /\ tables[t][Index(v, l)] = TableEntry(k) => Reaches(v, k, l + 1)

LEMMA ReachesStepNext == ReachesSteps'
<1>1. ReachesSteps
  BY ReachesStep DEF ReachesSteps
<1> QED BY <1>1, PTL

\* A table allocated for a page is reached by its indices.
LEMMA AllocReaches ==
  ASSUME PoolFits, TInv, alloc_table, NEW a \in Nat, a = Page(addr), Reaches(a, table_ptr, level)
  PROVE  (Reaches(a, table_ptr, level))'
<1>1. PICK ix \in Indices : ix = Index(a, level)
  BY WalkPlace
<1>2. PICK tp \in Tables : tp = table_ptr
  BY WalkPlace
<1>3. PICK new \in Tables : new = next + 1
  BY PageSizeType DEF alloc_table, TInv, TypeOK, Tables
<1>4. PICK l \in 0..2 : l = level
  <2>1. level \in 0..(Depth - 1) /\ level < Depth - 1
    BY DEF TInv, TypeOK, alloc_table
  <2> QED BY <2>1, DepthType
<1>5. /\ tables[tp][ix] = Empty /\ arch' = arch /\ table_ptr' = new /\ level' = l + 1
      /\ tables' = [tables EXCEPT ![tp][ix] = TableEntry(new)]
  BY <1>1, <1>2, <1>3, <1>4, GoDownNew DEF alloc_table, Entry
<1>6. \A t \in Tables, i \in Indices :
        tables'[t][i] = IF t = tp /\ i = ix THEN TableEntry(new) ELSE tables[t][i]
  BY <1>5, Written DEF TInv
<1>7. \A k \in Tables : \A t \in Tables, i \in Indices :
        tables[t][i] = TableEntry(k) => tables'[t][i] = TableEntry(k)
  BY <1>5, <1>6, Kinds
<1>8. \A m : Index(a, m)' = Index(a, m)
  BY <1>5 DEF Index, Stride, Depth
<1>9. Index(a, 0) \in Indices /\ Index(a, 1) \in Indices /\ Index(a, 2) \in Indices
  BY IndexTypes
<1>10. \A t : Reaches1(a, t) => (Reaches1(a, t))'
  BY <1>7, <1>8, <1>9, RootType DEF Reaches1
<1>11. \A t : Reaches2(a, t) => (Reaches2(a, t))'
  BY <1>7, <1>8, <1>9, <1>10 DEF Reaches2
<1>12. \A t : Reaches3(a, t) => (Reaches3(a, t))'
  BY <1>7, <1>8, <1>9, <1>11 DEF Reaches3
<1>13. (Reaches(a, tp, l))'
  BY <1>2, <1>4, <1>10, <1>11, <1>12 DEF Reaches
<1>14. tables'[tp][Index(a, l)'] = TableEntry(new)
  BY <1>1, <1>4, <1>6, <1>8
<1>15. (Reaches(a, new, l + 1))'
  BY <1>13, <1>14, ReachesStepNext DEF ReachesSteps
<1> QED BY <1>5, <1>15

\* A step that leaves the tables alone leaves the translation alone.
LEMMA UnwrittenEffect ==
  ASSUME UNCHANGED <<arch, tables>>, NEW v
  PROVE  Translate(v)' = Translate(v)
BY DEF Translate, Follow, Canonical, Span, Stride, Index, Depth

----------------------------------------------------------------------------
(***************************************************************************)
(* The loop of setup_identity_mapping.                                     *)
(***************************************************************************)

\* The indices of the page being mapped lead to the table the walk is at, and
\* the walk starts at the root for every page.
InPlace ==
  /\ Reaches(Page(addr), table_ptr, level)
  /\ level # 0 => Walking

\* What a call that is running, or has returned Ok, has done so far.
CallSoFar ==
  outcome \in {"running", "Ok"} =>
    /\ request.region \in Regions /\ request.perms \in Presets
    /\ request.region.length_bytes # 0
    /\ flags = permissions_to_flags(request.perms)
    /\ end = align_up((request.region.base_addr + request.region.length_bytes) % AddrMod)
    /\ align_down(request.region.base_addr) <= addr
    /\ \A p \in Nat :
         align_down(request.region.base_addr) <= p * PageSize /\ p * PageSize < addr =>
           p \in DOMAIN asked /\ asked[p] = request.perms
    /\ outcome = "Ok" => addr >= end

\* Every page ever mapped translates to itself, as the last call asked.
AskedMapped ==
  \A p \in DOMAIN asked :
    /\ p \in Nat /\ Canonical(p) /\ asked[p] \in Presets
    /\ Translate(p) = [page |-> p, flags |-> permissions_to_flags(asked[p])]

MInv == TInv /\ InPlace /\ CallSoFar /\ AskedMapped

\* The page being mapped is one of the region, hence canonical.
LEMMA WalkedCanonical ==
  ASSUME CanonicalRegions, TInv, CallSoFar, Walking
  PROVE  Page(addr) \in Nat /\ Canonical(Page(addr)) /\ addr = Page(addr) * PageSize
<1>1. Page(addr) \in Nat /\ addr = Page(addr) * PageSize
  BY WalkPlace DEF TInv, LoopAligned, Aligned
<1>2. /\ request.region \in Regions /\ request.region.length_bytes # 0 /\ arch \in Archs
      /\ align_down(request.region.base_addr) <= addr /\ addr < end
      /\ end = align_up((request.region.base_addr + request.region.length_bytes) % AddrMod)
  BY DEF CallSoFar, Walking, TInv, TypeOK
<1>3. Page(addr) < LimitOf(arch)
  BY <1>1, <1>2, WalkedPage DEF CanonicalRegions
<1> QED BY <1>1, <1>3, CanonicalLimit

LEMMA InitMInv == Init => MInv
<1> SUFFICES ASSUME Init PROVE MInv
  OBVIOUS
<1>1. InPlace
  BY DEF Init, InPlace, Reaches
<1>2. CallSoFar /\ AskedMapped
  BY DEF Init, CallSoFar, AskedMapped
<1> QED BY <1>1, <1>2, InitTInv DEF MInv

\* A step that changes no table and asks for no page keeps what is mapped.
LEMMA UnwrittenAsked ==
  ASSUME AskedMapped, UNCHANGED <<arch, tables, asked>>
  PROVE  AskedMapped'
<1>1. \A p : Canonical(p)' = Canonical(p) /\ permissions_to_flags(p)' = permissions_to_flags(p)
  BY DEF Canonical, Span, Stride, Depth, permissions_to_flags
<1>2. \A p : Translate(p)' = Translate(p)
  BY UnwrittenEffect
<1> QED BY <1>1, <1>2 DEF AskedMapped

LEMMA SetupMInv ==
  ASSUME MInv, TInv', NEW region \in Regions, NEW perms \in Presets,
         setup_identity_mapping(region, perms)
  PROVE  MInv'
<1>1. UNCHANGED <<arch, tables, asked, level, table_ptr>> /\ outcome # "running"
  BY DEF setup_identity_mapping, walk
<1>2. level = 0 /\ table_ptr = Root
  BY <1>1 DEF MInv, InPlace, Walking, Reaches
<1>3. InPlace'
  BY <1>1, <1>2 DEF InPlace, Reaches
<1>4. AskedMapped'
  BY <1>1, UnwrittenAsked DEF MInv
<1>5. CallSoFar'
  <2>1. CASE region.length_bytes = 0
    BY <2>1 DEF setup_identity_mapping, CallSoFar
  <2>2. CASE region.length_bytes # 0
    <3>1. /\ request' = [region |-> region, perms |-> perms] /\ outcome' = "running"
          /\ flags' = permissions_to_flags(perms) /\ addr' = align_down(region.base_addr)
          /\ end' = align_up((region.base_addr + region.length_bytes) % AddrMod)
      BY <2>2 DEF setup_identity_mapping
    <3>2. permissions_to_flags(perms)' = permissions_to_flags(perms)
      BY <1>1 DEF permissions_to_flags
    <3>3. request'.region = region /\ request'.perms = perms
      BY <3>1
    <3>4. addr' \in Nat
      BY DEF TInv, LoopAligned
    <3>5. \A p \in Nat : ~(addr' <= p * PageSize /\ p * PageSize < addr')
      BY <3>4, PageSizeType, Product
    <3>6. flags' = permissions_to_flags(request.perms)'
      BY <3>1, <3>2, <3>3 DEF permissions_to_flags
    <3>7. outcome' # "Ok"
      BY <3>1
    <3> QED BY <2>2, <3>1, <3>3, <3>4, <3>5, <3>6, <3>7 DEF CallSoFar
  <2> QED BY <2>1, <2>2
<1> QED BY <1>3, <1>4, <1>5 DEF MInv

\* The walk goes on with the call as it was.
LEMMA SameCall ==
  ASSUME CallSoFar, UNCHANGED <<arch, addr, end, flags, outcome, request, asked>>
  PROVE  CallSoFar'
BY DEF CallSoFar, permissions_to_flags

LEMMA DescendMInv == ASSUME PoolFits, MInv, TInv', Descend PROVE MInv'
<1>1. PICK lv : Levelled(lv)
  BY DEF MInv, TInv
<1>2. PICK a \in Nat : a = Page(addr)
  BY WalkPlace DEF MInv
<1>3. PICK l \in 0..2 : l = level
  <2>1. level \in 0..(Depth - 1) /\ level < Depth - 1
    BY DEF MInv, TInv, TypeOK, Descend
  <2> QED BY <2>1, DepthType
<1>4. PICK ix \in Indices : ix = Index(a, l)
  BY <1>2, <1>3, WalkPlace DEF MInv
<1>5. PICK tp \in Tables : tp = table_ptr
  BY WalkPlace DEF MInv
<1>6. /\ l < Depth - 1 /\ tables[tp][ix] # Empty
      /\ GoDown(tables[tp][ix])
      /\ UNCHANGED <<arch, tables, next, addr, end, flags, request, asked>>
  BY <1>2, <1>3, <1>4, <1>5 DEF Descend, Entry
<1>7. PICK k \in Tables : tables[tp][ix] = TableEntry(k)
  <2>1. lv[tp] = l
    BY <1>1, <1>3, <1>5 DEF Levelled
  <2>2. lv[tp] # Depth - 1
    BY <1>6, <2>1, DepthType
  <2>3. PICK j \in 1..next : tables[tp][ix] = TableEntry(j)
    BY <1>1, <1>6, <2>2 DEF Levelled
  <2>4. j \in Tables
    BY PageSizeType DEF MInv, TInv, TypeOK, Tables
  <2> QED BY <2>3, <2>4
<1>8. table_ptr' = k /\ level' = l + 1 /\ outcome' = outcome
  BY <1>3, <1>6, <1>7, FollowedTable DEF GoDown
<1>9. Reaches(a, k, l + 1)
  <2>1. Reaches(a, tp, l)
    BY <1>2, <1>3, <1>5 DEF MInv, InPlace
  <2> QED BY <1>4, <1>7, <2>1, ReachesStep
<1>10. (Reaches(a, k, l + 1))'
  <2>1. \A x \in Tables : \A t \in Tables, i \in Indices :
          tables'[t][i] = TableEntry(x) <=> tables[t][i] = TableEntry(x)
    BY <1>6
  <2> QED BY <1>6, <1>9, <2>1, SameWalks
<1>11. InPlace'
  <2>1. Page(addr)' = a
    BY <1>2, <1>6 DEF Page
  <2>2. Walking'
    BY <1>6, <1>8 DEF Descend, Walking
  <2> QED BY <1>6, <1>8, <1>10, <2>1, <2>2 DEF InPlace
<1> QED BY <1>6, <1>8, <1>11, SameCall, UnwrittenAsked DEF MInv

\* The new table is where the walk goes on.
LEMMA AllocGoesDown ==
  ASSUME PoolFits, TInv, alloc_table
  PROVE  outcome' = outcome
<1>1. next + 1 \in Tables
  BY PageSizeType DEF alloc_table, TInv, TypeOK, Tables
<1> QED BY <1>1, GoDownNew DEF alloc_table

LEMMA AllocMInv == ASSUME PoolFits, MInv, TInv', alloc_table PROVE MInv'
<1>1. UNCHANGED <<arch, addr, end, flags, outcome, request, asked>> /\ Walking
  BY AllocGoesDown DEF alloc_table, MInv
<1>2. PICK a \in Nat : a = Page(addr)
  BY WalkPlace DEF MInv
<1>3. InPlace'
  <2>1. (Reaches(a, table_ptr, level))'
    BY <1>2, AllocReaches DEF MInv, InPlace
  <2>2. Page(addr)' = a
    BY <1>1, <1>2 DEF Page
  <2> QED BY <1>1, <2>1, <2>2 DEF InPlace, Walking
<1>4. AskedMapped'
  <2>1. \A p : Canonical(p)' = Canonical(p) /\ permissions_to_flags(p)' = permissions_to_flags(p)
    BY <1>1 DEF Canonical, Span, Stride, Depth, permissions_to_flags
  <2>2. \A p \in Nat : Translate(p)' = Translate(p)
    BY AllocEffect DEF MInv
  <2> QED BY <1>1, <2>1, <2>2 DEF MInv, AskedMapped
<1> QED BY <1>1, <1>3, <1>4, SameCall DEF MInv

LEMMA ExhaustedMInv == ASSUME MInv, TInv', PoolExhausted PROVE MInv'
<1>1. /\ UNCHANGED <<arch, tables, asked>> /\ outcome' = "Err"
      /\ level' = 0 /\ table_ptr' = Root
  BY DEF PoolExhausted
<1>2. InPlace'
  BY <1>1 DEF InPlace, Reaches
<1>3. CallSoFar'
  BY <1>1 DEF CallSoFar
<1> QED BY <1>1, <1>2, <1>3, UnwrittenAsked DEF MInv

LEMMA ReturnMInv == ASSUME MInv, TInv', Return PROVE MInv'
<1>1. /\ UNCHANGED <<arch, tables, asked, addr, end, level, table_ptr, flags, request>>
      /\ outcome = "running" /\ outcome' = "Ok" /\ addr >= end
  BY DEF Return, walk
<1>2. level = 0 /\ table_ptr = Root
  <2>1. ~(addr < end)
    BY <1>1 DEF MInv, TInv, LoopAligned
  <2> QED BY <2>1 DEF MInv, InPlace, Walking, Reaches
<1>3. InPlace'
  BY <1>1, <1>2 DEF InPlace, Reaches
<1>4. CallSoFar'
  BY <1>1 DEF MInv, CallSoFar, permissions_to_flags
<1> QED BY <1>1, <1>3, <1>4, UnwrittenAsked DEF MInv

LEMMA MapPageMInv == ASSUME CanonicalRegions, PoolFits, MInv, TInv', map_page PROVE MInv'
<1>1. /\ UNCHANGED <<arch, next, end, flags, outcome, request>> /\ Walking
      /\ addr' = addr + PageSize /\ level' = 0 /\ table_ptr' = Root
  BY DEF map_page
<1>2. PICK a \in Nat : a = Page(addr) /\ Canonical(a) /\ addr = a * PageSize
  BY <1>1, WalkedCanonical DEF MInv
<1>3. PICK q : q = request.perms
  OBVIOUS
<1>4. asked' = [p \in DOMAIN asked \cup {a} |-> IF p = a THEN q ELSE asked[p]]
  BY <1>2, <1>3 DEF map_page
<1>5. outcome = "running" /\ q \in Presets /\ flags = permissions_to_flags(q)
  BY <1>1, <1>3 DEF MInv, CallSoFar, Walking
<1>6. InPlace'
  BY <1>1 DEF InPlace, Reaches
<1>7. AskedMapped'
  <2>1. \A p : Canonical(p)' = Canonical(p) /\ permissions_to_flags(p)' = permissions_to_flags(p)
    BY <1>1 DEF Canonical, Span, Stride, Depth, permissions_to_flags
  <2>2. \A p \in Nat : Translate(p)' = IF p = a THEN [page |-> a, flags |-> flags] ELSE Translate(p)
    BY <1>2, MapPageEffect DEF MInv, InPlace
  <2>3. \A p \in DOMAIN asked' :
          /\ p \in Nat /\ Canonical(p) /\ asked'[p] \in Presets
          /\ Translate(p)' = [page |-> p, flags |-> permissions_to_flags(asked'[p])]
    <3> SUFFICES ASSUME NEW p \in DOMAIN asked'
                 PROVE  /\ p \in Nat /\ Canonical(p) /\ asked'[p] \in Presets
                        /\ Translate(p)' = [page |-> p, flags |-> permissions_to_flags(asked'[p])]
      OBVIOUS
    <3>1. CASE p = a
      BY <1>2, <1>4, <1>5, <2>2, <3>1
    <3>2. CASE p # a
      <4>1. p \in DOMAIN asked /\ asked'[p] = asked[p]
        BY <1>4, <3>2
      <4> QED BY <2>2, <3>2, <4>1 DEF MInv, AskedMapped
    <3> QED BY <3>1, <3>2
  <2> QED BY <2>1, <2>3 DEF AskedMapped
<1>8. CallSoFar'
  <2>1. PICK b : b = align_down(request.region.base_addr)
    OBVIOUS
  <2>2. /\ b <= addr /\ addr \in Nat /\ b \in Int
        /\ \A p \in Nat : b <= p * PageSize /\ p * PageSize < addr =>
                            p \in DOMAIN asked /\ asked[p] = q
    <3>1. request.region \in Regions
      BY <1>5 DEF MInv, CallSoFar
    <3>2. request.region.base_addr \in Nat
      BY <3>1, PageTablesAssumption
    <3> QED BY <1>3, <1>5, <2>1, <3>2, AlignDown DEF MInv, CallSoFar, TInv, LoopAligned
  <2>3. \A p \in Nat : b <= p * PageSize /\ p * PageSize < addr' =>
                         p \in DOMAIN asked' /\ asked'[p] = q
    <3> SUFFICES ASSUME NEW p \in Nat, b <= p * PageSize, p * PageSize < addr'
                 PROVE  p \in DOMAIN asked' /\ asked'[p] = q
      OBVIOUS
    <3>1. CASE p = a
      BY <1>4, <3>1
    <3>2. CASE p < a
      <4>1. p * PageSize < addr
        BY <1>2, <3>2, PageOrder
      <4> QED BY <1>4, <2>2, <3>2, <4>1
    <3>3. CASE p > a
      <4>1. a * PageSize + PageSize <= p * PageSize
        BY <3>3, PageOrder
      <4>2. p * PageSize \in Nat
        BY PageSizeType, Product
      <4> QED BY <1>1, <1>2, <2>2, <4>1, <4>2, PageSizeType
    <3> QED BY <3>1, <3>2, <3>3
  <2>4. b <= addr'
    BY <1>1, <2>2, PageSizeType
  <2>5. permissions_to_flags(q)' = permissions_to_flags(q)
    BY <1>1 DEF permissions_to_flags
  <2> QED BY <1>1, <1>3, <1>5, <2>1, <2>3, <2>4, <2>5
          DEF MInv, CallSoFar, permissions_to_flags
<1> QED BY <1>6, <1>7, <1>8 DEF MInv

LEMMA NextMInv == ASSUME CanonicalRegions, PoolFits PROVE MInv /\ [Next]_vars => MInv'
<1> SUFFICES ASSUME MInv, [Next]_vars PROVE MInv'
  OBVIOUS
<1>1. TInv'
  BY NextTInv DEF MInv
<1>2. CASE UNCHANGED vars
  <2>1. UNCHANGED <<arch, tables, addr, end, level, table_ptr, flags, outcome, request, asked>>
    BY <1>2 DEF vars, walk
  <2>2. InPlace'
    BY <2>1 DEF MInv, InPlace, Walking, Page, Reaches, Reaches1, Reaches2, Reaches3,
                Index, Stride, Depth
  <2> QED BY <1>1, <2>1, <2>2, SameCall, UnwrittenAsked DEF MInv
<1> QED BY <1>1, <1>2, SetupMInv, DescendMInv, AllocMInv, ExhaustedMInv, MapPageMInv, ReturnMInv
        DEF Next

LEMMA MInvAlways == ASSUME CanonicalRegions, PoolFits PROVE Spec => []MInv
BY InitMInv, NextMInv, PTL DEF Spec

\* The loop of setup_identity_mapping covers the pages of the region, and no
\* page but those.
LEMMA LoopCovers ==
  ASSUME NEW r \in Regions, ~Wraps(r), NEW p \in RegionPages(r)
  PROVE  /\ p \in Nat /\ align_down(r.base_addr) <= p * PageSize
         /\ p * PageSize < align_up((r.base_addr + r.length_bytes) % AddrMod)
<1> DEFINE b == r.base_addr
           n == r.base_addr + r.length_bytes
           x == n + PageSize - 1
<1>1. b \in Nat /\ r.length_bytes \in Nat
  BY PageTablesAssumption
<1>2. n \in Nat /\ x \in Nat /\ n < AddrMod /\ x < AddrMod
  BY <1>1, PageSizeType DEF Wraps
<1>3. p \in Nat /\ (p + 1) * PageSize > b /\ p * PageSize < n
  BY DEF RegionPages
<1>4. p * PageSize \in Nat /\ (p + 1) * PageSize = p * PageSize + PageSize
  BY <1>3, PageSizeType, Product
<1> HIDE DEF b
<1>5. align_down(b) <= p * PageSize
  <2>1. Page(b) \in Nat /\ align_down(b) = Page(b) * PageSize /\ align_down(b) <= b
    BY <1>1, AlignDown
  <2>2. p < Page(b) => p * PageSize + PageSize <= Page(b) * PageSize
    BY <1>3, <2>1, PageOrder
  <2>3. ~(p < Page(b))
    BY <1>1, <1>3, <1>4, <2>1, <2>2, PageSizeType
  <2>4. Page(b) <= p
    BY <1>3, <2>1, <2>3
  <2> QED BY <1>3, <2>1, <2>4, PageSizeType, Monotone
<1>6. n % AddrMod = n
  BY <1>2, PageSizeType, ModOfSmall
<1>7. x % AddrMod = x
  BY <1>2, PageSizeType, ModOfSmall
<1>8. align_up(n) = align_down(x)
  BY <1>7 DEF align_up
<1>9. align_down(x) \in Nat /\ x < align_down(x) + PageSize
  BY <1>2, AlignDown
<1>10. p * PageSize < align_down(x)
  BY <1>2, <1>3, <1>4, <1>9, PageSizeType
<1> QED BY <1>3, <1>5, <1>6, <1>8, <1>10 DEF b

\* What permissions_to_flags stores is what the hardware grants.
LEMMA FlagsGrant ==
  ASSUME arch \in Archs, NEW q \in Presets, NEW f, f = permissions_to_flags(q)
  PROVE  /\ Executable(f) = q.executable
         /\ Writable(f) = (q.writable \/ arch = "arm64")
<1>1. PICK w \in BOOLEAN, x \in BOOLEAN, d \in BOOLEAN :
         q = [writable |-> w, executable |-> x, device_uncached |-> d]
  BY DEF Presets
<1>2. q.writable = w /\ q.executable = x /\ q.device_uncached = d
  BY <1>1
<1>3. CASE arch = "x86_64"
  <2>1. f = permissions_to_flags_x86_64(q)
    BY <1>3 DEF permissions_to_flags
  <2>2. "WRITABLE" \in f <=> w
    BY <1>2, <2>1 DEF permissions_to_flags_x86_64
  <2>3. "NO_EXECUTE" \in f <=> ~x
    BY <1>2, <2>1 DEF permissions_to_flags_x86_64
  <2>4. (Executable(f) <=> x) /\ (Writable(f) <=> w)
    BY <1>3, <2>2, <2>3 DEF Executable, Writable
  <2>5. Executable(f) \in BOOLEAN /\ Writable(f) \in BOOLEAN
    BY <1>3 DEF Executable, Writable
  <2> QED BY <1>2, <1>3, <2>4, <2>5
<1>4. CASE arch = "arm64"
  <2>1. f = permissions_to_flags_arm64(q)
    BY <1>4 DEF permissions_to_flags
  <2>2. "PXN" \in f <=> ~x
    BY <1>2, <2>1 DEF permissions_to_flags_arm64, AP_RW_EL1
  <2>3. Executable(f) <=> x
    BY <1>4, <2>2 DEF Executable
  <2>4. Executable(f) \in BOOLEAN /\ Writable(f) \in BOOLEAN
    BY <1>4 DEF Executable, Writable
  <2>5. "AP_READ_ONLY" \notin f
    BY <2>1 DEF permissions_to_flags_arm64, AP_RW_EL1
  <2>6. Writable(f)
    BY <1>4, <2>5 DEF Writable
  <2> QED BY <1>2, <1>4, <2>3, <2>4, <2>6
<1>5. CASE arch = "riscv64"
  <2>1. f = permissions_to_flags_riscv64(q)
    BY <1>5 DEF permissions_to_flags
  <2>2. "WRITE" \in f <=> w
    BY <1>2, <2>1 DEF permissions_to_flags_riscv64
  <2>3. "EXECUTE" \in f <=> x
    BY <1>2, <2>1 DEF permissions_to_flags_riscv64
  <2>4. (Executable(f) <=> x) /\ (Writable(f) <=> w)
    BY <1>5, <2>2, <2>3 DEF Executable, Writable
  <2>5. Executable(f) \in BOOLEAN /\ Writable(f) \in BOOLEAN
    BY <1>5 DEF Executable, Writable
  <2> QED BY <1>2, <1>5, <2>4, <2>5
<1> QED BY <1>3, <1>4, <1>5, PageTablesAssumption

\* When setup_identity_mapping returns Ok every page of its region translates
\* to itself with the attributes asked for, and every page mapped by any call
\* keeps the access its last call asked for, writable without asking on arm64:
\* for every page size, pool and sequence of calls, if the regions are canonical
\* and an entry can name the tables.
THEOREM OkMapsTheRegion == ASSUME CanonicalRegions, PoolFits PROVE Spec => []OkMeansMapped
<1>1. MInv => OkMeansMapped
  <2> SUFFICES ASSUME MInv PROVE OkMeansMapped
    OBVIOUS
  <2>1. ASSUME outcome = "Ok", ~Wraps(request.region), NEW p \in RegionPages(request.region)
        PROVE  Translate(p) = [page |-> p, flags |-> permissions_to_flags(request.perms)]
    <3>1. /\ request.region \in Regions /\ addr >= end /\ addr \in Nat /\ end \in Nat
          /\ end = align_up((request.region.base_addr + request.region.length_bytes) % AddrMod)
      BY <2>1 DEF MInv, CallSoFar, TInv, LoopAligned
    <3>2. p \in Nat /\ align_down(request.region.base_addr) <= p * PageSize /\ p * PageSize < end
      BY <2>1, <3>1, LoopCovers
    <3>3. p * PageSize < addr
      BY <3>1, <3>2, PageSizeType, Product
    <3>4. p \in DOMAIN asked /\ asked[p] = request.perms
      BY <2>1, <3>2, <3>3 DEF MInv, CallSoFar
    <3> QED BY <3>4 DEF MInv, AskedMapped
  <2>2. ASSUME NEW p \in DOMAIN asked
        PROVE  /\ Executable(Translate(p).flags) = asked[p].executable
               /\ Writable(Translate(p).flags) = (asked[p].writable \/ arch = "arm64")
    <3>1. asked[p] \in Presets /\ Translate(p).flags = permissions_to_flags(asked[p])
      BY DEF MInv, AskedMapped
    <3>2. arch \in Archs
      BY DEF MInv, TInv, TypeOK
    <3> QED BY <3>1, <3>2, FlagsGrant
  <2> QED BY <2>1, <2>2 DEF OkMeansMapped
<1> QED BY <1>1, MInvAlways, PTL

----------------------------------------------------------------------------
(***************************************************************************)
(* setup_identity_mapping implements AddressSpace.                         *)
(***************************************************************************)
LEMMA AllPagesType == AllPages \subseteq Nat
BY DEF AllPages, RegionPages

\* The page being mapped is a page of the region: it is among the pages left,
\* and the lowest of them.
LEMMA LowestTodo ==
  ASSUME MInv, Walking, NEW a \in Nat, a = Page(addr)
  PROVE  /\ addr = a * PageSize /\ a \in TodoPages
         /\ \A q \in TodoPages : a <= q
<1>1. addr = a * PageSize /\ addr \in Nat /\ end \in Nat /\ addr < end /\ outcome = "running"
  BY DEF MInv, TInv, LoopAligned, Aligned, Walking
<1>2. PICK r \in Regions : r = request.region
  BY <1>1 DEF MInv, CallSoFar
<1>3. /\ align_down(r.base_addr) <= addr
      /\ end = align_up((r.base_addr + r.length_bytes) % AddrMod)
  BY <1>1, <1>2 DEF MInv, CallSoFar
<1>4. r.base_addr \in Nat /\ r.length_bytes \in Nat
  BY PageTablesAssumption
<1> DEFINE n == r.base_addr + r.length_bytes
           m == n % AddrMod
           x == m + PageSize - 1
           y == x % AddrMod
<1>5. n \in Nat /\ m \in Nat /\ m <= n
  <2>1. n \in Nat
    BY <1>4
  <2> HIDE DEF n
  <2>2. n \div AddrMod \in Nat /\ m \in 0..(AddrMod - 1) /\ n = (n \div AddrMod) * AddrMod + m
    BY <2>1, PageSizeType, DivMod
  <2>3. (n \div AddrMod) * AddrMod \in Nat
    BY <2>2, PageSizeType, Product
  <2> QED BY <2>1, <2>2, <2>3, PageSizeType
<1> HIDE DEF m, n
<1>6. x \in Nat /\ y \in Nat /\ y <= x
  <2>1. x \in Nat
    BY <1>5, PageSizeType
  <2> HIDE DEF x
  <2>2. x \div AddrMod \in Nat /\ y \in 0..(AddrMod - 1) /\ x = (x \div AddrMod) * AddrMod + y
    BY <2>1, PageSizeType, DivMod
  <2>3. (x \div AddrMod) * AddrMod \in Nat
    BY <2>2, PageSizeType, Product
  <2> QED BY <2>1, <2>2, <2>3, PageSizeType
<1>7. end <= y
  <2>1. end = align_down(y)
    BY <1>3 DEF align_up, m, n
  <2> HIDE DEF y
  <2> QED BY <1>6, <2>1, AlignDown
<1>8. addr < n
  <2>1. addr + PageSize <= end
    BY WalkedPage DEF MInv
  <2> HIDE DEF y
  <2> QED BY <1>1, <1>5, <1>6, <1>7, <2>1, PageSizeType
<1>9. (a + 1) * PageSize > r.base_addr
  <2>1. r.base_addr < align_down(r.base_addr) + PageSize /\ align_down(r.base_addr) \in Nat
    BY <1>4, AlignDown
  <2>2. (a + 1) * PageSize = a * PageSize + PageSize
    BY PageSizeType
  <2> QED BY <1>1, <1>3, <1>4, <2>1, <2>2, PageSizeType
<1>10. a \in RegionPages(r)
  <2>1. a \in 0..Page(AddrMod - 1)
    BY WalkedPage DEF MInv
  <2> QED BY <1>1, <1>8, <1>9, <2>1 DEF RegionPages, n
<1>11. a \in TodoPages
  BY <1>1, <1>10 DEF TodoPages, AllPages
<1>12. \A q \in TodoPages : a <= q
  <2> SUFFICES ASSUME NEW q \in TodoPages PROVE a <= q
    OBVIOUS
  <2>1. q \in Nat /\ addr <= q * PageSize
    BY <1>1, AllPagesType DEF TodoPages
  <2>2. q < a => q * PageSize < a * PageSize
    BY <2>1, PageOrder
  <2>3. q * PageSize \in Nat
    BY <2>1, PageSizeType, Product
  <2> QED BY <1>1, <2>1, <2>2, <2>3
<1> QED BY <1>1, <1>11, <1>12

\* Before the first call nothing is mapped.
LEMMA InitPromise == Init => Promise!Init
<1> SUFFICES ASSUME Init PROVE Promise!Init
  OBVIOUS
<1>1. \A v \in AllPages : Translate(v) = Unmapped
  <2> SUFFICES ASSUME NEW v \in AllPages PROVE Translate(v) = Unmapped
    OBVIOUS
  <2>1. v \in Nat
    BY AllPagesType
  <2>2. tables[Root][Index(v, 0)] = Empty
    BY <2>1, IndexTypes, RootType DEF Init
  <2> QED BY <2>2 DEF Translate, Follow
<1>2. TodoPages = {} /\ outcome = "none"
  BY DEF Init, TodoPages
<1> QED BY <1>1, <1>2 DEF Promise!Init

LEMMA SetupPromise ==
  ASSUME NEW region \in Regions, NEW perms \in Presets, setup_identity_mapping(region, perms)
  PROVE  Promise!Next
<1>1. outcome # "running" /\ UNCHANGED <<arch, tables>>
  BY DEF setup_identity_mapping
<1>2. \A v \in AllPages : Translate(v)' = Translate(v)
  BY <1>1, UnwrittenEffect
<1>3. [v \in AllPages |-> Translate(v)]' = [v \in AllPages |-> Translate(v)]
  BY <1>2
<1>4. CASE region.length_bytes = 0
  <2>1. outcome' = "Err"
    BY <1>4 DEF setup_identity_mapping
  <2>2. TodoPages' = TodoPages
    BY <1>1, <2>1 DEF TodoPages
  <2> QED BY <1>1, <1>3, <2>1, <2>2 DEF Promise!Next, Promise!Refuse
<1>5. CASE region.length_bytes # 0
  <2>1. outcome' = "running"
    BY <1>5 DEF setup_identity_mapping
  <2>2. TodoPages' \subseteq AllPages
    BY DEF TodoPages
  <2> QED BY <1>1, <1>3, <2>1, <2>2 DEF Promise!Next, Promise!Request
<1> QED BY <1>4, <1>5

LEMMA DescendPromise == ASSUME TInv', Descend PROVE UNCHANGED Promise!vars
<1>1. UNCHANGED <<arch, tables, addr, end, flags, outcome>>
  BY DEF Descend, GoDown, TInv, WalkStaysInTables
<1>2. \A v \in AllPages : Translate(v)' = Translate(v)
  BY <1>1, UnwrittenEffect
<1>3. TodoPages' = TodoPages
  BY <1>1 DEF TodoPages
<1> QED BY <1>1, <1>2, <1>3 DEF Promise!vars

LEMMA AllocPromise == ASSUME PoolFits, MInv, TInv', alloc_table PROVE UNCHANGED Promise!vars
<1>1. UNCHANGED <<addr, end, flags, outcome>>
  BY AllocGoesDown DEF alloc_table, MInv
<1>2. \A v \in AllPages : Translate(v)' = Translate(v)
  BY AllocEffect, AllPagesType DEF MInv
<1>3. TodoPages' = TodoPages
  BY <1>1 DEF TodoPages
<1> QED BY <1>1, <1>2, <1>3 DEF Promise!vars

LEMMA ExhaustedPromise == ASSUME MInv, PoolExhausted PROVE Promise!Fail
<1>1. UNCHANGED <<arch, tables, flags>> /\ Walking /\ outcome' = "Err"
  BY DEF PoolExhausted
<1>2. \A v \in AllPages : Translate(v)' = Translate(v)
  BY <1>1, UnwrittenEffect
<1>3. TodoPages # {}
  BY <1>1, LowestTodo, WalkPlace DEF MInv
<1>4. TodoPages' = {}
  BY <1>1 DEF TodoPages
<1> QED BY <1>1, <1>2, <1>3, <1>4 DEF Promise!Fail, Walking

LEMMA ReturnPromise == ASSUME MInv, Return PROVE Promise!Succeed
<1>1. /\ UNCHANGED <<arch, tables, addr, end, flags>> /\ addr >= end
      /\ outcome = "running" /\ outcome' = "Ok"
  BY DEF Return
<1>2. \A v \in AllPages : Translate(v)' = Translate(v)
  BY <1>1, UnwrittenEffect
<1>3. TodoPages = {}
  <2>1. \A p \in AllPages : p * PageSize \in Nat
    BY AllPagesType, PageSizeType, Product
  <2> QED BY <1>1, <2>1 DEF TodoPages, MInv, TInv, LoopAligned
<1>4. TodoPages' = {}
  BY <1>1 DEF TodoPages
<1> QED BY <1>1, <1>2, <1>3, <1>4 DEF Promise!Succeed

LEMMA MapPagePromise ==
  ASSUME CanonicalRegions, PoolFits, MInv, TInv', map_page
  PROVE  Promise!MapLowest
<1>1. UNCHANGED <<end, flags, outcome>> /\ Walking /\ addr' = addr + PageSize
  BY DEF map_page
<1>2. PICK a \in Nat : a = Page(addr) /\ Canonical(a) /\ addr = a * PageSize
  BY <1>1, WalkedCanonical DEF MInv
<1>3. a \in TodoPages /\ \A q \in TodoPages : a <= q
  BY <1>1, <1>2, LowestTodo
<1>4. \A v \in AllPages :
        Translate(v)' = IF v = a THEN [page |-> a, flags |-> flags] ELSE Translate(v)
  BY <1>2, AllPagesType, MapPageEffect DEF MInv, InPlace
<1>5. a \in AllPages
  BY <1>3 DEF TodoPages
<1>6. [v \in AllPages |-> Translate(v)]' =
        [[v \in AllPages |-> Translate(v)] EXCEPT ![a] = [page |-> a, flags |-> flags]]
  BY <1>4, <1>5
<1>7. TodoPages' = TodoPages \ {a}
  <2>1. \A q \in AllPages : addr' <= q * PageSize <=> addr <= q * PageSize /\ q # a
    <3> SUFFICES ASSUME NEW q \in AllPages
                 PROVE  addr' <= q * PageSize <=> addr <= q * PageSize /\ q # a
      OBVIOUS
    <3>1. q \in Nat /\ q * PageSize \in Nat /\ a * PageSize \in Nat
      BY AllPagesType, PageSizeType, Product
    <3>2. /\ a < q => a * PageSize + PageSize <= q * PageSize
          /\ q < a => q * PageSize < a * PageSize
      BY <3>1, PageOrder
    <3> QED BY <1>1, <1>2, <3>1, <3>2, PageSizeType
  <2>2. outcome = "running" /\ outcome' = "running" /\ end' = end
    BY <1>1 DEF Walking
  <2> QED BY <2>1, <2>2 DEF TodoPages
<1> QED BY <1>1, <1>3, <1>6, <1>7 DEF Promise!MapLowest, Walking

\* Every behaviour of setup_identity_mapping is one that AddressSpace allows,
\* for all regions of canonical addresses, whatever the pool: following or
\* allocating a table changes no translation, each leaf maps the lowest page
\* that is left and no other, and running out of tables takes nothing back.
THEOREM ImplementsAddressSpace ==
  ASSUME CanonicalRegions, PoolFits PROVE Spec => KeepsPromise
<1>1. MInv /\ TInv' /\ [Next]_vars => [Promise!Next]_(Promise!vars)
  <2> SUFFICES ASSUME MInv, TInv', [Next]_vars PROVE [Promise!Next]_(Promise!vars)
    OBVIOUS
  <2>1. CASE UNCHANGED vars
    <3>1. UNCHANGED <<arch, tables, addr, end, flags, outcome>>
      BY <2>1 DEF vars
    <3>2. \A v \in AllPages : Translate(v)' = Translate(v)
      BY <3>1, UnwrittenEffect
    <3>3. TodoPages' = TodoPages
      BY <3>1 DEF TodoPages
    <3> QED BY <3>1, <3>2, <3>3 DEF Promise!vars
  <2>2. CASE \E region \in Regions, perms \in Presets : setup_identity_mapping(region, perms)
    BY <2>2, SetupPromise
  <2>3. CASE Descend
    BY <2>3, DescendPromise
  <2>4. CASE alloc_table
    BY <2>4, AllocPromise
  <2>5. CASE PoolExhausted
    BY <2>5, ExhaustedPromise DEF Promise!Next
  <2>6. CASE map_page
    BY <2>6, MapPagePromise DEF Promise!Next
  <2>7. CASE Return
    BY <2>7, ReturnPromise DEF Promise!Next
  <2> QED BY <2>1, <2>2, <2>3, <2>4, <2>5, <2>6, <2>7 DEF Next
<1> QED BY <1>1, InitPromise, MInvAlways, TInvAlways, PTL DEF Spec, KeepsPromise, Promise!Spec
=============================================================================
