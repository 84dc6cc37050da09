----------------------------- MODULE BootProofs -----------------------------
(***************************************************************************)
(* Proofs about BootHandoff: the entry code, the device-tree walker, the   *)
(* UEFI descriptor loop, ACPI and what kernel_main is handed, for every    *)
(* set of harts, size of .bss, memory map, capacity, nesting of the device *)
(* tree and list of ACPI tables.                                           *)
(***************************************************************************)
EXTENDS BootHandoff, Arithmetic, FiniteSetTheorems, SequenceTheorems, TLAPS

(***************************************************************************)
(* The entry code.                                                         *)
(***************************************************************************)

\* Only hart 0 leaves the park, in EL1; the words below its cursor are zero
\* until rust runs, and rust's ever after.
EntryInv ==
  /\ EntryTypeOK
  /\ \A h \in Harts : at[h] \in {"zero", "rust"} => h = 0 /\ el = 1
  /\ \A h \in Harts : arch # "riscv64" /\ at[h] = "start" => h = 0
  /\ at[0] \in {"off", "start"} => cursor[0] = 0
  /\ at[0] = "zero" => \A w \in 0..(cursor[0] - 1) : bss[w] = "zero"
  /\ at[0] = "rust" => \A w \in Words : bss[w] = "live"

LEMMA EntryInvInit == EntryInit => EntryInv
<1> SUFFICES ASSUME EntryInit PROVE EntryInv
  OBVIOUS
<1>1. EntryTypeOK
  BY EntryAssumption DEF EntryInit, EntryTypeOK
<1> QED BY <1>1, EntryAssumption DEF EntryInit, EntryInv

LEMMA EntryInvNext == ASSUME EntryInv, EntryNext PROVE EntryInv'
<1>0. 0 \in Harts /\ BssWords \in Nat \ {0} /\ Harts \subseteq Nat
  BY EntryAssumption
<1>1. ASSUME NEW h \in Harts, park_secondary_hart(h) PROVE EntryInv'
  BY <1>0, <1>1 DEF EntryInv, EntryTypeOK, park_secondary_hart
<1>2. ASSUME NEW h \in Harts, drop_to_el1(h) PROVE EntryInv'
  BY <1>0, <1>2 DEF EntryInv, EntryTypeOK, drop_to_el1
<1>3. ASSUME NEW h \in Harts, set_stack(h) PROVE EntryInv'
  BY <1>0, <1>3 DEF EntryInv, EntryTypeOK, set_stack
<1>4. ASSUME NEW h \in Harts, zero_bss(h) PROVE EntryInv'
  <2>1. h = 0 /\ at[0] = "zero" /\ cursor[0] \in Words /\ cursor[0] + 1 \in 0..BssWords
    BY <1>0, <1>4 DEF EntryInv, EntryTypeOK, zero_bss, Words
  <2>2. /\ bss' = [bss EXCEPT ![cursor[0]] = "zero"]
        /\ cursor' = [cursor EXCEPT ![0] = cursor[0] + 1]
        /\ UNCHANGED <<arch, at, el>>
    BY <1>4, <2>1 DEF zero_bss
  <2>3. EntryTypeOK'
    BY <1>0, <1>4, <2>1, <2>2 DEF EntryInv, EntryTypeOK, zero_bss
  <2>4. \A w \in 0..(cursor'[0] - 1) : bss'[w] = "zero"
    <3>1. cursor'[0] = cursor[0] + 1 /\ cursor[0] \in Nat
      BY <1>0, <2>1, <2>2 DEF EntryInv, EntryTypeOK
    <3>2. \A w \in 0..cursor[0] : w \in Words
      BY <1>0, <2>1 DEF Words
    <3>3. \A w \in 0..cursor[0] : w = cursor[0] \/ w \in 0..(cursor[0] - 1)
      BY <3>1
    <3>4. \A w \in 0..cursor[0] : bss'[w] = "zero"
      BY <2>1, <2>2, <3>2, <3>3 DEF EntryInv, EntryTypeOK
    <3> QED BY <3>1, <3>4
  <2> QED BY <2>1, <2>2, <2>3, <2>4 DEF EntryInv
<1>5. ASSUME NEW h \in Harts, call_rust_entry(h) PROVE EntryInv'
  <2>1. h = 0 /\ at[0] = "zero" /\ cursor[0] = BssWords
    BY <1>5 DEF EntryInv, call_rust_entry
  <2>2. \A w \in Words : bss[w] = "zero"
    BY <1>0, <2>1 DEF EntryInv, Words
  <2>3. at' = [at EXCEPT ![0] = "rust"] /\ UNCHANGED <<arch, el, cursor, argument>>
        /\ bss' = [w \in Words |-> "live"]
    BY <1>5, <2>1, <2>2 DEF call_rust_entry
  <2>4. EntryTypeOK'
    BY <1>0, <2>3 DEF EntryInv, EntryTypeOK
  <2> QED BY <1>0, <2>1, <2>3, <2>4 DEF EntryInv, EntryTypeOK
<1> QED BY <1>1, <1>2, <1>3, <1>4, <1>5 DEF EntryNext

LEMMA EntryInvStutter == ASSUME EntryInv, UNCHANGED <<arch, entry>> PROVE EntryInv'
BY DEF EntryInv, EntryTypeOK, entry

LEMMA EntryInvContract == EntryInv => EntryContract
BY DEF EntryInv, EntryContract

\* The entry contract of the three _start routines by themselves.
THEOREM EntryKeepsContract == EntrySpec => []EntryContract
<1>1. EntryInv /\ [EntryNext]_<<arch, entry>> => EntryInv'
  BY EntryInvNext, EntryInvStutter
<1> QED BY <1>1, EntryInvInit, EntryInvContract, PTL DEF EntrySpec

----------------------------------------------------------------------------
(***************************************************************************)
(* The walker of the device tree.                                          *)
(***************************************************************************)
FdtNodes == [ name : {"memory", "plic", "other", "root"},
              compatible : {"none", "plic0", "iommu", "other"},
              reg : Regs \cup {None}, children : BOOLEAN ]

IommuOpen == \E i \in 1..Len(path) : path[i].compatible = "iommu"

\* While a node is open the walker tracks the root, which has no name; so it
\* has learnt of an IOMMU if a node that has closed, or is open, is one, and of
\* no memory and no PLIC.
FdtInv ==
  /\ Fdt!TypeOK
  /\ path \in Seq(FdtNodes)
  /\ depth = Len(path)
  /\ path = <<>> => current = "None" /\ current_depth = -1
  /\ path # <<>> => current = "PossibleIommu" /\ current_depth = 1 /\ path[1].name = "root"
  /\ result.iommu_present <=> fdt_seen \/ IommuOpen
  /\ result.memory_base = None /\ result.plic_base = None

LEMMA FdtConstants ==
  /\ Fdt!Names = {"memory", "plic", "other"} /\ Fdt!Root = "root" /\ Fdt!Values = Regs \cup {None}
  /\ Fdt!Results = [plic_base : Regs \cup {None}, iommu_present : BOOLEAN,
                    memory_base : Regs \cup {None}]
  /\ MaxDepth \in Nat \ {0} /\ None \notin Regs
BY BootAssumption DEF Fdt!Names, Fdt!Root, Fdt!Values, Fdt!Results

LEMMA FdtInvInit == Fdt!Init => FdtInv
<1> SUFFICES ASSUME Fdt!Init PROVE FdtInv
  OBVIOUS
<1>1. path = <<>> /\ depth = 0 /\ current = "None" /\ current_depth = -1 /\ fdt_pc = "header"
      /\ result = Fdt!Found /\ fdt_seen = FALSE
  BY DEF Fdt!Init
<1>2. Fdt!Found \in Fdt!Results /\ Fdt!Found.iommu_present = FALSE
      /\ Fdt!Found.memory_base = None /\ Fdt!Found.plic_base = None
  BY FdtConstants DEF Fdt!Found
<1>3. Len(path) = 0 /\ path \in Seq(FdtNodes)
  BY <1>1
<1>4. Fdt!TypeOK
  <2>1. fdt_seen \in BOOLEAN
    BY <1>1
  <2> QED BY <1>1, <1>2, <1>3, <2>1, FdtConstants DEF Fdt!TypeOK
<1> QED BY <1>1, <1>2, <1>3, <1>4 DEF FdtInv, IommuOpen

\* The open nodes are a sequence; empty is of length zero.
LEMMA NodeSeq ==
  ASSUME NEW s \in Seq(FdtNodes)
  PROVE  /\ Len(s) \in Nat /\ (s = <<>> <=> Len(s) = 0)
         /\ \A i \in 1..Len(s) : s[i] \in FdtNodes
BY EmptySeq, LenProperties, ElementOfSeq

LEMMA FdtPath ==
  ASSUME FdtInv
  PROVE  /\ path \in Seq(FdtNodes) /\ Len(path) \in 0..MaxDepth /\ depth = Len(path)
         /\ path = <<>> <=> Len(path) = 0
         /\ \A i \in 1..Len(path) : path[i] \in FdtNodes
<1>1. path \in Seq(FdtNodes) /\ Len(path) \in 0..MaxDepth /\ depth = Len(path)
  BY DEF FdtInv, Fdt!TypeOK
<1> QED BY <1>1, NodeSeq

\* What a node is, field by field.
LEMMA NodeFields ==
  ASSUME NEW x \in FdtNodes
  PROVE  /\ x.name \in {"memory", "plic", "other", "root"}
         /\ x.compatible \in {"none", "plic0", "iommu", "other"}
         /\ x.reg \in Regs \cup {None}
         /\ [x EXCEPT !.children = TRUE] \in FdtNodes
         /\ [x EXCEPT !.children = TRUE].name = x.name
         /\ [x EXCEPT !.children = TRUE].compatible = x.compatible
BY DEF FdtNodes

LEMMA FdtHeaderStep ==
  ASSUME FdtInv, Fdt!read_header \/ Fdt!Truncated
  PROVE  FdtInv'
<1>1. /\ UNCHANGED <<path, depth, current, current_depth, result, fdt_seen>>
      /\ fdt_pc' \in {"header", "walk", "done"}
  BY DEF Fdt!read_header, Fdt!Truncated, Fdt!walker
<1> QED BY <1>1 DEF FdtInv, Fdt!TypeOK, IommuOpen

LEMMA FdtBegin ==
  ASSUME FdtInv, NEW name \in {"memory", "plic", "other", "root"}, Fdt!BeginNode(name)
  PROVE  FdtInv'
<1>1. PICK node : node = Fdt!Node(name)
  OBVIOUS
<1>2. node \in FdtNodes /\ node.name = name /\ node.compatible = "none"
  BY <1>1 DEF Fdt!Node, FdtNodes
<1>3. /\ depth' = depth + 1 /\ UNCHANGED <<fdt_pc, result, fdt_seen>>
      /\ path \in Seq(FdtNodes) /\ Len(path) \in 0..MaxDepth /\ depth = Len(path)
  BY FdtPath DEF Fdt!BeginNode
<1>4. CASE path = <<>>
  <2>1. name = "root" /\ path' = Append(path, node)
    BY <1>1, <1>4, FdtConstants DEF Fdt!BeginNode
  <2>2. path' \in Seq(FdtNodes) /\ Len(path') = 1 /\ path'[1] = node /\ Len(path) = 0
    BY <1>2, <1>3, <1>4, <2>1, FdtPath, AppendProperties
  <2>3. current' = "PossibleIommu" /\ current_depth' = 1
    <3>1. current = "None" /\ depth = 0
      BY <1>3, <1>4, <2>2 DEF FdtInv
    <3> QED BY <2>1, <3>1 DEF Fdt!BeginNode
  <2>4. Fdt!TypeOK'
    <3>1. 1 \in 0..MaxDepth /\ 1 \in 1..MaxDepth /\ depth' = 1
      BY <1>3, <2>2, FdtConstants
    <3> QED BY <1>3, <2>2, <2>3, <3>1 DEF FdtInv, Fdt!TypeOK
  <2>5. ~IommuOpen /\ ~IommuOpen'
    <3>1. \A i \in 1..1 : i = 1
      OBVIOUS
    <3> QED BY <1>2, <2>2, <3>1 DEF IommuOpen
  <2>6. path' # <<>>
    BY <2>2, NodeSeq
  <2>7. depth' = Len(path')
    BY <1>3, <2>2
  <2> QED BY <1>2, <1>3, <2>1, <2>2, <2>3, <2>4, <2>5, <2>6, <2>7 DEF FdtInv
<1>5. CASE path # <<>>
  <2>1. PICK p : p = [path EXCEPT ![Len(path)].children = TRUE]
    OBVIOUS
  <2>2. path' = Append(p, node) /\ Len(path) < MaxDepth
    BY <1>1, <1>5, <2>1 DEF Fdt!BeginNode
  <2>3. Len(path) \in 1..MaxDepth /\ Len(path) \in Nat /\ Len(path) \in 1..Len(path)
    BY <1>3, <1>5, FdtPath, FdtConstants
  <2>4. /\ p \in Seq(FdtNodes) /\ Len(p) = Len(path)
        /\ \A i \in 1..Len(path) : p[i].name = path[i].name /\ p[i].compatible = path[i].compatible
    <3>1. PICK e : e = [path[Len(path)] EXCEPT !.children = TRUE]
      OBVIOUS
    <3>2. /\ e \in FdtNodes /\ e.name = path[Len(path)].name
          /\ e.compatible = path[Len(path)].compatible
      BY <2>3, <3>1, FdtPath, NodeFields
    <3>3. p = [path EXCEPT ![Len(path)] = e]
      BY <2>1, <3>1
    <3> QED BY <1>3, <2>3, <3>2, <3>3, ExceptSeq
  <2>5. /\ path' \in Seq(FdtNodes) /\ Len(path') = Len(path) + 1
        /\ \A i \in 1..Len(path) : path'[i] = p[i]
        /\ path'[Len(path) + 1] = node
    BY <1>2, <2>2, <2>4, AppendProperties
  <2>6. UNCHANGED <<current, current_depth>> /\ current = "PossibleIommu" /\ current_depth = 1
    BY <1>5 DEF FdtInv, Fdt!BeginNode
  <2>7. Fdt!TypeOK'
    <3>1. Len(path) + 1 \in 0..MaxDepth
      BY <2>2, <2>3, FdtConstants
    <3> QED BY <1>3, <2>5, <2>6, <3>1 DEF FdtInv, Fdt!TypeOK
  <2>8. IommuOpen' <=> IommuOpen
    <3>1. \A i \in 1..(Len(path) + 1) : i \in 1..Len(path) \/ i = Len(path) + 1
      BY <2>3
    <3>2. \A i \in 1..Len(path) : i \in 1..(Len(path) + 1)
      BY <2>3
    <3> QED BY <1>2, <2>4, <2>5, <3>1, <3>2 DEF IommuOpen
  <2>9. path'[1].name = "root" /\ path' # <<>>
    <3>1. 1 \in 1..Len(path) /\ Len(path') # 0
      BY <2>3, <2>5
    <3> QED BY <1>5, <2>4, <2>5, <3>1, NodeSeq DEF FdtInv
  <2>10. depth' = Len(path')
    BY <1>3, <2>5
  <2> QED BY <1>3, <2>5, <2>6, <2>7, <2>8, <2>9, <2>10 DEF FdtInv
<1> QED BY <1>4, <1>5

LEMMA FdtEnd == ASSUME FdtInv, Fdt!EndNode PROVE FdtInv'
<1>1. PICK n \in 1..MaxDepth : n = Len(path)
  <2>1. path # <<>>
    BY DEF Fdt!EndNode
  <2> QED BY <2>1, FdtPath, FdtConstants
<1>2. path \in Seq(FdtNodes) /\ depth = n /\ path # <<>> /\ path[n] \in FdtNodes
  <2>1. n \in 1..n
    BY <1>1, FdtConstants
  <2> QED BY <1>1, <2>1, FdtPath DEF Fdt!EndNode
<1>3. /\ path' = SubSeq(path, 1, n - 1) /\ depth' = n - 1 /\ result' = result
      /\ fdt_seen' = (fdt_seen \/ path[n].compatible = "iommu") /\ fdt_pc' \in {"walk", "done"}
      /\ n = 1 => current' = "None" /\ current_depth' = -1
      /\ n # 1 => UNCHANGED <<current, current_depth>>
  BY <1>1, <1>2 DEF Fdt!EndNode, Fdt!Top, FdtInv
<1>4. /\ path' \in Seq(FdtNodes) /\ Len(path') = n - 1
      /\ \A i \in 1..(n - 1) : path'[i] = path[i]
  <2>1. \A i \in 1..(n - 1) : path[i] \in FdtNodes
    BY <1>1, <1>2
  <2>2. /\ SubSeq(path, 1, n - 1) \in Seq(FdtNodes)
        /\ Len(SubSeq(path, 1, n - 1)) = IF 1 <= n - 1 THEN n - 1 - 1 + 1 ELSE 0
        /\ \A i \in 1..(n - 1 - 1 + 1) : SubSeq(path, 1, n - 1)[i] = path[1 + i - 1]
    BY <1>1, <2>1, SubSeqProperties
  <2>3. \A i \in 1..(n - 1) : i \in 1..(n - 1 - 1 + 1) /\ 1 + i - 1 = i
    BY <1>1
  <2> QED BY <1>1, <1>3, <2>2, <2>3
<1>5. fdt_seen' \in BOOLEAN
  BY <1>3
<1>6. Fdt!TypeOK'
  <2>1. n - 1 \in 0..MaxDepth
    BY <1>1, FdtConstants
  <2> QED BY <1>3, <1>4, <1>5, <2>1 DEF FdtInv, Fdt!TypeOK
<1>7. IommuOpen <=> IommuOpen' \/ path[n].compatible = "iommu"
  <2>1. \A i \in 1..n : i \in 1..(n - 1) \/ i = n
    BY <1>1
  <2>2. (\A i \in 1..(n - 1) : i \in 1..n) /\ n \in 1..n
    BY <1>1
  <2> QED BY <1>1, <1>4, <2>1, <2>2 DEF IommuOpen
<1>8. n = 1 => path' = <<>>
  BY <1>4
<1>9. n # 1 => path' # <<>> /\ path'[1] = path[1]
  BY <1>1, <1>4
<1>10. result'.iommu_present <=> fdt_seen' \/ IommuOpen'
  BY <1>3, <1>7 DEF FdtInv
<1>11. depth' = Len(path')
  BY <1>3, <1>4
<1>12. path' = <<>> => n = 1
  BY <1>9
<1> QED BY <1>2, <1>3, <1>4, <1>6, <1>8, <1>9, <1>10, <1>11, <1>12 DEF FdtInv

LEMMA FdtReg ==
  ASSUME FdtInv, NEW base \in Regs, Fdt!PropReg(base)
  PROVE  FdtInv'
<1>1. PICK n \in 1..MaxDepth : n = Len(path)
  <2>1. Len(path) > 1
    BY DEF Fdt!PropReg
  <2> QED BY <2>1, FdtPath, FdtConstants
<1>2. /\ path' = [path EXCEPT ![n].reg = base] /\ n > 1
      /\ UNCHANGED <<fdt_pc, depth, current, current_depth, fdt_seen>>
  BY <1>1 DEF Fdt!PropReg, Fdt!walker
<1>3. path \in Seq(FdtNodes) /\ path # <<>> /\ current = "PossibleIommu"
  <2>1. path # <<>>
    BY <1>1, <1>2, FdtPath
  <2> QED BY <2>1 DEF FdtInv
<1>4. result' = result
  BY <1>3 DEF Fdt!PropReg
<1>5. PICK e : e = [path[n] EXCEPT !.reg = base]
  OBVIOUS
<1>0. n \in Nat /\ n \in 1..n /\ 1 \in 1..n
  BY <1>1, FdtConstants
<1>6. /\ path' \in Seq(FdtNodes) /\ Len(path') = n
      /\ \A i \in 1..n : path'[i].name = path[i].name /\ path'[i].compatible = path[i].compatible
  <2>0. path[n] \in FdtNodes
    BY <1>0, <1>1, FdtPath
  <2>1. /\ e \in FdtNodes /\ e.name = path[n].name /\ e.compatible = path[n].compatible
    BY <1>5, <2>0 DEF FdtNodes
  <2>2. path' = [path EXCEPT ![n] = e]
    BY <1>2, <1>5
  <2> QED BY <1>0, <1>1, <1>3, <2>1, <2>2, ExceptSeq
<1>7. path' # <<>> /\ path'[1].name = "root"
  BY <1>0, <1>3, <1>6, NodeSeq DEF FdtInv
<1>8. Fdt!TypeOK'
  BY <1>1, <1>2, <1>4, <1>6 DEF FdtInv, Fdt!TypeOK
<1>9. IommuOpen' <=> IommuOpen
  BY <1>1, <1>6 DEF IommuOpen
<1> QED BY <1>1, <1>2, <1>3, <1>4, <1>6, <1>7, <1>8, <1>9 DEF FdtInv

LEMMA FdtCompatible ==
  ASSUME FdtInv, NEW value \in {"plic0", "iommu", "other"}, Fdt!PropCompatible(value)
  PROVE  FdtInv'
<1>1. PICK n \in 1..MaxDepth : n = Len(path)
  <2>1. path # <<>>
    BY DEF Fdt!PropCompatible
  <2> QED BY <2>1, FdtPath, FdtConstants
<1>2. /\ path' = [path EXCEPT ![n].compatible = value] /\ path[n].compatible = "none"
      /\ UNCHANGED <<fdt_pc, depth, current, current_depth, fdt_seen>>
  BY <1>1 DEF Fdt!PropCompatible, Fdt!walker, Fdt!Top
<1>3. path \in Seq(FdtNodes) /\ path # <<>> /\ current = "PossibleIommu"
  BY DEF FdtInv, Fdt!PropCompatible
<1>4. result' = IF value = "iommu" THEN [result EXCEPT !.iommu_present = TRUE] ELSE result
  BY <1>3 DEF Fdt!PropCompatible
<1>5. PICK e : e = [path[n] EXCEPT !.compatible = value]
  OBVIOUS
<1>0. n \in Nat /\ n \in 1..n /\ 1 \in 1..n
  BY <1>1, FdtConstants
<1>6. /\ path' \in Seq(FdtNodes) /\ Len(path') = n
      /\ \A i \in 1..n : path'[i].name = path[i].name
      /\ \A i \in 1..n : path'[i].compatible = IF i = n THEN value ELSE path[i].compatible
  <2>0. path[n] \in FdtNodes
    BY <1>0, <1>1, FdtPath
  <2>1. /\ e \in FdtNodes /\ e.name = path[n].name /\ e.compatible = value
    BY <1>5, <2>0 DEF FdtNodes
  <2>2. path' = [path EXCEPT ![n] = e]
    BY <1>2, <1>5
  <2> QED BY <1>0, <1>1, <1>3, <2>1, <2>2, ExceptSeq
<1>7. path' # <<>> /\ path'[1].name = "root"
  BY <1>0, <1>3, <1>6, NodeSeq DEF FdtInv
<1>8. result \in Fdt!Results /\ result' \in Fdt!Results
  BY <1>4, FdtConstants DEF FdtInv, Fdt!TypeOK
<1>9. Fdt!TypeOK'
  BY <1>1, <1>2, <1>6, <1>8 DEF FdtInv, Fdt!TypeOK
<1>10. IommuOpen' <=> IommuOpen \/ value = "iommu"
  <2>1. n \in 1..n
    BY <1>0
  <2> QED BY <1>1, <1>2, <1>6, <2>1 DEF IommuOpen
<1>11. result'.iommu_present <=> fdt_seen' \/ IommuOpen'
  BY <1>2, <1>4, <1>8, <1>10, FdtConstants DEF FdtInv
<1>12. result'.memory_base = None /\ result'.plic_base = None
  BY <1>4, <1>8, FdtConstants DEF FdtInv
<1> QED BY <1>1, <1>2, <1>3, <1>6, <1>7, <1>9, <1>11, <1>12 DEF FdtInv

LEMMA FdtInvNext == ASSUME FdtInv, Fdt!walk_device_tree PROVE FdtInv'
<1>1. Fdt!Names \cup {Fdt!Root} = {"memory", "plic", "other", "root"}
  BY FdtConstants
<1> QED BY <1>1, FdtHeaderStep, FdtBegin, FdtEnd, FdtReg, FdtCompatible DEF Fdt!walk_device_tree

LEMMA FdtInvStutter == ASSUME FdtInv, UNCHANGED fdt PROVE FdtInv'
BY DEF FdtInv, fdt, Fdt!TypeOK, IommuOpen

LEMMA FdtInvTracks == FdtInv => TracksOpenNode /\ Fdt!IommuFound
<1> SUFFICES ASSUME FdtInv PROVE TracksOpenNode /\ Fdt!IommuFound
  OBVIOUS
<1>1. CASE path = <<>>
  <2>1. ~IommuOpen
    BY <1>1 DEF IommuOpen
  <2>2. result.iommu_present \in BOOLEAN /\ fdt_seen \in BOOLEAN
    BY FdtConstants DEF FdtInv, Fdt!TypeOK
  <2>3. result.iommu_present = fdt_seen
    BY <2>1, <2>2 DEF FdtInv
  <2> QED BY <1>1, <2>3 DEF FdtInv, TracksOpenNode, Fdt!TracksOpenNode, Fdt!IommuFound
<1>2. CASE path # <<>>
  <2>1. 1 \in 1..Len(path)
    BY <1>2, FdtPath
  <2> QED BY <1>2, <2>1 DEF FdtInv, TracksOpenNode, Fdt!TracksOpenNode, Fdt!IommuFound
<1> QED BY <1>1, <1>2

----------------------------------------------------------------------------
(***************************************************************************)
(* The descriptors, ACPI, Memory and the handoff.                          *)
(***************************************************************************)
Before == {"entry", "map", "fdt"}
After == {"manifest", "boot_info", "kernel", "halted"}
GivenBy == Bases \cup {None}

\* The boot path of each architecture.
PcInv ==
  /\ pc \in Before \cup {"xsdt", "madt"} \cup After
  /\ pc \in {"map", "xsdt", "madt"} => arch # "riscv64"
  /\ pc = "fdt" => arch = "riscv64"

\* DescriptorIter has taken as many strides as descriptors were read.
ReadsInv ==
  /\ blob \in [map_size : Nat, descriptor_size : Nat] /\ blob.descriptor_size \in Strides
  /\ reads \in Seq([at : Nat, ty : Types])
  /\ iter.offset = Len(reads) * blob.descriptor_size
  /\ iter.remaining = blob.map_size - iter.offset
  /\ iter.offset <= blob.map_size
  /\ Len(reads) > 0 => blob.descriptor_size >= StructSize
  /\ \A i \in 1..Len(reads) : /\ reads[i].at + StructSize <= blob.map_size
                              /\ reads[i].at = (i - 1) * blob.descriptor_size

\* As many regions as the map has descriptors, up to the capacity.
Expected ==
  IF blob.descriptor_size < StructSize THEN 0
  ELSE Min({MaxRegions, blob.map_size \div blob.descriptor_size})

\* A region for each descriptor; all of them once the loop is left.
RegionsInv ==
  /\ regions \in Seq(Region) /\ Len(regions) <= MaxRegions
  /\ Len(regions) <= Len(reads)
  /\ pc \in Before => Len(regions) = Len(reads)
  /\ \A i \in 1..Len(regions) : /\ regions[i].page = i - 1 /\ regions[i].length = 1
                                /\ regions[i].kind = classify_uefi_type(reads[i].ty)
  /\ arch # "riscv64" /\ pc \notin Before => Len(regions) = Expected

\* What is kept of the ACPI tables is what they said: x86_64 stops at the DMAR,
\* arm64 stops in each MADT at its distributor.
AcpiInv ==
  /\ tables \in 0..MaxTables
  /\ madt \in [left : 0..MadtSize, base : GivenBy, length : 0..2]
  /\ acpi \in [iommu : BOOLEAN, gicd : GivenBy]
  /\ seen \in [signatures : SUBSET {"DMAR", "APIC", "IORT", "other"}, gicd : GivenBy]
  /\ pc \in Before => ~acpi.iommu
  /\ arch = "x86_64" => /\ acpi.iommu <=> "DMAR" \in seen.signatures
                        /\ acpi.iommu => tables = 0
  /\ arch = "arm64" => (acpi.iommu <=> "IORT" \in seen.signatures)
  /\ acpi.gicd = seen.gicd
  /\ acpi.gicd # None => "APIC" \in seen.signatures /\ (pc = "madt" => madt.left = 0)
  /\ pc = "madt" => "APIC" \in seen.signatures

\* Memory: on a UEFI machine the regions of the map with what ACPI said, on
\* riscv64 the defaults.
MemoryInv ==
  /\ memory.regions \in Seq(Region) /\ memory.iommu_present \in BOOLEAN
  /\ memory.base \in Bases \cup Regs \cup {DefaultGicd, DefaultPlic, None}
  /\ pc \in After =>
       /\ \A i \in 1..Len(memory.regions) :
            memory.regions[i].behind_iommu = memory.iommu_present
       /\ arch # "riscv64" =>
            /\ memory.iommu_present = acpi.iommu
            /\ memory.base = IF acpi.gicd = None THEN DefaultGicd ELSE acpi.gicd
            /\ Len(memory.regions) = Len(regions)
            /\ \A i \in 1..Len(regions) : /\ memory.regions[i].page = regions[i].page
                                          /\ memory.regions[i].length = regions[i].length
                                          /\ memory.regions[i].kind = regions[i].kind
       /\ arch = "riscv64" =>
            /\ memory.base = DefaultPlic /\ Len(memory.regions) = 1
            /\ memory.regions[1].page = DefaultMemory.page
            /\ memory.regions[1].length = DefaultMemory.length

\* The manifest and BootInfo, once they are built.
HandInv ==
  /\ manifest.regions \in Seq(Region) /\ cpu_iommu \in BOOLEAN
  /\ pc \in {"boot_info", "kernel", "halted"} =>
       /\ cpu_iommu = memory.iommu_present /\ manifest.iommu = memory.iommu_present
       /\ Len(manifest.regions) <= Len(memory.regions)
       /\ Len(memory.regions) <= MaxRegions => Len(manifest.regions) = Len(memory.regions)
       /\ \A i \in 1..Len(manifest.regions) : manifest.regions[i] = memory.regions[i]
  /\ pc \in {"kernel", "halted"} => boot_info.kernel_image = <<ImageStart, ImageEnd>>

BootInv ==
  EntryInv /\ FdtInv /\ PcInv /\ ReadsInv /\ RegionsInv /\ AcpiInv /\ MemoryInv /\ HandInv

LEMMA BootConstants ==
  /\ StructSize \in Nat \ {0} /\ MaxMapSize \in Nat /\ MaxRegions \in Nat
  /\ MaxTables \in Nat /\ MadtSize \in Nat /\ Strides \subseteq Nat /\ Types \subseteq Nat
  /\ Regs \cup {DefaultMemory, DefaultPlic} \subseteq [page : Nat, length : Nat]
  /\ None \notin Bases /\ None \notin Regs
  /\ ImageStart \in Nat /\ ImageEnd \in Nat /\ StackStart \in Nat /\ StackEnd \in Nat
  /\ VmaBase \in Nat /\ ImageStart <= ImageEnd /\ StackStart <= StackEnd
<1>1. /\ StructSize \in Nat /\ MaxMapSize \in Nat /\ MaxRegions \in Nat
      /\ MaxTables \in Nat /\ MadtSize \in Nat
      /\ ImageStart \in Nat /\ ImageEnd \in Nat /\ StackStart \in Nat /\ StackEnd \in Nat
      /\ VmaBase \in Nat
  BY BootAssumption
<1> QED BY <1>1, BootAssumption

\* Frames: what each part of the invariant depends on.
LEMMA ReadsFrame == ASSUME ReadsInv, UNCHANGED <<blob, iter, reads>> PROVE ReadsInv'
BY DEF ReadsInv

LEMMA RegionsFrame ==
  ASSUME RegionsInv, UNCHANGED <<arch, blob, regions, reads>>,
         arch = "riscv64" \/ (pc \in Before <=> pc' \in Before), pc' \in Before => pc \in Before
  PROVE  RegionsInv'
<1>1. Expected' = Expected
  BY DEF Expected
<1> QED BY <1>1 DEF RegionsInv, Before

LEMMA AcpiFrame ==
  ASSUME AcpiInv, UNCHANGED <<arch, tables, madt, acpi, seen>>,
         pc' \in Before => pc \in Before, pc' = "madt" => pc = "madt"
  PROVE  AcpiInv'
BY DEF AcpiInv, Before

LEMMA MemoryFrame ==
  ASSUME MemoryInv, UNCHANGED <<arch, memory>>, pc' \in After => pc \in After,
         pc \in After => UNCHANGED <<acpi, regions>>
  PROVE  MemoryInv'
BY DEF MemoryInv, After

LEMMA HandFrame ==
  ASSUME HandInv, UNCHANGED <<manifest, cpu_iommu>>,
         pc \in {"boot_info", "kernel", "halted"} => UNCHANGED memory,
         pc' \in {"boot_info", "kernel", "halted"} => pc \in {"boot_info", "kernel", "halted"},
         pc' \in {"kernel", "halted"} => pc \in {"kernel", "halted"} /\ UNCHANGED boot_info
  PROVE  HandInv'
BY DEF HandInv

LEMMA ClassifyType ==
  ASSUME NEW ty
  PROVE  /\ classify_uefi_type(ty) \in Kinds
         /\ classify_uefi_type(ty) = "Usable" <=> ty \in {1, 2, 3, 4, 7}
         /\ classify_uefi_type(ty) = "Mmio" <=> ty \in {11, 12}
<1>1. ty \in {1, 2, 3, 4, 7} => classify_uefi_type(ty) = "Usable"
  BY DEF classify_uefi_type
<1>2. ty = 9 => classify_uefi_type(ty) = "AcpiReclaimable"
  BY DEF classify_uefi_type
<1>3. ty = 10 => classify_uefi_type(ty) = "AcpiNvs"
  BY DEF classify_uefi_type
<1>4. ty \in {11, 12} => classify_uefi_type(ty) = "Mmio"
  BY DEF classify_uefi_type
<1>5. ty \notin {1, 2, 3, 4, 7, 9, 10, 11, 12} => classify_uefi_type(ty) = "Reserved"
  BY DEF classify_uefi_type
<1> QED BY <1>1, <1>2, <1>3, <1>4, <1>5 DEF Kinds

LEMMA MinOfTwo ==
  ASSUME NEW a \in Int, NEW b \in Int
  PROVE  Min({a, b}) = IF a <= b THEN a ELSE b
<1>1. \E x \in {a, b} : \A y \in {a, b} : x <= y
  OBVIOUS
<1> QED BY <1>1 DEF Min

LEMMA MaxOfTwo ==
  ASSUME NEW a \in Int, NEW b \in Int
  PROVE  Max({a, b}) = IF a >= b THEN a ELSE b
<1>1. \E x \in {a, b} : \A y \in {a, b} : x >= y
  OBVIOUS
<1> QED BY <1>1 DEF Max

\* How often a stride fits.
LEMMA Fits ==
  ASSUME NEW m \in Nat, NEW d \in Nat \ {0}, NEW n \in Nat, n * d <= m
  PROVE  /\ m \div d \in Nat /\ n <= m \div d
         /\ m - n * d < d => m \div d = n
<1> DEFINE q == m \div d
           r == m % d
<1>1. q \in Nat /\ r \in 0..(d - 1) /\ m = q * d + r
  BY SMT
<1> HIDE DEF q, r
<1>2. ASSUME q < n PROVE FALSE
  <2>1. (q + 1) * d <= n * d /\ (q + 1) * d \in Nat /\ n * d \in Nat
    BY <1>1, <1>2, Multiples
  <2>2. (q + 1) * d = q * d + d /\ q * d \in Nat
    BY <1>1, Multiples
  <2> QED BY <1>1, <2>1, <2>2
<1>3. n <= q
  BY <1>1, <1>2
<1>4. ASSUME m - n * d < d, n < q PROVE FALSE
  <2>1. (n + 1) * d <= q * d /\ (n + 1) * d \in Nat /\ q * d \in Nat
    BY <1>1, <1>4, Multiples
  <2>2. (n + 1) * d = n * d + d /\ n * d \in Nat
    BY Multiples
  <2> QED BY <1>1, <1>4, <2>1, <2>2
<1>5. m - n * d < d => q = n
  BY <1>1, <1>3, <1>4
<1> QED BY <1>1, <1>3, <1>5 DEF q

LEMMA InitBootInv == Init => BootInv
<1> SUFFICES ASSUME Init PROVE BootInv
  OBVIOUS
<1>1. EntryInv /\ FdtInv
  BY EntryInvInit, FdtInvInit DEF Init
<1>2. PcInv
  BY DEF Init, PcInv, Before
<1>3. /\ reads = <<>> /\ regions = <<>> /\ pc = "entry"
      /\ iter = [offset |-> 0, remaining |-> blob.map_size]
  BY DEF Init
<1>4. blob.map_size \in Nat /\ blob.descriptor_size \in Strides /\ blob.descriptor_size \in Nat
      /\ blob \in [map_size : Nat, descriptor_size : Nat]
  <2>1. blob \in [map_size : 0..MaxMapSize, descriptor_size : Strides]
    BY DEF Init
  <2>2. blob.map_size \in 0..MaxMapSize /\ blob.descriptor_size \in Strides
        /\ blob = [map_size |-> blob.map_size, descriptor_size |-> blob.descriptor_size]
    BY <2>1
  <2>3. blob.map_size \in Nat /\ blob.descriptor_size \in Nat
    BY <2>2, BootConstants
  <2> QED BY <2>2, <2>3
<1>5. Len(reads) = 0 /\ Len(regions) = 0
  BY <1>3
<1>6. ReadsInv
  <2>1. 0 * blob.descriptor_size = 0
    BY <1>4
  <2> QED BY <1>3, <1>4, <1>5, <2>1 DEF ReadsInv
<1>7. RegionsInv
  BY <1>3, <1>5, BootConstants DEF RegionsInv, Before
<1>8. AcpiInv
  BY <1>3, BootConstants DEF Init, AcpiInv, GivenBy
<1>9. MemoryInv
  <2>1. memory.regions = <<>> /\ memory.iommu_present = FALSE /\ memory.base = None
    BY DEF Init
  <2>2. memory.regions \in Seq(Region)
    BY <2>1, EmptySeq
  <2>3. pc \notin After /\ FALSE \in BOOLEAN
    BY <1>3 DEF After
  <2> QED BY <2>1, <2>2, <2>3 DEF MemoryInv
<1>10. HandInv
  <2>1. manifest.regions = <<>> /\ cpu_iommu = FALSE
    BY DEF Init
  <2>2. manifest.regions \in Seq(Region)
    BY <2>1, EmptySeq
  <2> QED BY <1>3, <2>1, <2>2 DEF HandInv
<1> QED BY <1>1, <1>2, <1>6, <1>7, <1>8, <1>9, <1>10 DEF BootInv

LEMMA StartBootInv == ASSUME BootInv, Start PROVE BootInv'
<1>1. UNCHANGED <<blob, pc, iter, regions, reads, tables, madt, acpi, seen, fdt, memory,
                  cpu_iommu, manifest, boot_info>> /\ arch' = arch
  BY DEF Start, map, walk, built, EntryNext, park_secondary_hart, drop_to_el1, set_stack,
         zero_bss, call_rust_entry
<1>2. EntryInv'
  BY EntryInvNext DEF BootInv, Start
<1>3. FdtInv' /\ PcInv'
  BY <1>1, FdtInvStutter DEF BootInv, PcInv
<1> QED BY <1>1, <1>2, <1>3, ReadsFrame, RegionsFrame, AcpiFrame, MemoryFrame, HandFrame
        DEF BootInv

\* The steps that only move on.
LEMMA MovesOn ==
  ASSUME BootInv,
         UNCHANGED <<arch, entry, fdt, blob, iter, regions, reads, tables, madt, acpi, seen,
                     memory, cpu_iommu, manifest, boot_info>>,
         \/ pc = "entry" /\ pc' = IF arch = "riscv64" THEN "fdt" ELSE "map"
         \/ pc = "madt" /\ pc' = "xsdt"
         \/ pc = "kernel" /\ pc' = "halted"
         \/ pc' = pc
  PROVE  BootInv'
<1>1. EntryInv' /\ FdtInv'
  BY EntryInvStutter, FdtInvStutter DEF BootInv
<1>2. PcInv'
  BY DEF BootInv, PcInv, Before, After
<1>3. RegionsInv'
  BY RegionsFrame DEF BootInv, Before
<1>4. AcpiInv'
  BY AcpiFrame DEF BootInv, Before
<1>5. MemoryInv' /\ HandInv'
  BY MemoryFrame, HandFrame DEF BootInv, After
<1> QED BY <1>1, <1>2, <1>3, <1>4, <1>5, ReadsFrame DEF BootInv

LEMMA SilentBootInv ==
  ASSUME BootInv, rust_entry \/ madt_ends \/ kernel_main \/ UNCHANGED vars
  PROVE  BootInv'
BY MovesOn DEF rust_entry, madt_ends, kernel_main, vars, map, walk, built

LEMMA WalkBootInv == ASSUME BootInv, walk_device_tree PROVE BootInv'
<1>1. /\ UNCHANGED <<arch, entry, blob, pc, iter, regions, reads, tables, madt, acpi, seen,
                     memory, cpu_iommu, manifest, boot_info>>
  BY DEF walk_device_tree, map, walk, built
<1>2. FdtInv'
  BY FdtInvNext DEF BootInv, walk_device_tree
<1>3. EntryInv' /\ PcInv'
  BY <1>1, EntryInvStutter DEF BootInv, PcInv
<1> QED BY <1>1, <1>2, <1>3, ReadsFrame, RegionsFrame, AcpiFrame, MemoryFrame, HandFrame
        DEF BootInv

LEMMA DeviceTreeBootInv == ASSUME BootInv, from_device_tree PROVE BootInv'
<1>1. PICK dt : dt = Fdt!from_device_tree(DefaultMemory, DefaultPlic)
  OBVIOUS
<1>2. /\ pc = "fdt" /\ pc' = "manifest"
      /\ memory' = [ regions |-> << [page |-> dt.memory.page, length |-> dt.memory.length,
                                     kind |-> "Usable", behind_iommu |-> dt.behind_iommu] >>,
                     iommu_present |-> dt.behind_iommu, base |-> dt.plic_base ]
      /\ UNCHANGED <<arch, entry, fdt, blob, iter, regions, reads, tables, madt, acpi, seen,
                     cpu_iommu, manifest, boot_info>>
  BY <1>1 DEF from_device_tree, map, walk
<1>3. arch = "riscv64"
  BY <1>2 DEF BootInv, PcInv
<1>4. EntryInv' /\ FdtInv' /\ ReadsInv'
  BY <1>2, EntryInvStutter, FdtInvStutter, ReadsFrame DEF BootInv
<1>5. PcInv'
  BY <1>2 DEF PcInv, After
<1>6. RegionsInv' /\ AcpiInv' /\ HandInv'
  BY <1>2, <1>3, RegionsFrame, AcpiFrame, HandFrame DEF BootInv, Before
<1>7. MemoryInv'
  <2>1. result \in [plic_base : Regs \cup {None}, iommu_present : BOOLEAN,
                    memory_base : Regs \cup {None}]
    BY FdtConstants DEF BootInv, FdtInv, Fdt!TypeOK
  <2>2. /\ dt.memory \in [page : Nat, length : Nat] /\ dt.behind_iommu \in BOOLEAN
        /\ dt.plic_base \in Regs \cup {DefaultPlic}
    BY <1>1, <2>1, BootConstants DEF Fdt!from_device_tree, Fdt!unwrap_or
  <2>3. PICK r : r = [page |-> dt.memory.page, length |-> dt.memory.length,
                      kind |-> "Usable", behind_iommu |-> dt.behind_iommu]
    OBVIOUS
  <2>4. r \in Region /\ r.behind_iommu = dt.behind_iommu
    BY <2>2, <2>3 DEF Region, Kinds
  <2>5. <<r>> \in Seq(Region) /\ Len(<<r>>) = 1 /\ <<r>>[1] = r
    BY <2>4
  <2>6. memory'.regions = <<r>> /\ memory'.iommu_present = dt.behind_iommu
        /\ memory'.base = dt.plic_base
    BY <1>2, <2>3
  <2>7. \A i \in 1..1 : i = 1
    OBVIOUS
  <2>8. dt.memory = DefaultMemory /\ dt.plic_base = DefaultPlic
    <3>1. result.memory_base = None /\ result.plic_base = None
      BY DEF BootInv, FdtInv
    <3> QED BY <1>1, <3>1 DEF Fdt!from_device_tree, Fdt!unwrap_or
  <2>9. r.page = DefaultMemory.page /\ r.length = DefaultMemory.length
    BY <2>3, <2>8
  <2> QED BY <1>2, <1>3, <2>2, <2>4, <2>5, <2>6, <2>7, <2>8, <2>9 DEF MemoryInv
<1> QED BY <1>4, <1>5, <1>6, <1>7 DEF BootInv

\* DescriptorIter::next that returns a descriptor.
LEMMA AdvanceReads ==
  ASSUME ReadsInv, NEW ty \in Types, More, Advance(ty), UNCHANGED blob
  PROVE  /\ ReadsInv' /\ Len(reads') = Len(reads) + 1
         /\ \A i \in 1..Len(reads) : reads'[i] = reads[i]
         /\ reads'[Len(reads) + 1].ty = ty
<1>1. PICK d \in Nat : d = blob.descriptor_size
  BY DEF ReadsInv
<1>2. PICK m \in Nat : m = blob.map_size
  BY DEF ReadsInv
<1>3. PICK n \in Nat : n = Len(reads)
  BY LenProperties DEF ReadsInv
<1>4. /\ iter.offset = n * d /\ iter.remaining = m - n * d /\ n * d \in Nat
      /\ iter.remaining >= d /\ d >= StructSize /\ n * d + d <= m
  BY <1>1, <1>2, <1>3, Multiples, BootConstants DEF ReadsInv, More
<1>5. PICK x : x = [at |-> n * d, ty |-> ty]
  OBVIOUS
<1>6. x \in [at : Nat, ty : Types] /\ x.at = n * d /\ x.ty = ty
  BY <1>4, <1>5
<1>7. /\ reads' = Append(reads, x)
      /\ iter'.offset = n * d + d /\ iter'.remaining = (m - n * d) - d
  BY <1>1, <1>2, <1>4, <1>5 DEF Advance
<1>8. /\ reads' \in Seq([at : Nat, ty : Types]) /\ Len(reads') = n + 1
      /\ \A i \in 1..n : reads'[i] = reads[i]
      /\ reads'[n + 1] = x
  BY <1>3, <1>6, <1>7, AppendProperties DEF ReadsInv
<1>9. (n + 1) * d = n * d + d /\ ((n + 1) - 1) * d = n * d
  BY SMT
<1>10. \A i \in 1..(n + 1) : i \in 1..n \/ i = n + 1
  OBVIOUS
<1>11. \A i \in 1..(n + 1) : /\ reads'[i].at + StructSize <= m
                             /\ reads'[i].at = (i - 1) * d
  <2> SUFFICES ASSUME NEW i \in 1..(n + 1)
               PROVE  reads'[i].at + StructSize <= m /\ reads'[i].at = (i - 1) * d
    OBVIOUS
  <2>1. CASE i \in 1..n
    BY <1>1, <1>2, <1>3, <1>8, <2>1 DEF ReadsInv
  <2>2. CASE i = n + 1
    <3>1. reads'[i].at = n * d
      BY <1>6, <1>8, <2>2
    <3> QED BY <1>4, <1>9, <2>2, <3>1, BootConstants
  <2> QED BY <1>10, <2>1, <2>2
<1>12. ReadsInv'
  <2>1. iter'.remaining = m - iter'.offset /\ iter'.offset <= m
    BY <1>4, <1>7
  <2>2. blob' = blob
    OBVIOUS
  <2> QED BY <1>1, <1>2, <1>4, <1>7, <1>8, <1>9, <1>11, <2>1, <2>2 DEF ReadsInv
<1> QED BY <1>3, <1>6, <1>8, <1>12

LEMMA PushBootInv ==
  ASSUME BootInv, NEW ty \in Types, push_descriptor(ty)
  PROVE  BootInv'
<1>1. PICK r : r = [page |-> Len(reads), length |-> 1, kind |-> classify_uefi_type(ty),
                    behind_iommu |-> FALSE]
  OBVIOUS
<1>2. /\ pc = "map" /\ pc' = "map" /\ More /\ Len(regions) < MaxRegions /\ Advance(ty)
      /\ regions' = Append(regions, r)
      /\ UNCHANGED <<arch, entry, fdt, blob, tables, madt, acpi, seen, memory, cpu_iommu,
                     manifest, boot_info>>
  BY <1>1 DEF push_descriptor, walk, built
<1>3. EntryInv' /\ FdtInv'
  BY <1>2, EntryInvStutter, FdtInvStutter DEF BootInv
<1>4. PcInv' /\ AcpiInv' /\ MemoryInv' /\ HandInv'
  BY <1>2, AcpiFrame, MemoryFrame, HandFrame DEF BootInv, PcInv, After
<1>5. /\ ReadsInv' /\ Len(reads') = Len(reads) + 1
      /\ \A i \in 1..Len(reads) : reads'[i] = reads[i]
      /\ reads'[Len(reads) + 1].ty = ty
  BY <1>2, AdvanceReads DEF BootInv
<1>6. PICK n \in Nat : n = Len(regions) /\ n = Len(reads)
  BY <1>2, LenProperties DEF BootInv, RegionsInv, Before
<1>7. /\ r \in Region /\ r.page = n /\ r.length = 1 /\ r.kind = classify_uefi_type(ty)
  BY <1>1, <1>6, ClassifyType DEF Region
<1>8. /\ regions' \in Seq(Region) /\ Len(regions') = n + 1
      /\ \A i \in 1..n : regions'[i] = regions[i]
      /\ regions'[n + 1] = r
  <2>1. regions \in Seq(Region)
    BY DEF BootInv, RegionsInv
  <2>2. regions' = Append(regions, r) /\ r \in Region
    BY <1>2, <1>7
  <2>3. /\ Append(regions, r) \in Seq(Region)
        /\ Len(Append(regions, r)) = Len(regions) + 1
        /\ \A i \in 1..Len(regions) : Append(regions, r)[i] = regions[i]
        /\ Append(regions, r)[Len(regions) + 1] = r
    BY <2>1, <2>2, AppendProperties
  <2> QED BY <1>6, <2>2, <2>3
<1>9. \A i \in 1..(n + 1) : i \in 1..n \/ i = n + 1
  OBVIOUS
<1>10. \A i \in 1..(n + 1) : /\ regions'[i].page = i - 1 /\ regions'[i].length = 1
                             /\ regions'[i].kind = classify_uefi_type(reads'[i].ty)
  <2> SUFFICES ASSUME NEW i \in 1..(n + 1)
               PROVE  /\ regions'[i].page = i - 1 /\ regions'[i].length = 1
                      /\ regions'[i].kind = classify_uefi_type(reads'[i].ty)
    OBVIOUS
  <2>1. CASE i \in 1..n
    BY <1>5, <1>6, <1>8, <2>1 DEF BootInv, RegionsInv
  <2>2. CASE i = n + 1
    BY <1>5, <1>6, <1>7, <1>8, <2>2
  <2> QED BY <1>9, <2>1, <2>2
<1>11. RegionsInv'
  <2>1. n + 1 <= MaxRegions
    BY <1>2, <1>6, BootConstants
  <2>2. Len(reads') = n + 1
    BY <1>5, <1>6
  <2>3. Len(regions') <= Len(reads') /\ Len(regions') = Len(reads')
    BY <1>8, <2>2
  <2>4. pc' \in Before
    BY <1>2 DEF Before
  <2> QED BY <1>8, <1>10, <2>1, <2>3, <2>4 DEF RegionsInv
<1> QED BY <1>3, <1>4, <1>5, <1>11 DEF BootInv

\* The loop is left.
LEMMA OpenXsdt ==
  ASSUME BootInv, pc = "map", open_xsdt, UNCHANGED <<arch, madt, acpi, seen>>
  PROVE  AcpiInv' /\ PcInv'
<1>1. pc' = "xsdt" /\ tables' \in 0..MaxTables /\ arch # "riscv64" /\ ~acpi.iommu
  BY DEF open_xsdt, BootInv, PcInv, AcpiInv, Before
<1>2. PcInv'
  BY <1>1 DEF PcInv
<1>3. AcpiInv'
  BY <1>1 DEF BootInv, AcpiInv, Before
<1> QED BY <1>2, <1>3

LEMMA TruncateBootInv ==
  ASSUME BootInv, NEW ty \in Types, truncate_map(ty)
  PROVE  BootInv'
<1>1. /\ pc = "map" /\ pc' = "xsdt" /\ More /\ Len(regions) >= MaxRegions /\ Advance(ty) /\ open_xsdt
      /\ UNCHANGED <<arch, entry, fdt, blob, regions, madt, acpi, seen, memory, cpu_iommu,
                     manifest, boot_info>>
  BY DEF truncate_map, built, open_xsdt
<1>2. EntryInv' /\ FdtInv' /\ AcpiInv' /\ PcInv'
  BY <1>1, EntryInvStutter, FdtInvStutter, OpenXsdt DEF BootInv
<1>3. MemoryInv' /\ HandInv'
  BY <1>1, MemoryFrame, HandFrame DEF BootInv, After
<1>4. /\ ReadsInv' /\ Len(reads') = Len(reads) + 1
      /\ \A i \in 1..Len(reads) : reads'[i] = reads[i]
  BY <1>1, AdvanceReads DEF BootInv
<1>5. PICK n \in Nat : n = Len(regions) /\ n = Len(reads) /\ n = MaxRegions
  <2>1. Len(regions) \in Nat /\ Len(regions) = Len(reads) /\ Len(regions) <= MaxRegions
    BY <1>1, LenProperties DEF BootInv, RegionsInv, Before
  <2> QED BY <1>1, <2>1, BootConstants
<1>6. Expected' = n
  <2>1. PICK d \in Nat : d = blob.descriptor_size
    BY DEF BootInv, ReadsInv
  <2>2. PICK m \in Nat : m = blob.map_size
    BY DEF BootInv, ReadsInv
  <2>3. iter.remaining = m - n * d /\ iter.remaining >= d /\ d >= StructSize
    BY <1>1, <1>5, <2>1, <2>2 DEF BootInv, ReadsInv, More
  <2>4. d \in Nat \ {0} /\ n * d <= m
    BY <2>3, Multiples, BootConstants
  <2>5. m \div d \in Nat /\ n <= m \div d
    BY <2>4, Fits
  <2>6. Min({MaxRegions, m \div d}) = n
    BY <1>5, <2>5, MinOfTwo
  <2>7. ~(d < StructSize)
    BY <2>3, BootConstants
  <2> QED BY <1>1, <2>1, <2>2, <2>6, <2>7 DEF Expected
<1>7. RegionsInv'
  <2>1. Len(regions') <= Len(reads') /\ Len(regions') = n
    BY <1>1, <1>4, <1>5
  <2>2. pc' \notin Before
    BY <1>1 DEF Before
  <2>3. \A i \in 1..Len(regions') : /\ regions'[i].page = i - 1 /\ regions'[i].length = 1
                                    /\ regions'[i].kind = classify_uefi_type(reads'[i].ty)
    BY <1>1, <1>4, <1>5 DEF BootInv, RegionsInv
  <2> QED BY <1>1, <1>5, <1>6, <2>1, <2>2, <2>3 DEF BootInv, RegionsInv
<1> QED BY <1>2, <1>3, <1>4, <1>7 DEF BootInv

LEMMA MapEndsBootInv == ASSUME BootInv, map_ends PROVE BootInv'
<1>1. /\ pc = "map" /\ pc' = "xsdt" /\ ~More /\ open_xsdt
      /\ UNCHANGED <<arch, entry, fdt, blob, iter, regions, reads, madt, acpi, seen, memory,
                     cpu_iommu, manifest, boot_info>>
  BY DEF map_ends, map, built, open_xsdt
<1>2. EntryInv' /\ FdtInv' /\ AcpiInv' /\ PcInv'
  BY <1>1, EntryInvStutter, FdtInvStutter, OpenXsdt DEF BootInv
<1>3. MemoryInv' /\ HandInv' /\ ReadsInv'
  BY <1>1, MemoryFrame, HandFrame, ReadsFrame DEF BootInv, After
<1>4. PICK n \in Nat : n = Len(regions) /\ n = Len(reads) /\ n <= MaxRegions
  BY <1>1, LenProperties DEF BootInv, RegionsInv, Before
<1>5. Expected = n
  <2>1. PICK d \in Nat : d = blob.descriptor_size
    BY DEF BootInv, ReadsInv
  <2>2. PICK m \in Nat : m = blob.map_size
    BY DEF BootInv, ReadsInv
  <2>3. /\ iter.remaining = m - n * d /\ n * d <= m
        /\ n > 0 => d >= StructSize
    BY <1>4, <2>1, <2>2 DEF BootInv, ReadsInv
  <2>4. CASE d < StructSize
    BY <2>1, <2>3, <2>4, BootConstants DEF Expected
  <2>5. CASE ~(d < StructSize)
    <3>1. d \in Nat \ {0} /\ d >= StructSize
      BY <2>5, BootConstants
    <3>2. m - n * d < d
      <4>1. n * d \in Nat
        BY Multiples
      <4> QED BY <1>1, <2>1, <2>3, <3>1, <4>1 DEF More
    <3>3. m \div d = n
      BY <2>3, <3>1, <3>2, Fits
    <3>4. Min({MaxRegions, m \div d}) = n
      BY <1>4, <3>3, MinOfTwo, BootConstants
    <3> QED BY <2>1, <2>2, <2>5, <3>4 DEF Expected
  <2> QED BY <2>4, <2>5
<1>6. RegionsInv'
  <2>1. Expected' = Expected /\ pc' \notin Before
    BY <1>1 DEF Expected, Before
  <2> QED BY <1>1, <1>4, <1>5, <2>1 DEF BootInv, RegionsInv
<1> QED BY <1>2, <1>3, <1>6 DEF BootInv

\* What the ACPI steps leave alone.
LEMMA AcpiOnly ==
  ASSUME BootInv, AcpiInv', pc \in {"xsdt", "madt"}, pc' \in {"xsdt", "madt"},
         UNCHANGED <<arch, entry, fdt, blob, iter, regions, reads, memory, cpu_iommu, manifest,
                     boot_info>>
  PROVE  BootInv'
<1>1. EntryInv' /\ FdtInv' /\ ReadsInv'
  BY EntryInvStutter, FdtInvStutter, ReadsFrame DEF BootInv
<1>2. PcInv'
  BY DEF BootInv, PcInv
<1>3. RegionsInv'
  BY RegionsFrame DEF BootInv, Before
<1>4. MemoryInv' /\ HandInv'
  BY MemoryFrame, HandFrame DEF BootInv, After
<1> QED BY <1>1, <1>2, <1>3, <1>4 DEF BootInv

LEMMA DmarBootInv ==
  ASSUME BootInv, NEW s \in {"DMAR", "APIC", "IORT", "other"}, acpi_dmar_present(s)
  PROVE  BootInv'
<1>1. /\ arch = "x86_64" /\ pc = "xsdt" /\ pc' = "xsdt" /\ tables > 0
      /\ seen' = [seen EXCEPT !.signatures = @ \cup {s}]
      /\ tables' = IF s = "DMAR" THEN 0 ELSE tables - 1
      /\ acpi' = [acpi EXCEPT !.iommu = s = "DMAR"]
      /\ UNCHANGED <<arch, entry, fdt, blob, iter, regions, reads, madt, memory, cpu_iommu,
                     manifest, boot_info>>
  BY DEF acpi_dmar_present, ReadTable, map, built
<1>2. /\ tables \in 0..MaxTables /\ acpi \in [iommu : BOOLEAN, gicd : GivenBy]
      /\ seen \in [signatures : SUBSET {"DMAR", "APIC", "IORT", "other"}, gicd : GivenBy]
      /\ acpi.iommu => tables = 0
      /\ acpi.iommu <=> "DMAR" \in seen.signatures
  BY <1>1 DEF BootInv, AcpiInv
<1>3. ~acpi.iommu /\ "DMAR" \notin seen.signatures
  <2>1. tables # 0
    BY <1>1, <1>2, BootConstants
  <2>2. ~acpi.iommu
    BY <1>2, <2>1
  <2> QED BY <1>2, <2>2
<1>4. /\ acpi' \in [iommu : BOOLEAN, gicd : GivenBy]
      /\ acpi'.gicd = acpi.gicd /\ (acpi'.iommu <=> s = "DMAR")
  BY <1>1, <1>2
<1>5. /\ seen' \in [signatures : SUBSET {"DMAR", "APIC", "IORT", "other"}, gicd : GivenBy]
      /\ seen'.gicd = seen.gicd /\ seen'.signatures = seen.signatures \cup {s}
  BY <1>1, <1>2
<1>6. tables' \in 0..MaxTables /\ (s = "DMAR" => tables' = 0)
  BY <1>1, <1>2, BootConstants
<1>7. AcpiInv'
  BY <1>1, <1>3, <1>4, <1>5, <1>6 DEF BootInv, AcpiInv, Before
<1> QED BY <1>1, <1>7, AcpiOnly

LEMMA EntriesMadt ==
  ASSUME NEW n \in 0..MadtSize, NEW e \in Entries(n)
  PROVE  e \in [left : 0..MadtSize, base : GivenBy, length : 0..2]
BY DEF Entries, GivenBy

LEMMA DiscoverBootInv ==
  ASSUME BootInv, NEW s \in {"DMAR", "APIC", "IORT", "other"}, acpi_discover(s)
  PROVE  BootInv'
<1>1. /\ arch = "arm64" /\ pc = "xsdt" /\ tables > 0
      /\ tables' = tables - 1
      /\ acpi' = [ iommu |-> (acpi.iommu \/ s = "IORT"),
                   gicd |-> IF s = "APIC" THEN None ELSE acpi.gicd ]
      /\ seen' = [ signatures |-> seen.signatures \cup {s},
                   gicd |-> IF s = "APIC" THEN None ELSE seen.gicd ]
      /\ UNCHANGED <<arch, entry, fdt, blob, iter, regions, reads, memory, cpu_iommu,
                     manifest, boot_info>>
  BY DEF acpi_discover, ReadTable, map, built
<1>2. /\ tables \in 0..MaxTables /\ acpi \in [iommu : BOOLEAN, gicd : GivenBy]
      /\ seen \in [signatures : SUBSET {"DMAR", "APIC", "IORT", "other"}, gicd : GivenBy]
      /\ (acpi.iommu <=> "IORT" \in seen.signatures)
  BY <1>1 DEF BootInv, AcpiInv
<1>3. /\ acpi' \in [iommu : BOOLEAN, gicd : GivenBy]
      /\ acpi'.gicd = (IF s = "APIC" THEN None ELSE acpi.gicd)
      /\ (acpi'.iommu <=> acpi.iommu \/ s = "IORT")
  BY <1>1, <1>2 DEF GivenBy
<1>4. /\ seen' \in [signatures : SUBSET {"DMAR", "APIC", "IORT", "other"}, gicd : GivenBy]
      /\ seen'.gicd = (IF s = "APIC" THEN None ELSE seen.gicd)
      /\ seen'.signatures = seen.signatures \cup {s}
  BY <1>1, <1>2 DEF GivenBy
<1>5. tables' \in 0..MaxTables
  BY <1>1, <1>2, BootConstants
<1>6. CASE s = "APIC"
  <2>1. /\ pc' = "madt"
        /\ madt' \in [left : 0..MadtSize, base : GivenBy, length : 0..2]
    BY <1>6, EntriesMadt DEF acpi_discover
  <2>2. AcpiInv'
    BY <1>1, <1>2, <1>3, <1>4, <1>5, <1>6, <2>1 DEF BootInv, AcpiInv, Before
  <2> QED BY <1>1, <2>1, <2>2, AcpiOnly
<1>7. CASE s # "APIC"
  <2>1. pc' = "xsdt" /\ madt' = madt
    BY <1>1, <1>7 DEF acpi_discover
  <2>2. AcpiInv'
    BY <1>1, <1>2, <1>3, <1>4, <1>5, <1>7, <2>1 DEF BootInv, AcpiInv, Before
  <2> QED BY <1>1, <2>1, <2>2, AcpiOnly
<1> QED BY <1>6, <1>7

LEMMA MadtBootInv == ASSUME BootInv, find_gicd_in_madt PROVE BootInv'
<1>1. /\ pc = "madt" /\ pc' = "madt" /\ madt.left > 0
      /\ seen' = [seen EXCEPT !.gicd = madt.base]
      /\ UNCHANGED <<arch, entry, fdt, blob, iter, regions, reads, tables, memory, cpu_iommu,
                     manifest, boot_info>>
  BY DEF find_gicd_in_madt, map, built
<1>2. /\ madt \in [left : 0..MadtSize, base : GivenBy, length : 0..2]
      /\ acpi \in [iommu : BOOLEAN, gicd : GivenBy]
      /\ seen \in [signatures : SUBSET {"DMAR", "APIC", "IORT", "other"}, gicd : GivenBy]
      /\ "APIC" \in seen.signatures /\ acpi.gicd = seen.gicd
  BY <1>1 DEF BootInv, AcpiInv
<1>3. acpi.gicd = None
  <2>1. madt.left # 0
    BY <1>1
  <2> QED BY <1>1, <2>1 DEF BootInv, AcpiInv
<1>4. /\ seen' \in [signatures : SUBSET {"DMAR", "APIC", "IORT", "other"}, gicd : GivenBy]
      /\ seen'.gicd = madt.base /\ seen'.signatures = seen.signatures
  BY <1>1, <1>2
<1>5. /\ acpi' \in [iommu : BOOLEAN, gicd : GivenBy]
      /\ acpi'.gicd = madt.base /\ acpi'.iommu = acpi.iommu
  <2>1. CASE madt.base # None
    <3>1. acpi' = [acpi EXCEPT !.gicd = madt.base]
      BY <2>1 DEF find_gicd_in_madt
    <3> QED BY <1>2, <3>1
  <2>2. CASE madt.base = None
    BY <1>2, <1>3, <2>2 DEF find_gicd_in_madt
  <2> QED BY <2>1, <2>2
<1>6. /\ madt' \in [left : 0..MadtSize, base : GivenBy, length : 0..2]
      /\ madt.base # None => madt'.left = 0
  <2>1. CASE madt' = [madt EXCEPT !.left = 0]
    BY <1>2, <2>1, BootConstants
  <2>2. CASE madt.base = None /\ madt' \in Entries(Max({0, madt.left - madt.length}))
    <3>1. madt.left \in 0..MadtSize /\ madt.length \in 0..2
      BY <1>2
    <3>2. madt.left - madt.length \in Int
      BY <3>1, BootConstants
    <3>3. Max({0, madt.left - madt.length}) \in 0..MadtSize
      BY <3>1, <3>2, MaxOfTwo, BootConstants
    <3> QED BY <2>2, <3>3, EntriesMadt
  <2> QED BY <2>1, <2>2 DEF find_gicd_in_madt
<1>7. AcpiInv'
  BY <1>1, <1>2, <1>4, <1>5, <1>6 DEF BootInv, AcpiInv, Before
<1> QED BY <1>1, <1>7, AcpiOnly

LEMMA NewMemoryBootInv == ASSUME BootInv, new_memory PROVE BootInv'
<1>1. PICK rs : rs = [i \in DOMAIN regions |-> [regions[i] EXCEPT !.behind_iommu = acpi.iommu]]
  OBVIOUS
<1>2. /\ pc = "xsdt" /\ pc' = "manifest"
      /\ memory' = [ regions |-> rs, iommu_present |-> acpi.iommu,
                     base |-> IF acpi.gicd = None THEN DefaultGicd ELSE acpi.gicd ]
      /\ UNCHANGED <<arch, entry, fdt, blob, iter, regions, reads, tables, madt, acpi, seen,
                     cpu_iommu, manifest, boot_info>>
  BY <1>1 DEF new_memory, map, walk
<1>3. EntryInv' /\ FdtInv' /\ ReadsInv'
  BY <1>2, EntryInvStutter, FdtInvStutter, ReadsFrame DEF BootInv
<1>4. PcInv'
  BY <1>2 DEF PcInv, After
<1>5. RegionsInv' /\ AcpiInv' /\ HandInv'
  BY <1>2, RegionsFrame, AcpiFrame, HandFrame DEF BootInv, Before
<1>6. acpi.iommu \in BOOLEAN /\ acpi.gicd \in GivenBy
  BY DEF BootInv, AcpiInv
<1>7. /\ regions \in Seq(Region) /\ Len(regions) \in Nat /\ DOMAIN regions = 1..Len(regions)
      /\ \A i \in 1..Len(regions) : regions[i] \in Region
  <2>1. regions \in Seq(Region)
    BY DEF BootInv, RegionsInv
  <2> QED BY <2>1, LenProperties, ElementOfSeq
<1>8. \A i \in 1..Len(regions) :
        /\ rs[i] \in Region /\ rs[i].behind_iommu = acpi.iommu
        /\ rs[i].page = regions[i].page /\ rs[i].length = regions[i].length
        /\ rs[i].kind = regions[i].kind
  <2> SUFFICES ASSUME NEW i \in 1..Len(regions)
               PROVE  /\ rs[i] \in Region /\ rs[i].behind_iommu = acpi.iommu
                      /\ rs[i].page = regions[i].page /\ rs[i].length = regions[i].length
                      /\ rs[i].kind = regions[i].kind
    OBVIOUS
  <2>1. rs[i] = [regions[i] EXCEPT !.behind_iommu = acpi.iommu]
    BY <1>1, <1>7
  <2>2. regions[i] \in Region
    BY <1>7
  <2> QED BY <1>6, <2>1, <2>2 DEF Region
<1>9. rs \in Seq(Region) /\ Len(rs) = Len(regions)
  <2>1. rs \in [1..Len(regions) -> Region]
    <3>1. DOMAIN rs = 1..Len(regions) /\ rs = [i \in 1..Len(regions) |-> rs[i]]
      BY <1>1, <1>7
    <3> QED BY <1>8, <3>1
  <2> QED BY <1>7, <2>1, SeqDef
<1>10. memory'.regions = rs /\ memory'.iommu_present = acpi.iommu
       /\ memory'.base = IF acpi.gicd = None THEN DefaultGicd ELSE acpi.gicd
  BY <1>2
<1>11. memory'.base \in Bases \cup Regs \cup {DefaultGicd, DefaultPlic, None}
  BY <1>6, <1>10 DEF GivenBy
<1>12. MemoryInv'
  <2>1. arch # "riscv64"
    BY <1>2 DEF BootInv, PcInv
  <2> QED BY <1>2, <1>6, <1>8, <1>9, <1>10, <1>11, <2>1 DEF MemoryInv
<1> QED BY <1>3, <1>4, <1>5, <1>12 DEF BootInv

\* push_memory_region keeps a prefix.
LEMMA PushRegions ==
  ASSUME NEW all \in Seq(Region)
  PROVE  /\ push_memory_region(all) \in Seq(Region)
         /\ Len(push_memory_region(all)) <= Len(all)
         /\ Len(all) <= MaxRegions => Len(push_memory_region(all)) = Len(all)
         /\ \A i \in 1..Len(push_memory_region(all)) : push_memory_region(all)[i] = all[i]
<1>1. PICK n \in Nat : n = Len(all)
  BY LenProperties
<1>2. PICK k \in Nat : k = Min({MaxRegions, n}) /\ k <= n /\ (n <= MaxRegions => k = n)
  <2>1. Min({MaxRegions, n}) = IF MaxRegions <= n THEN MaxRegions ELSE n
    BY BootConstants, MinOfTwo
  <2> QED BY <2>1, BootConstants
<1>3. push_memory_region(all) = SubSeq(all, 1, k)
  BY <1>1, <1>2 DEF push_memory_region
<1>4. \A i \in 1..k : all[i] \in Region
  <2>1. \A i \in 1..k : i \in 1..n
    BY <1>2
  <2> QED BY <1>1, <2>1, ElementOfSeq
<1>5. /\ SubSeq(all, 1, k) \in Seq(Region)
      /\ Len(SubSeq(all, 1, k)) = IF 1 <= k THEN k - 1 + 1 ELSE 0
      /\ \A i \in 1..(k - 1 + 1) : SubSeq(all, 1, k)[i] = all[1 + i - 1]
  BY <1>4, SubSeqProperties
<1>6. \A i \in 1..k : i \in 1..(k - 1 + 1) /\ 1 + i - 1 = i
  OBVIOUS
<1>7. Len(SubSeq(all, 1, k)) = k
  BY <1>5
<1> QED BY <1>1, <1>2, <1>3, <1>5, <1>6, <1>7

LEMMA ManifestBootInv == ASSUME BootInv, built_hardware_manifest PROVE BootInv'
<1>1. /\ pc = "manifest" /\ pc' = "boot_info" /\ cpu_iommu' = memory.iommu_present
      /\ manifest' = [regions |-> push_memory_region(memory.regions), iommu |-> cpu_iommu']
      /\ UNCHANGED <<arch, entry, fdt, blob, iter, regions, reads, tables, madt, acpi, seen,
                     memory, boot_info>>
  BY DEF built_hardware_manifest, map, walk
<1>2. EntryInv' /\ FdtInv' /\ ReadsInv'
  BY <1>1, EntryInvStutter, FdtInvStutter, ReadsFrame DEF BootInv
<1>3. PcInv'
  BY <1>1 DEF PcInv, After
<1>4. RegionsInv' /\ AcpiInv' /\ MemoryInv'
  BY <1>1, RegionsFrame, AcpiFrame, MemoryFrame DEF BootInv, Before, After
<1>5. HandInv'
  <2>1. memory.regions \in Seq(Region) /\ memory.iommu_present \in BOOLEAN
    BY DEF BootInv, MemoryInv
  <2>2. manifest'.regions = push_memory_region(memory.regions)
        /\ manifest'.iommu = memory.iommu_present
    BY <1>1
  <2> QED BY <1>1, <2>1, <2>2, PushRegions DEF HandInv
<1> QED BY <1>2, <1>3, <1>4, <1>5 DEF BootInv

LEMMA HandOffBootInv == ASSUME BootInv, hand_off PROVE BootInv'
<1>1. PICK info : info = [ kernel_image |-> <<ImageStart, ImageEnd>>,
                           boot_reserved |-> <<VmaBase + StackStart, VmaBase + StackEnd>> ]
  OBVIOUS
<1>2. /\ pc = "boot_info" /\ boot_info' = info
      /\ pc' = IF validate(info) THEN "kernel" ELSE "panic"
      /\ UNCHANGED <<arch, entry, fdt, blob, iter, regions, reads, tables, madt, acpi, seen,
                     memory, cpu_iommu, manifest>>
  BY <1>1 DEF hand_off, map, walk, validate
<1>3. validate(info)
  BY <1>1, BootConstants DEF validate
<1>4. pc' = "kernel"
  BY <1>2, <1>3
<1>5. EntryInv' /\ FdtInv' /\ ReadsInv'
  BY <1>2, EntryInvStutter, FdtInvStutter, ReadsFrame DEF BootInv
<1>6. PcInv'
  BY <1>4 DEF PcInv, After
<1>7. RegionsInv' /\ AcpiInv' /\ MemoryInv'
  BY <1>2, <1>4, RegionsFrame, AcpiFrame, MemoryFrame DEF BootInv, Before, After
<1>8. HandInv'
  BY <1>1, <1>2, <1>4 DEF BootInv, HandInv
<1> QED BY <1>5, <1>6, <1>7, <1>8 DEF BootInv

LEMMA NextBootInv == BootInv /\ [Next]_vars => BootInv'
<1> SUFFICES ASSUME BootInv, [Next]_vars PROVE BootInv'
  OBVIOUS
<1>1. CASE UNCHANGED vars
  BY <1>1, SilentBootInv
<1>2. CASE Start \/ rust_entry \/ walk_device_tree \/ from_device_tree
  BY <1>2, StartBootInv, SilentBootInv, WalkBootInv, DeviceTreeBootInv
<1>3. CASE \E ty \in Types : push_descriptor(ty) \/ truncate_map(ty)
  BY <1>3, PushBootInv, TruncateBootInv
<1>4. CASE map_ends \/ find_gicd_in_madt \/ madt_ends \/ new_memory
  BY <1>4, MapEndsBootInv, MadtBootInv, SilentBootInv, NewMemoryBootInv
<1>5. CASE \E s \in {"DMAR", "APIC", "IORT", "other"} : acpi_dmar_present(s) \/ acpi_discover(s)
  BY <1>5, DmarBootInv, DiscoverBootInv
<1>6. CASE built_hardware_manifest \/ hand_off \/ kernel_main
  BY <1>6, ManifestBootInv, HandOffBootInv, SilentBootInv
<1>7. CASE halt_forever \/ parked_forever
  BY <1>1, <1>7 DEF halt_forever, parked_forever
<1> QED BY <1>1, <1>2, <1>3, <1>4, <1>5, <1>6, <1>7 DEF Next

LEMMA BootInvAlways == Spec => []BootInv
BY InitBootInv, NextBootInv, PTL DEF Spec

----------------------------------------------------------------------------
(***************************************************************************)
(* What the boot path promises.                                            *)
(***************************************************************************)
LEMMA BootInvTypeOK == BootInv => TypeOK
<1> SUFFICES ASSUME BootInv PROVE TypeOK
  OBVIOUS
<1>1. EntryTypeOK /\ Fdt!TypeOK
  BY DEF BootInv, EntryInv, FdtInv
<1>2. blob \in [map_size : Nat, descriptor_size : Strides]
  BY DEF BootInv, ReadsInv
<1>3. iter.offset \in Nat /\ iter.remaining = blob.map_size - iter.offset
  <2>1. Len(reads) \in Nat /\ blob.descriptor_size \in Nat
    BY LenProperties DEF BootInv, ReadsInv
  <2> QED BY <2>1, Multiples DEF BootInv, ReadsInv
<1>4. madt \in UNION {Entries(n) : n \in 0..MadtSize}
  <2>1. madt \in [left : 0..MadtSize, base : GivenBy, length : 0..2]
    BY DEF BootInv, AcpiInv
  <2>2. madt \in Entries(madt.left) /\ madt.left \in 0..MadtSize
    BY <2>1 DEF Entries, GivenBy
  <2> QED BY <2>2
<1>5. pc \in {"entry", "map", "xsdt", "madt", "fdt", "manifest", "boot_info",
             "kernel", "halted"}
  BY DEF BootInv, PcInv, Before, After
<1> QED BY <1>1, <1>2, <1>3, <1>4, <1>5
        DEF TypeOK, BootInv, RegionsInv, AcpiInv, MemoryInv, HandInv, GivenBy

LEMMA BootInvReads == BootInv => ReadsInsideMap
<1> SUFFICES ASSUME BootInv PROVE ReadsInsideMap
  OBVIOUS
<1>1. DOMAIN reads = 1..Len(reads)
  BY LenProperties DEF BootInv, ReadsInv
<1> QED BY <1>1 DEF BootInv, ReadsInv, ReadsInsideMap

\* What HandInv, MemoryInv and RegionsInv say of the manifest, taken together:
\* the regions kernel_main is handed on a UEFI machine.
LEMMA HandedRegions ==
  ASSUME BootInv, Handed, arch # "riscv64"
  PROVE  /\ manifest.regions \in Seq(Region) /\ DOMAIN manifest.regions = 1..Len(manifest.regions)
         /\ Len(manifest.regions) = Expected
         /\ \A i \in 1..Len(manifest.regions) :
              /\ manifest.regions[i].page = i - 1 /\ manifest.regions[i].length = 1
              /\ manifest.regions[i].kind = classify_uefi_type(reads[i].ty)
<1>1. pc \in After /\ pc \in {"boot_info", "kernel", "halted"} /\ pc \notin Before
  BY DEF Handed, After, Before
<1>2. /\ manifest.regions \in Seq(Region) /\ DOMAIN manifest.regions = 1..Len(manifest.regions)
  BY LenProperties DEF BootInv, HandInv
<1>3. Len(memory.regions) = Len(regions) /\ Len(regions) <= MaxRegions /\ Len(regions) = Expected
  BY <1>1 DEF BootInv, MemoryInv, RegionsInv
<1>4. Len(manifest.regions) = Len(regions)
  BY <1>1, <1>3 DEF BootInv, HandInv
<1>5. ASSUME NEW i \in 1..Len(manifest.regions)
      PROVE  /\ manifest.regions[i].page = i - 1 /\ manifest.regions[i].length = 1
             /\ manifest.regions[i].kind = classify_uefi_type(reads[i].ty)
  <2>1. i \in 1..Len(regions) /\ manifest.regions[i] = memory.regions[i]
    BY <1>1, <1>4, <1>5 DEF BootInv, HandInv
  <2>2. /\ memory.regions[i].page = regions[i].page
        /\ memory.regions[i].length = regions[i].length
        /\ memory.regions[i].kind = regions[i].kind
    BY <1>1, <2>1 DEF BootInv, MemoryInv
  <2> QED BY <2>1, <2>2 DEF BootInv, RegionsInv
<1> QED BY <1>2, <1>3, <1>4, <1>5

\* total_usable_memory counts the Usable regions of one page each.
LEMMA UsableCounted ==
  ASSUME NEW R, NEW n \in Nat, Len(R) = n, \A i \in 1..n : R[i].length = 1
  PROVE  total_usable_memory(R) = Cardinality({i \in 1..n : R[i].kind = "Usable"})
<1> DEFINE Counts(i) == IF R[i].kind = "Usable" THEN R[i].length ELSE 0
<1>1. \A i \in 1..n : Counts(i) = IF R[i].kind = "Usable" THEN 1 ELSE 0
  OBVIOUS
<1>2. \A i \in 1..n : Counts(i) \in Nat
  OBVIOUS
<1> HIDE DEF Counts
<1>3. PICK F : F = [x \in (1..n) \X Nat |-> x[2] + Counts(x[1])]
  OBVIOUS
<1>4. Leads(F, n, Nat)
  <2>1. \A x \in (1..n) \X Nat : x[2] + Counts(x[1]) \in Nat
    BY <1>2
  <2> QED BY <1>3, <2>1 DEF Leads
<1>5. PICK f : Follows(f, F, n, Nat, 0)
  BY <1>4, Recursion
<1>6. f \in [0..n -> Nat] /\ f[0] = 0
  BY <1>5 DEF Follows
<1>7. ASSUME NEW k \in 1..n PROVE f[k] = f[k - 1] + Counts(k)
  <2>1. f[k] = F[<<k, f[k - 1]>>]
    BY <1>5 DEF Follows
  <2>2. k - 1 \in 0..n
    OBVIOUS
  <2>3. <<k, f[k - 1]>> \in (1..n) \X Nat
    BY <1>6, <2>2
  <2> QED BY <1>3, <2>1, <2>3
<1> DEFINE Rec(g) == g = [k \in 0..Len(R) |->
                           IF k = 0 THEN 0
                           ELSE g[k - 1] + (IF R[k].kind = "Usable" THEN R[k].length ELSE 0)]
           sum == CHOOSE g : Rec(g)
<1>8. Rec(f)
  <2>1. \A k \in 0..n : f[k] = IF k = 0 THEN 0
                               ELSE f[k - 1] + (IF R[k].kind = "Usable" THEN R[k].length ELSE 0)
    BY <1>6, <1>7 DEF Counts
  <2> QED BY <1>6, <2>1
<1>9. total_usable_memory(R) = sum[n]
  BY DEF total_usable_memory
<1>10. Rec(sum)
  BY <1>8
<1> HIDE DEF sum
<1>11. sum[0] = 0 /\ \A k \in 1..n : sum[k] = sum[k - 1] + Counts(k)
  BY <1>10 DEF Counts
<1> DEFINE Upto(k) == {i \in 1..k : R[i].kind = "Usable"}
<1>12. Cardinality(Upto(0)) = 0
  <2>1. Upto(0) = {}
    OBVIOUS
  <2> QED BY <2>1, FS_EmptySet
<1>13. ASSUME NEW k \in 1..n
       PROVE  Cardinality(Upto(k)) = Cardinality(Upto(k - 1)) + Counts(k)
  <2>1. IsFiniteSet(Upto(k - 1))
    <3>1. IsFiniteSet(1..(k - 1)) /\ Upto(k - 1) \subseteq 1..(k - 1)
      BY FS_Interval
    <3> QED BY <3>1, FS_Subset
  <2>2. CASE R[k].kind = "Usable"
    <3>1. Upto(k) = Upto(k - 1) \cup {k} /\ k \notin Upto(k - 1)
      BY <2>2
    <3>2. Counts(k) = 1
      BY <1>1, <2>2
    <3> HIDE DEF Upto
    <3>3. Cardinality(Upto(k - 1) \cup {k}) = Cardinality(Upto(k - 1)) + 1
      BY <2>1, <3>1, FS_AddElement
    <3> QED BY <3>1, <3>2, <3>3
  <2>3. CASE R[k].kind # "Usable"
    <3>1. Upto(k) = Upto(k - 1)
      BY <2>3
    <3>2. Counts(k) = 0
      BY <1>1, <2>3
    <3> HIDE DEF Upto
    <3>3. Cardinality(Upto(k - 1)) \in Nat
      BY <2>1, FS_CardinalityType
    <3> QED BY <3>1, <3>2, <3>3
  <2> QED BY <2>2, <2>3
<1> HIDE DEF Upto
<1> DEFINE T == {k \in 0..n : sum[k] = Cardinality(Upto(k))}
<1>14. 0 \in T
  BY <1>11, <1>12
<1>15. ASSUME NEW k \in 1..n, k - 1 \in T PROVE k \in T
  BY <1>11, <1>13, <1>15
<1> HIDE DEF T
<1>16. 0..n \subseteq T
  BY <1>14, <1>15, Inductive
<1>17. sum[n] = Cardinality(Upto(n))
  BY <1>16 DEF T
<1> QED BY <1>9, <1>17 DEF Upto

LEMMA BootInvMap == BootInv => ManifestIsFirmwareMap
<1> SUFFICES ASSUME BootInv, Handed, arch # "riscv64"
             PROVE  ManifestIsFirmwareMap
  BY DEF ManifestIsFirmwareMap
<1>1. Len(manifest.regions) = IF blob.descriptor_size < StructSize THEN 0
                              ELSE Min({MaxRegions, blob.map_size \div blob.descriptor_size})
  BY HandedRegions DEF Expected
<1>2. ASSUME NEW i \in DOMAIN manifest.regions
      PROVE  /\ manifest.regions[i].page = i - 1 /\ manifest.regions[i].length = 1
             /\ manifest.regions[i].kind = "Usable" <=> reads[i].ty \in {1, 2, 3, 4, 7}
             /\ manifest.regions[i].kind = "Mmio" <=> reads[i].ty \in {11, 12}
  <2>1. i \in 1..Len(manifest.regions)
    BY <1>2, HandedRegions
  <2>2. /\ manifest.regions[i].page = i - 1 /\ manifest.regions[i].length = 1
        /\ manifest.regions[i].kind = classify_uefi_type(reads[i].ty)
    BY <2>1, HandedRegions
  <2> QED BY <2>2, ClassifyType
<1>3. total_usable_memory(memory_regions_from(manifest.regions)) =
        Cardinality({i \in DOMAIN manifest.regions : reads[i].ty \in {1, 2, 3, 4, 7}})
  <2>1. PICK n \in Nat : n = Len(manifest.regions) /\ DOMAIN manifest.regions = 1..n
    BY HandedRegions, LenProperties
  <2>2. PICK R : R = memory_regions_from(manifest.regions)
    OBVIOUS
  <2>3. R = [i \in 1..n |-> MemoryRegion(manifest.regions[i])]
    BY <2>1, <2>2 DEF memory_regions_from
  <2>4. Len(R) = n
    BY <2>3
  <2>5. \A i \in 1..n : /\ R[i].length = 1
                        /\ R[i].kind = "Usable" <=> reads[i].ty \in {1, 2, 3, 4, 7}
    BY <1>2, <2>1, <2>3 DEF MemoryRegion
  <2>6. {i \in 1..n : R[i].kind = "Usable"} =
          {i \in DOMAIN manifest.regions : reads[i].ty \in {1, 2, 3, 4, 7}}
    BY <2>1, <2>5
  <2>7. total_usable_memory(R) = Cardinality({i \in 1..n : R[i].kind = "Usable"})
    BY <2>4, <2>5, UsableCounted
  <2> QED BY <2>2, <2>6, <2>7
<1> QED BY <1>1, <1>2, <1>3 DEF ManifestIsFirmwareMap

LEMMA BootInvFirmware == BootInv => FirmwareAgrees
<1> SUFFICES ASSUME BootInv, Handed PROVE FirmwareAgrees
  BY DEF FirmwareAgrees
<1>1. pc \in After /\ pc \in {"boot_info", "kernel", "halted"}
  BY DEF Handed, After
<1>2. arch \in {"x86_64", "arm64", "riscv64"}
  BY EntryAssumption DEF BootInv, EntryInv, EntryTypeOK
<1>3. PICK present : present = memory.iommu_present
  OBVIOUS
<1>4. arch # "riscv64" =>
        present = ((IF arch = "x86_64" THEN "DMAR" ELSE "IORT") \in seen.signatures)
  <2>1. arch # "riscv64" => present = acpi.iommu /\ present \in BOOLEAN
    BY <1>1, <1>3 DEF BootInv, MemoryInv
  <2>2. CASE arch = "x86_64"
    <3>1. acpi.iommu <=> "DMAR" \in seen.signatures
      BY <2>2 DEF BootInv, AcpiInv
    <3> QED BY <2>1, <2>2, <3>1
  <2>3. CASE arch = "arm64"
    <3>1. acpi.iommu <=> "IORT" \in seen.signatures
      BY <2>3 DEF BootInv, AcpiInv
    <3> QED BY <2>1, <2>3, <3>1
  <2> QED BY <1>2, <2>2, <2>3
<1>5. cpu_iommu = present /\ manifest.iommu = present
  BY <1>1, <1>3 DEF BootInv, HandInv
<1>6. \A i \in DOMAIN manifest.regions : manifest.regions[i].behind_iommu = present
  <2>1. DOMAIN manifest.regions = 1..Len(manifest.regions) /\ Len(manifest.regions) \in Nat
        /\ Len(memory.regions) \in Nat
    BY LenProperties DEF BootInv, HandInv, MemoryInv
  <2>2. \A i \in 1..Len(manifest.regions) : i \in 1..Len(memory.regions)
    BY <1>1, <2>1 DEF BootInv, HandInv
  <2>3. \A i \in 1..Len(manifest.regions) : manifest.regions[i] = memory.regions[i]
    BY <1>1 DEF BootInv, HandInv
  <2>4. \A i \in 1..Len(memory.regions) : memory.regions[i].behind_iommu = present
    BY <1>1, <1>3 DEF BootInv, MemoryInv
  <2> QED BY <2>1, <2>2, <2>3, <2>4
<1>7. Fdt!IommuFound
  BY FdtInvTracks DEF BootInv
<1>8. arch # "riscv64" => memory.base = IF seen.gicd = None THEN DefaultGicd ELSE seen.gicd
  BY <1>1 DEF BootInv, MemoryInv, AcpiInv
<1>9. arch = "riscv64" => /\ memory.base = DefaultPlic /\ Len(memory.regions) = 1
                          /\ memory.regions[1].page = DefaultMemory.page
                          /\ memory.regions[1].length = DefaultMemory.length
  BY <1>1 DEF BootInv, MemoryInv
<1> QED BY <1>3, <1>4, <1>5, <1>6, <1>7, <1>8, <1>9 DEF FirmwareAgrees

\* Type correctness of the whole boot path: the regions stay within
\* MAX_MEMORY_REGIONS, DescriptorIter's cursors stay complementary, and the
\* debug_assert of the rust entry never fails, for pc is never "panic".
THEOREM TypeCorrect == Spec => []TypeOK
BY BootInvAlways, BootInvTypeOK, PTL

\* The rust entry runs in EL1, alone on its stack and with its statics zeroed
\* once, whatever the boot path does after the handover and whenever the other
\* harts enter _start.
THEOREM BootKeepsEntryContract == Spec => []EntryContract
<1>1. BootInv => EntryContract
  BY EntryInvContract DEF BootInv
<1> QED BY <1>1, BootInvAlways, PTL

\* DescriptorIter::next never reads outside the array the header announces, for
\* every map_size and every descriptor_size.
THEOREM DescriptorReadsInside == Spec => []ReadsInsideMap
BY BootInvAlways, BootInvReads, PTL

\* The stackless walker of walk_device_tree always knows which open node it
\* tracks, for every nesting of the tree and every place where it breaks off.
THEOREM WalkerTracksOpenNode == Spec => []TracksOpenNode
<1>1. BootInv => TracksOpenNode
  BY FdtInvTracks DEF BootInv
<1> QED BY <1>1, BootInvAlways, PTL

\* kernel_main is given the firmware's descriptors, the first MAX_MEMORY_REGIONS
\* of them, in order and rightly classified, and the Root Task's total of usable
\* memory counts the free ones and no other, for every memory map.
THEOREM ManifestIsTheMap == Spec => []ManifestIsFirmwareMap
BY BootInvAlways, BootInvMap, PTL

\* What DMAR, IORT, MADT or the device tree say reaches Memory, the CPU's flags,
\* the manifest and each of its regions, for every list of tables in any order.
THEOREM FirmwareIsHeard == Spec => []FirmwareAgrees
BY BootInvAlways, BootInvFirmware, PTL
=============================================================================
