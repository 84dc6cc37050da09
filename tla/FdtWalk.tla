------------------------------ MODULE FdtWalk ------------------------------
(***************************************************************************)
(* hal-riscv64's discovery from the flattened device tree: the token loop  *)
(* of walk_device_tree and Memory::from_device_tree, which falls back to   *)
(* the values of QEMU's virt machine.                                      *)
(*                                                                         *)
(* The firmware's blob is not enumerated: each step reads one more token   *)
(* of some well-formed structure block, that is of one root node with an   *)
(* empty name, whose properties come before its children.  Whether a node  *)
(* that was read is an IOMMU is kept beside it, in seen.                   *)
(***************************************************************************)
EXTENDS Integers, Sequences

CONSTANTS
  Bases,      \* what a reg property may hold: an address, with its size
  MaxDepth,   \* bound: nesting of the nodes in the tree
  Nothing     \* Option::None

VARIABLES
  path,           \* the open nodes of the tree, outermost first
  pc,             \* "header", "walk" or "done"
  depth,          \* the walker's depth
  current,        \* CurrentNode
  current_depth,
  result,         \* DtDiscoveryResult
  seen            \* history: whether a node that has closed is an IOMMU

walker == <<depth, current, current_depth>>

\* memory@80000000, plic@c000000, any other node; the root's empty name is Root.
Names == {"memory", "plic", "other"}
Root == "root"

\* What a node of that name may be compatible with; "plic0" is "riscv,plic0".
Compatibles(name) == CASE name = "plic" -> {"plic0"}
                       [] name = "other" -> {"iommu", "other"}
                       [] OTHER -> {"other"}
Values == Bases \cup {Nothing}

Found == [plic_base |-> Nothing, iommu_present |-> FALSE, memory_base |-> Nothing]

Node(name) == [name |-> name, compatible |-> "none", reg |-> Nothing, children |-> FALSE]

Top == path[Len(path)]

Init ==
  /\ path = <<>>
  /\ pc = "header"
  /\ depth = 0 /\ current = "None" /\ current_depth = -1
  /\ result = Found
  /\ seen = FALSE

----------------------------------------------------------------------------
\* FdtHeader::read: a blob without the magic number yields nothing.
read_header ==
  /\ pc = "header"
  /\ \E magic \in BOOLEAN : pc' = IF magic THEN "walk" ELSE "done"
  /\ UNCHANGED <<path, walker, result, seen>>

\* FDT_BEGIN_NODE.
BeginNode(name) ==
  /\ pc = "walk"
  /\ IF path = <<>> THEN name = Root ELSE name \in Names /\ Len(path) < MaxDepth
  /\ path' = Append(IF path = <<>> THEN path
                    ELSE [path EXCEPT ![Len(path)].children = TRUE], Node(name))
  /\ depth' = depth + 1
  /\ IF current = "None"
     THEN /\ current' = CASE name = "memory" -> "Memory"
                          [] name = "plic" -> "Plic"
                          [] OTHER -> "PossibleIommu"
          /\ current_depth' = depth + 1
     ELSE UNCHANGED <<current, current_depth>>
  /\ UNCHANGED <<pc, result, seen>>

\* Slip: depth falls before it is compared.
end_ascending_first ==
  /\ pc = "walk" /\ path # <<>>
  /\ seen' = (seen \/ Top.compatible = "iommu")
  /\ path' = SubSeq(path, 1, Len(path) - 1)
  /\ IF depth - 1 = current_depth THEN current' = "None" /\ current_depth' = -1
                                  ELSE UNCHANGED <<current, current_depth>>
  /\ depth' = depth - 1
  /\ pc' = IF Len(path) = 1 THEN "done" ELSE "walk"
  /\ UNCHANGED result

\* FDT_END_NODE.
EndNode ==
  /\ pc = "walk" /\ path # <<>>
  /\ seen' = (seen \/ Top.compatible = "iommu")
  /\ path' = SubSeq(path, 1, Len(path) - 1)
  /\ IF depth = current_depth THEN current' = "None" /\ current_depth' = -1
                              ELSE UNCHANGED <<current, current_depth>>
  /\ depth' = depth - 1
  /\ pc' = IF Len(path) = 1 THEN "done" ELSE "walk"      \* FDT_END follows
  /\ UNCHANGED result

\* FDT_PROP reg; one that is too short for an address and a size is skipped.
PropReg(base) ==
  /\ pc = "walk" /\ Len(path) > 1 /\ ~Top.children /\ Top.reg = Nothing
  /\ path' = [path EXCEPT ![Len(path)].reg = base]
  /\ result' = CASE current = "Memory" -> [result EXCEPT !.memory_base = base]
                 [] current = "Plic" -> [result EXCEPT !.plic_base = base]
                 [] OTHER -> result
  /\ UNCHANGED <<pc, walker, seen>>

\* FDT_PROP compatible.
PropCompatible(value) ==
  /\ pc = "walk" /\ path # <<>> /\ ~Top.children /\ Top.compatible = "none"
  /\ value \in Compatibles(Top.name)
  /\ path' = [path EXCEPT ![Len(path)].compatible = value]
  /\ result' = IF current = "PossibleIommu" /\ value = "iommu"
               THEN [result EXCEPT !.iommu_present = TRUE] ELSE result
  /\ UNCHANGED <<pc, walker, seen>>

\* An unknown token, or the end of the block inside a node: the walk stops.
Truncated ==
  /\ pc = "walk"
  /\ pc' = "done"
  /\ UNCHANGED <<path, walker, result, seen>>

walk_device_tree ==
  \/ read_header
  \/ \E name \in Names \cup {Root} : BeginNode(name)
  \/ EndNode
  \/ \E base \in Bases : PropReg(base)
  \/ \E value \in {"plic0", "iommu", "other"} : PropCompatible(value)
  \/ Truncated

(***************************************************************************)
(* Memory::from_device_tree: one Usable region, and the PLIC's base.       *)
(***************************************************************************)
unwrap_or(option, default) == IF option = Nothing THEN default ELSE option

from_device_tree(default_memory, default_plic) ==
  [ memory |-> unwrap_or(result.memory_base, default_memory),
    behind_iommu |-> result.iommu_present,
    plic_base |-> unwrap_or(result.plic_base, default_plic) ]

----------------------------------------------------------------------------
(***************************************************************************)
(* Properties.                                                             *)
(***************************************************************************)
Results == [plic_base : Values, iommu_present : BOOLEAN, memory_base : Values]

\* Types: the walker's cells and the result keep their ranges.
TypeOK ==
  /\ Len(path) \in 0..MaxDepth
  /\ pc \in {"header", "walk", "done"}
  /\ depth \in 0..MaxDepth
  /\ current \in {"None", "Memory", "Plic", "PossibleIommu"}
  /\ current_depth \in {-1} \cup 1..MaxDepth
  /\ result \in Results
  /\ seen \in BOOLEAN

\* Without a stack the walker still knows which open node it tracks: it tracks
\* one exactly while that node is open, so a closing node never ends the
\* tracking of another.
TracksOpenNode ==
  /\ depth = Len(path)
  /\ current = "None" <=> current_depth = -1
  /\ current # "None" =>
       /\ current_depth \in 1..Len(path)
       /\ current = CASE path[current_depth].name = "memory" -> "Memory"
                      [] path[current_depth].name = "plic" -> "Plic"
                      [] OTHER -> "PossibleIommu"

\* An IOMMU anywhere in a tree that was read to its end is found, and none is
\* reported that is not there.
IommuFound ==
  pc = "done" /\ path = <<>> => result.iommu_present = seen

=============================================================================
