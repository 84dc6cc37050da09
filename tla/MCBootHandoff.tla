--------------------------- MODULE MCBootHandoff ---------------------------
(***************************************************************************)
(* The types of the instance: boot services, runtime services,             *)
(* conventional, ACPI, MMIO and one that no version defines.               *)
(***************************************************************************)
EXTENDS BootHandoff

MCTypes == {4, 6, 7, 9, 11, 15}
MCStrides == {0, 1, 2, 3}
MCMemory == [page |-> 0, length |-> 3]
MCPlic == [page |-> 9, length |-> 1]
MCRegs == {[page |-> 5, length |-> 2]}
============================================================================
