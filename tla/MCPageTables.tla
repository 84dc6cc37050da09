---------------------------- MODULE MCPageTables ----------------------------
(* Small instances of PageTables for TLC. *)
EXTENDS PageTables

AllArchs == {"x86_64", "arm64", "riscv64"}
Arm == {"arm64"}

\* On these the link address of the image (KERNEL_VMA_BASE) has bits above the
\* address field that no mask brings back.
Masked == {"x86_64", "riscv64"}

Region(b, n) == [base_addr |-> b, length_bytes |-> n]

\* Empty; pages 0 and 1 from the middle of a page; page 3; pages 8 and 9, which
\* lie in different tables; a region that wraps.
LowRegions == {Region(4, 0), Region(1, 2), Region(6, 1), Region(17, 2), Region(179, 2)}

\* The hypothesis of the theorems on what is mapped holds of this instance.
ASSUME RegionsAreCanonical == CanonicalRegions
=============================================================================
