-------------------------- MODULE MCContextSwitch --------------------------
(* Small instances of ContextSwitch for TLC. *)
EXTENDS ContextSwitch, TLC

AllArchs == {"x86_64", "arm64", "riscv64"}
X86 == {"x86_64"}
LinkRegister == {"arm64", "riscv64"}
None == {}

\* Nothing tells one thread from another.
ThreadSymmetry == Permutations(Threads)
=============================================================================
