-------------------------- MODULE MCInterruptCtrl --------------------------
(* Small instances of InterruptCtrl for TLC. *)
EXTENDS InterruptCtrl

AllArchs == {"x86_64", "arm64", "riscv64"}
Riscv == {"riscv64"}
=============================================================================
