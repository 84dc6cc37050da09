------------------------------ MODULE MCTimer ------------------------------
(* Small instances of Timer for TLC. *)
EXTENDS Timer

AllArchs == {"x86_64", "arm64", "riscv64"}
LevelArchs == {"arm64", "riscv64"}

MCFreqs == {2, 3, 5}
MCDeadlines == {2, 3, 5}
=============================================================================
