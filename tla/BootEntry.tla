----------------------------- MODULE BootEntry -----------------------------
(***************************************************************************)
(* The _start of the three architectures (the global_asm of lib.rs), one   *)
(* instruction group per step, up to the call of the rust entry function.  *)
(* Core 0 boots; under SBI's protocol other harts may enter _start too, at *)
(* any moment, and are parked, while on x86_64 and arm64 the other cores   *)
(* stay off until somebody starts them, which nothing in this code does.   *)
(***************************************************************************)
EXTENDS Integers

CONSTANTS
  Archs,      \* subset of {"x86_64", "arm64", "riscv64"}
  Harts,      \* hart ids, 0 among them
  BssWords    \* bound: words of .bss

ASSUME EntryAssumption ==
  /\ Archs \subseteq {"x86_64", "arm64", "riscv64"}
  /\ 0 \in Harts /\ Harts \subseteq Nat /\ BssWords \in Nat \ {0}

VARIABLES
  arch,
  at,         \* where each hart is: "off", "start", "zero", "rust", "parked"
  el,         \* arm64: the exception level of CurrentEL
  cursor,     \* each hart's pointer into .bss
  bss,        \* each word of .bss: "junk", "zero", or "live" once rust uses it
  argument    \* the register of the first argument, as the boot hart leaves it

entry == <<at, el, cursor, bss, argument>>

Words == 0..(BssWords - 1)

\* Firmware enters with its pointer in the argument register; UEFI may do so
\* in EL2.  Not every hart need be released.
EntryInit ==
  /\ arch \in Archs
  /\ at \in [Harts -> {"off", "start"}]
  /\ arch # "riscv64" => \A h \in Harts : at[h] = "start" <=> h = 0
  /\ el \in IF arch = "arm64" THEN {1, 2} ELSE {1}
  /\ cursor = [h \in Harts |-> 0]
  /\ bss = [w \in Words |-> "junk"]
  /\ argument = "map"

----------------------------------------------------------------------------
\* riscv64 step 1: only hart 0 continues.
park_secondary_hart(h) ==
  /\ arch = "riscv64" /\ at[h] = "start" /\ h # 0
  /\ at' = [at EXCEPT ![h] = "parked"]
  /\ UNCHANGED <<arch, el, cursor, bss, argument>>

\* arm64 step 0: eret from EL2 to label 1, which is where EL1 goes directly.
drop_to_el1(h) ==
  /\ arch = "arm64" /\ at[h] = "start" /\ el = 2
  /\ el' = 1
  /\ UNCHANGED <<arch, at, cursor, bss, argument>>

\* Slip: the hart id is not tested.
set_any_stack(h) ==
  /\ at[h] = "start" /\ el = 1
  /\ at' = [at EXCEPT ![h] = "zero"]
  /\ UNCHANGED <<arch, el, cursor, bss, argument>>

\* The boot stack, of which there is one.
set_stack(h) ==
  /\ at[h] = "start" /\ el = 1
  /\ arch = "riscv64" => h = 0
  /\ at' = [at EXCEPT ![h] = "zero"]
  /\ UNCHANGED <<arch, el, cursor, bss, argument>>

\* Step 2, one word: x86_64's rep stosb takes its pointer in RDI, the
\* register of the first argument; arm64 counts in x1 and x2, riscv64 in t0
\* and t1.
zero_bss(h) ==
  /\ at[h] = "zero" /\ cursor[h] < BssWords
  /\ bss' = [bss EXCEPT ![cursor[h]] = "zero"]
  /\ cursor' = [cursor EXCEPT ![h] = @ + 1]
  /\ argument' = IF arch = "x86_64" THEN "bss" ELSE argument
  /\ UNCHANGED <<arch, at, el>>

\* Step 4: what rust finds zeroed becomes its statics.
call_rust_entry(h) ==
  /\ at[h] = "zero" /\ cursor[h] = BssWords
  /\ at' = [at EXCEPT ![h] = "rust"]
  /\ bss' = [w \in Words |-> IF bss[w] = "zero" THEN "live" ELSE "junk"]
  /\ UNCHANGED <<arch, el, cursor, argument>>

EntryNext ==
  \E h \in Harts : \/ park_secondary_hart(h) \/ drop_to_el1(h) \/ set_stack(h)
                   \/ zero_bss(h) \/ call_rust_entry(h)

EntrySpec == EntryInit /\ [][EntryNext]_<<arch, entry>>

----------------------------------------------------------------------------
EntryTypeOK ==
  /\ arch \in Archs
  /\ at \in [Harts -> {"off", "start", "zero", "rust", "parked"}]
  /\ el \in {1, 2} /\ cursor \in [Harts -> 0..BssWords]
  /\ bss \in [Words -> {"junk", "zero", "live"}]
  /\ argument \in {"map", "bss"}

\* The safety contract of the rust entry, but for its argument: it runs in EL1,
\* on a stack no other hart uses, and its statics were zero when it began and
\* are never zeroed under it by a hart that enters late.
EntryContract ==
  \A h \in Harts : at[h] = "rust" =>
    /\ el = 1
    /\ \A w \in Words : bss[w] = "live"
    /\ \A g \in Harts \ {h} : at[g] \notin {"zero", "rust"}

\* hal-x86_64/src/lib.rs:67-68: "RDI still holds the UEFI memory map pointer
\* passed in by the bootloader stub"; arm64 and riscv64 say the same of X0 and
\* a1: the rust entry receives the firmware's pointer.
EntryGetsFirmwarePointer == \A h \in Harts : at[h] = "rust" => argument = "map"
=============================================================================
