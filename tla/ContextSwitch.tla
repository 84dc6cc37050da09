--------------------------- MODULE ContextSwitch ---------------------------
(***************************************************************************)
(* CpuAbstraction::context_switch of the three hal-<arch> crates and the   *)
(* trap entry of their cpu.rs, on one core.                                *)
(*                                                                         *)
(* A switch is the instruction sequence of the asm! block: save the        *)
(* running context, load the address space root, on x86_64 the flags, the  *)
(* stack pointer and the callee-saved registers, jump.  Between two        *)
(* instructions an interrupt arrives if the core accepts one; the trap     *)
(* entry saves the general registers on the stack in use and calls the     *)
(* kernel's handler, which may itself switch threads.                      *)
(*                                                                         *)
(* A register's content is abstracted to who computed it: <<t, m>> is      *)
(* what thread t holds after its computation step m.  The callee-saved     *)
(* general registers are one value, since all are saved and loaded by the  *)
(* same block; d8-d15 and fs0-fs11, callee-saved as well, are another,     *)
(* which no block saves or loads (the x86_64 target has none).  The        *)
(* kernel's caller contract (hal-core/src/cpu.rs:215) is the guard of      *)
(* context_switch.                                                         *)
(***************************************************************************)
EXTENDS Naturals

CONSTANTS
  Archs,       \* the architectures of this instance
  Threads,     \* the kernel's threads
  FreshFlags,  \* interrupt-enable bits that thread creation writes
  Preemptive,  \* the architectures on which handlers switch threads
  Label,       \* the address of `1:` in the asm! block
  Handler      \* a return address inside the trap handler

\* The steps of a thread's computation that the model tells apart.
Marks == 0 .. 1

\* What thread t has computed, and where in t's code it was computed.
Points == Threads \X Marks

Codes == Points \cup {Label, Handler}

ASSUME ContextAssumption ==
  /\ Archs \subseteq {"x86_64", "arm64", "riscv64"}
  /\ FreshFlags \subseteq BOOLEAN
  /\ Preemptive \subseteq Archs
  /\ Label # Handler /\ Label \notin Points /\ Handler \notin Points

VARIABLES
  arch,        \* which hal-<arch> crate is linked
  live,        \* the build keeps context_switch's return address in ra / x30
  vectors,     \* bootstrap_current_core has installed the vector table
  running,     \* the thread whose code runs; in a switch, `from`
  target,      \* in a switch, `to`
  phase,       \* where in the asm! block the core is; "run" is outside it
  cpu,         \* the registers
  ctx,         \* each thread's CpuContext
  stack,       \* each thread's stack: a return address and a trap frame
  own          \* history: the registers each thread left off with

vars == <<arch, live, vectors, running, target, phase, cpu, ctx, stack, own>>

Phases == {"run", "save", "root", "flags", "stack", "jump"}

\* X86_64Context, Arm64Context and Riscv64Context: pc is rip, the x30 slot,
\* the ra slot; ie the interrupt bit of rflags, spsr_el1, sstatus.  cs, ss and
\* the thread-local slots (fs_base, tpidr_el0, tp) are never read or written.
Contexts ==
  [callee : Points, sp : Threads, root : Threads, pc : Points \cup {Label},
   ie : BOOLEAN]

\* The registers: epc is ELR_EL1 or sepc, link is x30 or ra, fp the
\* callee-saved floating-point registers.
Registers ==
  [callee : Points, fp : Points, sp : Threads, root : Threads, pc : Codes, link : Codes,
   epc : Codes, ie : BOOLEAN]

Stacks ==
  [ret : Codes, trapped : BOOLEAN, callee : Points, pc : Codes]

\* A context as the kernel's thread creation writes it.
Fresh(t, ie) ==
  [callee |-> <<t, 0>>, sp |-> t, root |-> t, pc |-> <<t, 0>>, ie |-> ie]

\* One thread runs, interrupts are off as boot left them, the others are new.
\* On x86_64 the call pushes the return address; elsewhere it is in the link
\* register, and the compiler may spill it or not: the asm! block declares no
\* clobber of it.
Init ==
  /\ arch \in Archs
  /\ live \in BOOLEAN /\ (live => arch # "x86_64")
  /\ vectors = FALSE
  /\ running \in Threads
  /\ target = running
  /\ phase = "run"
  /\ cpu = [callee |-> <<running, 0>>, fp |-> <<running, 0>>, sp |-> running,
            root |-> running, pc |-> <<running, 0>>, link |-> Label, epc |-> Label,
            ie |-> FALSE]
  /\ \E fresh \in [Threads -> FreshFlags] :
        ctx = [t \in Threads |-> Fresh(t, fresh[t])]
  /\ stack = [t \in Threads |-> [ret |-> Label, trapped |-> FALSE,
                                 callee |-> <<t, 0>>, pc |-> Label]]
  /\ own = [t \in Threads |-> [callee |-> <<t, 0>>, fp |-> <<t, 0>>, pc |-> <<t, 0>>]]
-----------------------------------------------------------------------------
Trapped == stack[running].trapped

\* load_gdt and load_idt, load_vbar, load_stvec.
bootstrap_current_core ==
  /\ ~vectors
  /\ vectors' = TRUE
  /\ UNCHANGED <<arch, live, running, target, phase, cpu, ctx, stack, own>>

\* The running thread computes: new register contents, a new place in its code.
Compute(m) ==
  /\ phase = "run" /\ ~Trapped
  /\ cpu' = [cpu EXCEPT !.callee = <<running, m>>, !.fp = <<running, m>>,
                        !.pc = <<running, m>>]
  /\ own' = [own EXCEPT ![running] = [callee |-> <<running, m>>, fp |-> <<running, m>>,
                                      pc |-> <<running, m>>]]
  /\ UNCHANGED <<arch, live, vectors, running, target, phase, ctx, stack>>

\* The kernel masks or unmasks interrupts; never before the vectors are there.
SetInterrupts(ie) ==
  /\ phase = "run" /\ ~Trapped
  /\ vectors
  /\ cpu.ie # ie
  /\ cpu' = [cpu EXCEPT !.ie = ie]
  /\ UNCHANGED <<arch, live, vectors, running, target, phase, ctx, stack, own>>

\* isr_common_trampoline, irq_exception_entry, trap_entry on the way in: the
\* general registers go to the stack.  The interrupted address is on the stack
\* too on x86_64, where the core pushes it, and only in epc elsewhere.  An
\* interrupt inside a switch is left out: there is one only on x86_64, between
\* popfq and mov rsp, for a `to` whose rflags were written with interrupts on.
trap_entry ==
  /\ phase = "run" /\ cpu.ie /\ ~Trapped
  /\ stack' = [stack EXCEPT ![cpu.sp].trapped = TRUE,
                            ![cpu.sp].callee = cpu.callee,
                            ![cpu.sp].pc = cpu.pc]
  /\ cpu' = [cpu EXCEPT !.epc = cpu.pc, !.pc = Handler, !.ie = FALSE]
  /\ UNCHANGED <<arch, live, vectors, running, target, phase, ctx, own>>

\* Slip: the general registers are not popped before the return.
return_without_pop ==
  /\ phase = "run" /\ Trapped
  /\ cpu' = [cpu EXCEPT !.callee = <<running, 0>>,
                        !.pc = stack[cpu.sp].pc, !.ie = TRUE]
  /\ stack' = [stack EXCEPT ![cpu.sp].trapped = FALSE]
  /\ UNCHANGED <<arch, live, vectors, running, target, phase, ctx, own>>

\* The trap entry on the way out: pop the registers, then iretq, eret or sret.
trap_return ==
  /\ phase = "run" /\ Trapped
  /\ cpu' = [cpu EXCEPT !.callee = stack[cpu.sp].callee,
                        !.pc = IF arch = "x86_64" THEN stack[cpu.sp].pc
                                                  ELSE cpu.epc,
                        !.ie = TRUE]
  /\ stack' = [stack EXCEPT ![cpu.sp].trapped = FALSE]
  /\ UNCHANGED <<arch, live, vectors, running, target, phase, ctx, own>>
-----------------------------------------------------------------------------
\* The kernel calls context_switch, with interrupts off and another thread's
\* context, as the trait's safety contract asks.
context_switch(t) ==
  /\ phase = "run" /\ ~cpu.ie
  /\ Trapped => arch \in Preemptive
  /\ t # running
  /\ phase' = "save"
  /\ target' = t
  /\ cpu' = [cpu EXCEPT !.link = cpu.pc]
  /\ stack' = IF live THEN stack
              ELSE [stack EXCEPT ![cpu.sp].ret = cpu.pc]
  /\ UNCHANGED <<arch, live, vectors, running, ctx, own>>

\* Slip: the caller's address is stored, not that of `1:`.
save_return_address(c) ==
  [c EXCEPT !.callee = cpu.callee, !.sp = cpu.sp, !.pc = cpu.pc,
            !.ie = cpu.ie, !.root = cpu.root]

\* What each asm! block stores, cpu.fp never: c is the context as it was.
save_x86_64(c) ==
  [c EXCEPT !.callee = cpu.callee, !.sp = cpu.sp, !.pc = Label,
            !.ie = cpu.ie, !.root = cpu.root]

save_arm64(c) ==
  [c EXCEPT !.callee = cpu.callee, !.sp = cpu.sp, !.root = cpu.root,
            !.pc = Label]

save_riscv64(c) ==
  [c EXCEPT !.callee = cpu.callee, !.sp = cpu.sp, !.root = cpu.root,
            !.pc = Label]

Saved(c) ==
  CASE arch = "x86_64"  -> save_x86_64(c)
    [] arch = "arm64"   -> save_arm64(c)
    [] arch = "riscv64" -> save_riscv64(c)

Save ==
  /\ phase = "save"
  /\ ctx' = [ctx EXCEPT ![running] = Saved(ctx[running])]
  /\ phase' = "root"
  /\ UNCHANGED <<arch, live, vectors, running, target, cpu, stack, own>>

\* cr3, ttbr0_el1, satp.
LoadRoot ==
  /\ phase = "root"
  /\ cpu' = [cpu EXCEPT !.root = ctx[target].root]
  /\ phase' = IF arch = "x86_64" THEN "flags" ELSE "stack"
  /\ UNCHANGED <<arch, live, vectors, running, target, ctx, stack, own>>

\* x86_64: push rax; popfq, on the stack the switch came in on.
LoadFlags ==
  /\ phase = "flags"
  /\ cpu' = [cpu EXCEPT !.ie = ctx[target].ie]
  /\ phase' = "stack"
  /\ UNCHANGED <<arch, live, vectors, running, target, ctx, stack, own>>

\* The stack pointer and the callee-saved registers; on arm64 x30 with them.
LoadStack ==
  /\ phase = "stack"
  /\ cpu' = [cpu EXCEPT !.sp = ctx[target].sp, !.callee = ctx[target].callee,
                        !.link = IF arch = "arm64" THEN ctx[target].pc ELSE @]
  /\ phase' = "jump"
  /\ UNCHANGED <<arch, live, vectors, running, target, ctx, stack, own>>

\* Slip: the resume point is the caller's, not the one on the new stack.
jump_to_caller ==
  /\ phase = "jump"
  /\ cpu' = [cpu EXCEPT !.pc = cpu.link]
  /\ running' = target
  /\ phase' = "run"
  /\ UNCHANGED <<arch, live, vectors, target, ctx, stack, own>>

\* jmp rax, br x30, jr t0: to a new thread's entry point, or to `1:`, from
\* where context_switch returns to its caller.
Jump ==
  /\ phase = "jump"
  /\ cpu' = [cpu EXCEPT !.pc = CASE ctx[target].pc # Label -> ctx[target].pc
                                 [] live                   -> cpu.link
                                 [] OTHER                  -> stack[cpu.sp].ret]
  /\ running' = target
  /\ phase' = "run"
  /\ UNCHANGED <<arch, live, vectors, target, ctx, stack, own>>

Switching == Save \/ LoadRoot \/ LoadFlags \/ LoadStack \/ Jump

Next ==
  \/ bootstrap_current_core
  \/ \E m \in Marks : Compute(m)
  \/ \E ie \in BOOLEAN : SetInterrupts(ie)
  \/ trap_entry
  \/ trap_return
  \/ \E t \in Threads : context_switch(t)
  \/ Switching

Spec == Init /\ [][Next]_vars
-----------------------------------------------------------------------------
\* Types: every register, saved context, stack and history keeps its range.
TypeOK ==
  /\ arch \in Archs /\ live \in BOOLEAN
  /\ vectors \in BOOLEAN
  /\ running \in Threads /\ target \in Threads
  /\ phase \in Phases
  /\ cpu \in Registers
  /\ ctx \in [Threads -> Contexts]
  /\ stack \in [Threads -> Stacks]
  /\ own \in [Threads -> [callee : Points, fp : Points, pc : Points]]

(* A thread that runs finds its callee-saved general registers as it left  *)
(* them, on its own stack and in its own address space, however many       *)
(* switches and preempted handlers lie between (context_switch of the      *)
(* three crates).  In a build that keeps the return address in the link    *)
(* register a thread does not get back to its code: see ReturnsToCaller.   *)
ContextSurvives ==
  phase = "run" /\ ~live =>
    /\ cpu.callee = own[running].callee
    /\ cpu.sp = running
    /\ cpu.root = running

(* A thread that runs, and whose handler is not running, continues in its  *)
(* own code where it left off: context_switch returns to its caller and a  *)
(* trap returns to the instruction it interrupted, after any switches, in  *)
(* every build that spills context_switch's return address.                *)
ResumesOwnCode ==
  phase = "run" /\ ~Trapped /\ ~live => cpu.pc = own[running].pc

(* The same for every build: context_switch "saves the currently running   *)
(* context into `from`, then restores `to` and resumes execution there"    *)
(* (hal-core/src/cpu.rs:210).  The block says nothing of x30 or ra to the  *)
(* compiler, which may keep the return address there across it.            *)
ReturnsToCaller ==
  phase = "run" /\ ~Trapped => cpu.pc = own[running].pc
=============================================================================
