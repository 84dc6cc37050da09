--------------------------- MODULE ContextProofs ---------------------------
(***************************************************************************)
(* Proofs of the safety properties of ContextSwitch for every set of       *)
(* threads.  The theorems beyond type correctness assume SafeKernel: under *)
(* other kernels a trap returns through another thread's epc, or an        *)
(* interrupt arrives inside a switch.  They are about the builds that      *)
(* spill the return address of context_switch (~live).                     *)
(***************************************************************************)
EXTENDS ContextSwitch, TLAPS

\* Handlers switch threads only where the trap frame holds the interrupted
\* address, and new threads start with interrupts off.
SafeKernel ==
  /\ Preemptive \subseteq {"x86_64"}
  /\ FreshFlags \subseteq {FALSE}

(***************************************************************************)
(* The inductive invariant.                                                *)
(***************************************************************************)

\* Where context_switch returns to in thread t: its handler, or its own code.
RetIsOwn(t) ==
  /\ stack[t].trapped => stack[t].ret = Handler
  /\ ~stack[t].trapped => stack[t].ret = own[t].pc

\* The context of a thread that does not run holds what it left off with.
SavedIsOwn(t) ==
  /\ ctx[t].callee = own[t].callee /\ ctx[t].sp = t /\ ctx[t].root = t
  /\ ctx[t].pc = Label => RetIsOwn(t)
  /\ ctx[t].pc # Label => ~stack[t].trapped /\ ctx[t].pc = own[t].pc

\* A thread is suspended from the moment its registers are in its context.
Suspended(t) == t # running \/ phase \notin {"run", "save"}

SuspendedIntact == \A t \in Threads : Suspended(t) => SavedIsOwn(t)

\* A trap frame holds what the interrupted thread had.
FramesIntact ==
  \A t \in Threads : stack[t].trapped =>
    stack[t].callee = own[t].callee /\ stack[t].pc = own[t].pc

\* Off x86_64 the only trap frame is the running thread's, so epc is still its.
EpcIsOwn ==
  arch # "x86_64" => \A t \in Threads : stack[t].trapped =>
    t = running /\ phase = "run" /\ cpu.epc = own[t].pc

\* What is already loaded at each step of a switch.
Progress ==
  /\ phase \in {"run", "save"} =>
       /\ cpu.callee = own[running].callee
       /\ cpu.sp = running /\ cpu.root = running
  /\ phase = "run" /\ Trapped => cpu.pc = Handler
  /\ phase = "run" /\ ~Trapped => cpu.pc = own[running].pc
  /\ phase = "save" => RetIsOwn(running)
  /\ phase # "run" => target # running
  /\ phase \in {"flags", "stack", "jump"} => cpu.root = target
  /\ phase = "jump" => cpu.sp = target /\ cpu.callee = own[target].callee

\* No interrupt is accepted in a switch, and none is saved as accepted.
MaskedInside ==
  /\ phase # "run" => cpu.ie = FALSE
  /\ \A t \in Threads : ctx[t].ie = FALSE

\* What holds in the builds that spill, and the whole.
SpilledInv ==
  TypeOK /\ SuspendedIntact /\ FramesIntact /\ EpcIsOwn /\ Progress
  /\ MaskedInside

IInv == TypeOK /\ (~live => SpilledInv)

(***************************************************************************)
(* Type correctness.                                                       *)
(***************************************************************************)

\* A pair of a thread and a mark is a point.
LEMMA PointType == ASSUME NEW t \in Threads, NEW m \in Marks
                   PROVE  <<t, m>> \in Points
BY DEF Points

LEMMA InitType == Init => TypeOK
<1> SUFFICES ASSUME Init PROVE TypeOK
  OBVIOUS
<1>1. 0 \in Marks
  BY DEF Marks
<1>2. \A t \in Threads : <<t, 0>> \in Points
  BY <1>1, PointType
<1>3. cpu \in Registers
  BY <1>2 DEF Init, Registers, Codes
<1>4. ctx \in [Threads -> Contexts]
  <2>1. PICK fresh \in [Threads -> FreshFlags] :
          ctx = [t \in Threads |-> Fresh(t, fresh[t])]
    BY DEF Init
  <2>2. \A t \in Threads : fresh[t] \in BOOLEAN
    BY ContextAssumption
  <2>3. \A t \in Threads : Fresh(t, fresh[t]) \in Contexts
    BY <1>2, <2>2 DEF Fresh, Contexts
  <2> QED BY <2>1, <2>3
<1>5. stack \in [Threads -> Stacks]
  BY <1>2 DEF Init, Stacks, Codes
<1>6. own \in [Threads -> [callee : Points, fp : Points, pc : Points]]
  BY <1>2 DEF Init
<1> QED BY <1>3, <1>4, <1>5, <1>6 DEF Init, TypeOK, Phases

\* What the asm! blocks store is a context.
LEMMA SavedType == ASSUME TypeOK, NEW c \in Contexts PROVE Saved(c) \in Contexts
<1>1. arch \in {"x86_64", "arm64", "riscv64"}
  BY ContextAssumption DEF TypeOK
<1>2. /\ cpu.callee \in Points /\ cpu.sp \in Threads /\ cpu.root \in Threads
      /\ cpu.ie \in BOOLEAN
  BY DEF TypeOK, Registers
<1> QED BY <1>1, <1>2 DEF Saved, save_x86_64, save_arm64, save_riscv64, Contexts

LEMMA NextType == TypeOK /\ [Next]_vars => TypeOK'
<1> SUFFICES ASSUME TypeOK, [Next]_vars PROVE TypeOK'
  OBVIOUS
<1> USE DEF TypeOK
<1>1. CASE bootstrap_current_core
  BY <1>1 DEF bootstrap_current_core
<1>2. ASSUME NEW m \in Marks, Compute(m) PROVE TypeOK'
  <2>1. <<running, m>> \in Points
    BY PointType
  <2> QED BY <1>2, <2>1 DEF Compute, Registers, Codes
<1>3. ASSUME NEW ie \in BOOLEAN, SetInterrupts(ie) PROVE TypeOK'
  BY <1>3 DEF SetInterrupts, Registers
<1>4. CASE trap_entry
  <2>1. cpu.callee \in Points /\ cpu.pc \in Codes /\ Handler \in Codes
    BY DEF Registers, Codes
  <2>2. cpu' \in Registers
    BY <1>4, <2>1 DEF trap_entry, Registers
  <2>3. stack' \in [Threads -> Stacks]
    BY <1>4, <2>1 DEF trap_entry, Stacks
  <2> QED BY <1>4, <2>2, <2>3 DEF trap_entry
<1>5. CASE trap_return
  BY <1>5 DEF trap_return, Registers, Stacks
<1>6. ASSUME NEW t \in Threads, context_switch(t) PROVE TypeOK'
  BY <1>6 DEF context_switch, Registers, Stacks, Phases
<1>7. CASE Save
  BY <1>7, SavedType DEF Save, Phases
<1>8. CASE LoadRoot
  BY <1>8 DEF LoadRoot, Registers, Contexts, Phases
<1>9. CASE LoadFlags
  BY <1>9 DEF LoadFlags, Registers, Contexts, Phases
<1>10. CASE LoadStack
  BY <1>10 DEF LoadStack, Registers, Contexts, Codes, Phases
<1>11. CASE Jump
  BY <1>11 DEF Jump, Registers, Contexts, Stacks, Codes, Phases
<1>12. CASE UNCHANGED vars
  BY <1>12 DEF vars
<1> QED BY <1>1, <1>2, <1>3, <1>4, <1>5, <1>6, <1>7, <1>8, <1>9, <1>10, <1>11,
           <1>12 DEF Next, Switching

\* The registers, contexts and stacks keep their shape in every behaviour, for
\* every kernel and every build.
THEOREM TypeCorrect == Spec => []TypeOK
<1> QED BY InitType, NextType, PTL DEF Spec

(***************************************************************************)
(* The invariant is inductive.                                             *)
(***************************************************************************)

LEMMA InitInv == ASSUME SafeKernel, Init PROVE SpilledInv
<1>1. TypeOK
  BY InitType
<1>2. PICK fresh \in [Threads -> FreshFlags] :
        ctx = [t \in Threads |-> Fresh(t, fresh[t])]
  BY DEF Init
<1>3. \A t \in Threads : ctx[t] = Fresh(t, fresh[t]) /\ fresh[t] = FALSE
  BY <1>2 DEF SafeKernel
<1>4. \A t \in Threads : <<t, 0>> # Label
  <2>1. 0 \in Marks
    BY DEF Marks
  <2>2. \A t \in Threads : <<t, 0>> \in Points
    BY <2>1, PointType
  <2> QED BY <2>2, ContextAssumption
<1>5. SuspendedIntact /\ MaskedInside
  <2>1. \A t \in Threads :
          /\ ctx[t].callee = <<t, 0>> /\ ctx[t].sp = t /\ ctx[t].root = t
          /\ ctx[t].pc = <<t, 0>> /\ ctx[t].ie = FALSE
    <3> TAKE t \in Threads
    <3>1. ctx[t] = Fresh(t, FALSE)
      BY <1>3
    <3>2. /\ ctx[t].callee = <<t, 0>> /\ ctx[t].sp = t /\ ctx[t].root = t
          /\ ctx[t].pc = <<t, 0>>
      BY <3>1 DEF Fresh
    <3>3. ctx[t].ie = FALSE
      BY <3>1 DEF Fresh
    <3> QED BY <3>2, <3>3
  <2>2. \A t \in Threads :
          /\ own[t].callee = <<t, 0>> /\ own[t].pc = <<t, 0>>
          /\ stack[t].trapped = FALSE
    BY DEF Init
  <2>3. SuspendedIntact
    BY <1>4, <2>1, <2>2 DEF SuspendedIntact, SavedIsOwn
  <2>4. MaskedInside
    BY <2>1 DEF MaskedInside, Init
  <2> QED BY <2>3, <2>4
<1>6. FramesIntact /\ EpcIsOwn /\ Progress
  BY DEF FramesIntact, EpcIsOwn, Progress, Trapped, Init
<1> QED BY <1>1, <1>5, <1>6 DEF SpilledInv

LEMMA ComputeInv ==
  ASSUME SpilledInv, TypeOK', NEW m \in Marks, Compute(m) PROVE SpilledInv'
<1> USE DEF SpilledInv
<1>1. /\ phase = "run" /\ phase' = "run" /\ running' = running
      /\ ~stack[running].trapped /\ stack' = stack /\ ctx' = ctx
      /\ arch' = arch /\ target' = target
  BY DEF Compute, Trapped
<1>2. /\ cpu'.callee = <<running, m>> /\ cpu'.pc = <<running, m>>
      /\ cpu'.sp = cpu.sp /\ cpu'.root = cpu.root /\ cpu'.ie = cpu.ie
      /\ cpu'.epc = cpu.epc
  BY DEF Compute, TypeOK, Registers
<1>3. /\ own'[running] = [callee |-> <<running, m>>, fp |-> <<running, m>>, pc |-> <<running, m>>]
      /\ \A t \in Threads : t # running => own'[t] = own[t]
  BY DEF Compute, TypeOK
<1>4. SuspendedIntact'
  BY <1>1, <1>3 DEF SuspendedIntact, Suspended, SavedIsOwn, RetIsOwn
<1>5. FramesIntact'
  BY <1>1, <1>3 DEF FramesIntact
<1>6. EpcIsOwn'
  BY <1>1, <1>2, <1>3 DEF EpcIsOwn
<1>7. Progress' /\ MaskedInside'
  BY <1>1, <1>2, <1>3 DEF Progress, MaskedInside, Trapped
<1> QED BY <1>4, <1>5, <1>6, <1>7

LEMMA SetInterruptsInv ==
  ASSUME SpilledInv, TypeOK', NEW ie \in BOOLEAN, SetInterrupts(ie) PROVE SpilledInv'
<1> USE DEF SpilledInv
<1>1. /\ phase = "run" /\ phase' = "run" /\ running' = running
      /\ stack' = stack /\ ctx' = ctx /\ own' = own
      /\ arch' = arch /\ target' = target
  BY DEF SetInterrupts
<1>2. /\ cpu'.callee = cpu.callee /\ cpu'.pc = cpu.pc
      /\ cpu'.sp = cpu.sp /\ cpu'.root = cpu.root /\ cpu'.epc = cpu.epc
  BY DEF SetInterrupts, TypeOK, Registers
<1>3. SuspendedIntact' /\ FramesIntact'
  BY <1>1 DEF SuspendedIntact, Suspended, SavedIsOwn, RetIsOwn, FramesIntact
<1>4. EpcIsOwn'
  BY <1>1, <1>2 DEF EpcIsOwn
<1>5. Progress' /\ MaskedInside'
  BY <1>1, <1>2 DEF Progress, MaskedInside, Trapped
<1> QED BY <1>3, <1>4, <1>5

LEMMA TrapEntryInv == ASSUME SpilledInv, TypeOK', trap_entry PROVE SpilledInv'
<1> USE DEF SpilledInv
<1>1. /\ phase = "run" /\ phase' = "run" /\ running' = running
      /\ ctx' = ctx /\ own' = own /\ arch' = arch /\ target' = target
      /\ ~stack[running].trapped
  BY DEF trap_entry, Trapped
<1>2. /\ cpu'.callee = cpu.callee /\ cpu'.pc = Handler
      /\ cpu'.sp = cpu.sp /\ cpu'.root = cpu.root /\ cpu'.epc = cpu.pc
  BY DEF trap_entry, TypeOK, Registers
<1>3. /\ cpu.sp = running /\ cpu.callee = own[running].callee
      /\ cpu.pc = own[running].pc
  BY <1>1 DEF Progress, Trapped
<1>4. /\ stack'[running].trapped = TRUE
      /\ stack'[running].callee = cpu.callee /\ stack'[running].pc = cpu.pc
      /\ \A t \in Threads : t # running => stack'[t] = stack[t]
  BY <1>3 DEF trap_entry, TypeOK, Stacks
<1>5. SuspendedIntact'
  BY <1>1, <1>4 DEF SuspendedIntact, Suspended, SavedIsOwn, RetIsOwn
<1>6. FramesIntact'
  BY <1>1, <1>3, <1>4 DEF FramesIntact
<1>7. EpcIsOwn'
  BY <1>1, <1>2, <1>3, <1>4 DEF EpcIsOwn
<1>8. Progress' /\ MaskedInside'
  BY <1>1, <1>2, <1>3, <1>4 DEF Progress, MaskedInside, Trapped
<1> QED BY <1>5, <1>6, <1>7, <1>8

LEMMA TrapReturnInv == ASSUME SpilledInv, TypeOK', trap_return PROVE SpilledInv'
<1> USE DEF SpilledInv
<1>1. /\ phase = "run" /\ phase' = "run" /\ running' = running
      /\ ctx' = ctx /\ own' = own /\ arch' = arch /\ target' = target
      /\ stack[running].trapped
  BY DEF trap_return, Trapped
<1>2. cpu.sp = running
  BY <1>1 DEF Progress
<1>3. /\ stack[running].callee = own[running].callee
      /\ stack[running].pc = own[running].pc
  BY <1>1 DEF FramesIntact, TypeOK
<1>4. arch # "x86_64" => cpu.epc = own[running].pc
  BY <1>1 DEF EpcIsOwn, TypeOK
<1>5. /\ cpu'.callee = own[running].callee /\ cpu'.pc = own[running].pc
      /\ cpu'.sp = cpu.sp /\ cpu'.root = cpu.root /\ cpu'.epc = cpu.epc
  BY <1>2, <1>3, <1>4 DEF trap_return, TypeOK, Registers
<1>6. /\ stack'[running].trapped = FALSE
      /\ \A t \in Threads : t # running => stack'[t] = stack[t]
  BY <1>2 DEF trap_return, TypeOK, Stacks
<1>7. SuspendedIntact'
  BY <1>1, <1>6 DEF SuspendedIntact, Suspended, SavedIsOwn, RetIsOwn
<1>8. FramesIntact'
  BY <1>1, <1>6 DEF FramesIntact
<1>9. EpcIsOwn'
  BY <1>1, <1>5, <1>6 DEF EpcIsOwn
<1>10. Progress' /\ MaskedInside'
  BY <1>1, <1>2, <1>5, <1>6 DEF Progress, MaskedInside, Trapped
<1> QED BY <1>7, <1>8, <1>9, <1>10

LEMMA ContextSwitchInv ==
  ASSUME SafeKernel, ~live, SpilledInv, TypeOK', NEW t \in Threads, context_switch(t)
  PROVE  SpilledInv'
<1> USE DEF SpilledInv
<1>1. /\ phase = "run" /\ phase' = "save" /\ running' = running
      /\ ctx' = ctx /\ own' = own /\ arch' = arch /\ target' = t
      /\ t # running /\ cpu.ie = FALSE
  BY DEF context_switch, TypeOK, Registers
<1>2. /\ cpu'.callee = cpu.callee /\ cpu'.ie = cpu.ie
      /\ cpu'.sp = cpu.sp /\ cpu'.root = cpu.root /\ cpu'.epc = cpu.epc
  BY DEF context_switch, TypeOK, Registers
<1>3. cpu.sp = running
  BY <1>1 DEF Progress
<1>4. /\ stack'[running].ret = cpu.pc
      /\ \A u \in Threads : /\ stack'[u].trapped = stack[u].trapped
                            /\ stack'[u].callee = stack[u].callee
                            /\ stack'[u].pc = stack[u].pc
                            /\ u # running => stack'[u].ret = stack[u].ret
  BY <1>3 DEF context_switch, TypeOK, Stacks
<1>5. SuspendedIntact'
  BY <1>1, <1>4 DEF SuspendedIntact, Suspended, SavedIsOwn, RetIsOwn
<1>6. FramesIntact'
  BY <1>1, <1>4 DEF FramesIntact
<1>7. EpcIsOwn'
  <2> SUFFICES ASSUME arch # "x86_64", NEW u \in Threads PROVE ~stack[u].trapped
    BY <1>1, <1>4 DEF EpcIsOwn
  <2>1. ~stack[running].trapped
    BY DEF context_switch, Trapped, SafeKernel
  <2> QED BY <2>1 DEF EpcIsOwn
<1>8. Progress'
  <2>1. /\ cpu.callee = own[running].callee /\ cpu.root = running
        /\ stack[running].trapped => cpu.pc = Handler
        /\ ~stack[running].trapped => cpu.pc = own[running].pc
    BY <1>1 DEF Progress, Trapped
  <2>2. RetIsOwn(running)'
    BY <1>1, <1>4, <2>1 DEF RetIsOwn, TypeOK
  <2> QED BY <1>1, <1>2, <1>3, <2>1, <2>2 DEF Progress
<1>9. MaskedInside'
  BY <1>1, <1>2 DEF MaskedInside
<1> QED BY <1>5, <1>6, <1>7, <1>8, <1>9

LEMMA SaveInv == ASSUME SpilledInv, TypeOK', Save PROVE SpilledInv'
<1> USE DEF SpilledInv
<1>1. /\ phase = "save" /\ phase' = "root" /\ running' = running
      /\ cpu' = cpu /\ stack' = stack /\ own' = own /\ arch' = arch
      /\ target' = target
  BY DEF Save
<1>2. /\ \A t \in Threads : t # running => ctx'[t] = ctx[t]
      /\ ctx'[running] = Saved(ctx[running])
  BY DEF Save, TypeOK
<1>3. /\ ctx'[running].callee = cpu.callee /\ ctx'[running].sp = cpu.sp
      /\ ctx'[running].root = cpu.root /\ ctx'[running].pc = Label
      /\ ctx'[running].ie \in {cpu.ie, ctx[running].ie}
  <2>1. arch \in {"x86_64", "arm64", "riscv64"} /\ ctx[running] \in Contexts
    BY ContextAssumption DEF TypeOK
  <2> QED BY <1>2, <2>1 DEF Saved, save_x86_64, save_arm64, save_riscv64, Contexts
<1>4. SavedIsOwn(running)'
  BY <1>1, <1>3 DEF SavedIsOwn, Progress, RetIsOwn
<1>5. SuspendedIntact'
  BY <1>1, <1>2, <1>4 DEF SuspendedIntact, Suspended, SavedIsOwn, RetIsOwn
<1>6. FramesIntact' /\ EpcIsOwn'
  BY <1>1 DEF FramesIntact, EpcIsOwn
<1>7. Progress'
  BY <1>1 DEF Progress
<1>8. MaskedInside'
  BY <1>1, <1>2, <1>3 DEF MaskedInside, TypeOK
<1> QED BY <1>5, <1>6, <1>7, <1>8

\* The loads of a switch write registers only.
LEMMA LoadInv ==
  ASSUME SpilledInv, TypeOK', phase \notin {"run", "save"}, phase' \notin {"run", "save"},
         UNCHANGED <<arch, running, target, ctx, stack, own>>,
         Progress', cpu'.ie = FALSE
  PROVE  SpilledInv'
<1> USE DEF SpilledInv
<1>1. SuspendedIntact'
  BY DEF SuspendedIntact, Suspended, SavedIsOwn, RetIsOwn
<1>2. FramesIntact'
  BY DEF FramesIntact
<1>3. EpcIsOwn'
  BY DEF EpcIsOwn
<1>4. MaskedInside'
  BY DEF MaskedInside
<1> QED BY <1>1, <1>2, <1>3, <1>4

LEMMA LoadRootInv == ASSUME SpilledInv, TypeOK', LoadRoot PROVE SpilledInv'
<1> USE DEF SpilledInv
<1>1. target # running /\ SavedIsOwn(target) /\ phase = "root"
  BY DEF LoadRoot, Progress, SuspendedIntact, Suspended, TypeOK
<1>2. /\ cpu'.root = target /\ cpu'.ie = cpu.ie
      /\ phase' \in {"flags", "stack"}
      /\ UNCHANGED <<arch, running, target, ctx, stack, own>>
  BY <1>1 DEF LoadRoot, TypeOK, Registers, SavedIsOwn
<1>3. Progress'
  BY <1>1, <1>2 DEF Progress
<1> QED BY <1>1, <1>2, <1>3, LoadInv DEF MaskedInside

LEMMA LoadFlagsInv == ASSUME SpilledInv, TypeOK', LoadFlags PROVE SpilledInv'
<1> USE DEF SpilledInv
<1>1. target # running /\ phase = "flags" /\ cpu.root = target
  BY DEF LoadFlags, Progress
<1>2. /\ cpu'.root = cpu.root /\ cpu'.ie = ctx[target].ie
      /\ phase' = "stack"
      /\ UNCHANGED <<arch, running, target, ctx, stack, own>>
  BY <1>1 DEF LoadFlags, TypeOK, Registers
<1>3. Progress'
  BY <1>1, <1>2 DEF Progress
<1>4. cpu'.ie = FALSE
  BY <1>2 DEF MaskedInside, TypeOK
<1> QED BY <1>1, <1>2, <1>3, <1>4, LoadInv

LEMMA LoadStackInv == ASSUME SpilledInv, TypeOK', LoadStack PROVE SpilledInv'
<1> USE DEF SpilledInv
<1>1. /\ target # running /\ SavedIsOwn(target) /\ phase = "stack"
      /\ cpu.root = target
  BY DEF LoadStack, Progress, SuspendedIntact, Suspended, TypeOK
<1>2. /\ cpu'.sp = target /\ cpu'.callee = own[target].callee
      /\ cpu'.root = cpu.root /\ cpu'.ie = cpu.ie /\ phase' = "jump"
      /\ UNCHANGED <<arch, running, target, ctx, stack, own>>
  BY <1>1 DEF LoadStack, TypeOK, Registers, SavedIsOwn
<1>3. Progress'
  BY <1>1, <1>2 DEF Progress
<1> QED BY <1>1, <1>2, <1>3, LoadInv DEF MaskedInside

LEMMA JumpInv == ASSUME SafeKernel, ~live, SpilledInv, TypeOK', Jump PROVE SpilledInv'
<1> USE DEF SpilledInv
<1>1. /\ phase = "jump" /\ phase' = "run" /\ running' = target
      /\ UNCHANGED <<arch, target, ctx, stack, own>>
  BY DEF Jump
<1>2. /\ target \in Threads /\ SavedIsOwn(target) /\ SavedIsOwn(running)
      /\ cpu.sp = target /\ cpu.callee = own[target].callee
      /\ cpu.root = target
  BY <1>1 DEF Progress, SuspendedIntact, Suspended, TypeOK
<1>3. /\ cpu'.callee = cpu.callee /\ cpu'.sp = cpu.sp /\ cpu'.root = cpu.root
      /\ cpu'.ie = cpu.ie
  BY DEF Jump, TypeOK, Registers
<1>4. cpu'.pc = IF ctx[target].pc # Label THEN ctx[target].pc
                                          ELSE stack[cpu.sp].ret
  BY DEF Jump, TypeOK, Registers
<1>5. /\ stack[target].trapped => cpu'.pc = Handler
      /\ ~stack[target].trapped => cpu'.pc = own[target].pc
  BY <1>2, <1>4 DEF SavedIsOwn, RetIsOwn
<1>6. SuspendedIntact'
  BY <1>1 DEF SuspendedIntact, Suspended, SavedIsOwn, RetIsOwn
<1>7. FramesIntact'
  BY <1>1 DEF FramesIntact
<1>8. EpcIsOwn'
  BY <1>1 DEF EpcIsOwn
<1>9. Progress'
  BY <1>1, <1>2, <1>3, <1>5 DEF Progress, Trapped
<1>10. MaskedInside'
  BY <1>1 DEF MaskedInside
<1> QED BY <1>6, <1>7, <1>8, <1>9, <1>10

LEMMA NextInv == ASSUME SafeKernel, ~live, SpilledInv, [Next]_vars PROVE SpilledInv'
<1>1. TypeOK'
  BY NextType DEF SpilledInv
<1>2. CASE bootstrap_current_core
  BY <1>1, <1>2 DEF bootstrap_current_core, SpilledInv, SuspendedIntact, Suspended,
     SavedIsOwn, RetIsOwn, FramesIntact, EpcIsOwn, Progress, MaskedInside, Trapped
<1>3. CASE UNCHANGED vars
  BY <1>1, <1>3 DEF vars, SpilledInv, SuspendedIntact, Suspended,
     SavedIsOwn, RetIsOwn, FramesIntact, EpcIsOwn, Progress, MaskedInside, Trapped
<1>4. CASE Next /\ ~bootstrap_current_core
  BY <1>1, <1>4, ComputeInv, SetInterruptsInv, TrapEntryInv, TrapReturnInv,
     ContextSwitchInv, SaveInv, LoadRootInv, LoadFlagsInv, LoadStackInv,
     JumpInv DEF Next, Switching
<1> QED BY <1>2, <1>3, <1>4

\* How a build treats the link register never changes.
LEMMA BuildFixed == [Next]_vars => live' = live
<1> SUFFICES ASSUME [Next]_vars PROVE live' = live
  OBVIOUS
<1> QED BY DEF Next, vars, bootstrap_current_core, Compute, SetInterrupts, trap_entry,
           trap_return, context_switch, Switching, Save, LoadRoot, LoadFlags, LoadStack, Jump

(***************************************************************************)
(* What the invariant implies.                                             *)
(***************************************************************************)

\* The invariant holds in every state of every behaviour.
THEOREM Invariance == ASSUME SafeKernel PROVE Spec => []IInv
<1>1. Init => IInv
  BY InitInv DEF IInv, SpilledInv
<1>2. IInv /\ [Next]_vars => IInv'
  BY NextInv, NextType, BuildFixed DEF IInv
<1> QED BY <1>1, <1>2, PTL DEF Spec

\* General registers, stack and address space survive every interleaving of
\* switches, interrupts and preempted handlers, for every number of threads.
THEOREM RegistersSurvive == ASSUME SafeKernel PROVE Spec => []ContextSurvives
<1>1. IInv => ContextSurvives
  BY DEF IInv, SpilledInv, Progress, ContextSurvives
<1> QED BY <1>1, Invariance, PTL

\* context_switch returns to its caller and a trap to the code it interrupted,
\* in every build that spills the return address of context_switch.
THEOREM ReturnsHome == ASSUME SafeKernel PROVE Spec => []ResumesOwnCode
<1>1. IInv => ResumesOwnCode
  BY DEF IInv, SpilledInv, Progress, ResumesOwnCode
<1> QED BY <1>1, Invariance, PTL
=============================================================================
